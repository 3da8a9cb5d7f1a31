--------------------------- MODULE RestoreJobProofs ---------------------------
(***************************************************************************)
(* Proofs about RestoreJob, for every number of retries and every set of   *)
(* faults.                                                                 *)
(*                                                                         *)
(* The argument follows the task: what an attempt has committed is known   *)
(* from where it stands (StageInv), a restore that committed runs again    *)
(* only after a fault of the control database (QuietInv, FirstInv), and it *)
(* finds its package again only after a fault of the object store          *)
(* (StagedInv).                                                            *)
(***************************************************************************)
EXTENDS RestoreJob, FiniteSetTheorems, TLAPS

Staging  == {"create", "stage", "note", "send"}
Building == {"build", "commit1", "commit2", "cleanup_ok", "finish"}
Over     == task \in {"done", "lost"}

\* Where the task and the worker stand, and what is committed by then.
StageInv ==
  /\ pc \in Staging <=> task = "unsent"
  /\ pc = "idle" <=> task \in {"queued", "done", "lost"}
  /\ task = "unsent" => schemas = {}
  /\ pc \in Building => package = "valid" /\ status = "restoring"
  /\ pc = "commit2" => attempt \in schemas
  /\ pc \in {"cleanup_ok", "finish"} => attempt \in orgs

\* While the control database answers, whoever has committed is on the way to
\* COMPLETED, or the task is over.
QuietInv ==
  ControlAnswered /\ schemas # {} =>
    \/ pc \in {"commit2", "cleanup_ok", "finish"}
    \/ pc = "audit" /\ status = "completed"
    \/ Over /\ status # "failed"

\* While the object store answers, an organization and its staged package meet
\* only until the finally clause, and no later attempt gets past the fetch.
StagedInv ==
  "storage" \notin occurred =>
    /\ orgs = {} \/ \E a \in Attempts : orgs = {a}
    /\ orgs # {} /\ staged => pc \in {"handler", "cleanup_ok", "cleanup_failed"} \/ Over
    /\ pc \in {"open", "build", "commit1", "commit2"} => orgs = {}

\* While the control database answers, an organization belongs to the attempt
\* that is on its way to COMPLETED, or the task is over.
FirstInv ==
  ControlAnswered =>
    \/ orgs = {}
    \/ /\ \E a \in Attempts : orgs = {a}
       /\ pc \in {"cleanup_ok", "finish", "audit"} \/ Over

IInv ==
  /\ TypeOK /\ CatalogIsBacked /\ SchemasAccounted /\ CompletedIsRestored /\ FailedMeansNothing
  /\ StageInv /\ QuietInv /\ StagedInv /\ FirstInv

-----------------------------------------------------------------------------
(***************************************************************************)
(* Type correctness.                                                       *)
(***************************************************************************)

\* The current attempt is one of the attempts.
LEMMA AttemptType == TypeOK => attempt \in Attempts /\ attempt \in Nat
BY RestoreAssumption DEF TypeOK, attempt, Attempts

\* What is staged, created and sent.
LEMMA RequestType == ASSUME TypeOK, Request PROVE TypeOK'
BY DEF TypeOK, Request, CreateJob, Stage, NoteKey, Enqueue, stores, Attempts

\* What a worker does.
LEMMA WorkerType == ASSUME TypeOK, Worker PROVE TypeOK'
<1> USE RestoreAssumption, AttemptType DEF TypeOK, stores, Suffer, Fine
<1>1. CASE Begin \/ Fetch \/ Open
  BY <1>1 DEF Begin, Fetch, Open
<1>2. CASE Build
  BY <1>2 DEF Build
<1>3. CASE Commit
  BY <1>3 DEF Commit, Committing, TakeEffect
<1>4. CASE MarkFailed \/ Cleanup \/ Audit
  BY <1>4 DEF MarkFailed, Cleanup, Audit, StagedAfterCleanup
<1>5. CASE Finish
  BY <1>5 DEF Finish, Outcome
<1>6. CASE Retry
  BY <1>6 DEF Retry, RetriesLeft, Counted, Attempts
<1>7. CASE Exhausted
  BY <1>7 DEF Exhausted, ExhaustedStatus
<1>8. CASE OpenFails \/ FetchFails
  BY <1>8 DEF OpenFails, FetchFails
<1> QED
  BY <1>1, <1>2, <1>3, <1>4, <1>5, <1>6, <1>7, <1>8 DEF Worker

\* What a fault does.
LEMMA FaultType == ASSUME TypeOK, Fault PROVE TypeOK'
<1> USE AttemptType DEF TypeOK, stores, Suffer
<1>1. CASE StagingFails \/ BeginFails \/ FinishFails \/ WorkerKilled
  BY <1>1 DEF StagingFails, BeginFails, FinishFails, WorkerKilled, Attempts
<1>2. CASE BuildFails
  BY <1>2 DEF BuildFails
<1>3. CASE CommitFails
  BY <1>3 DEF CommitFails, Committing
<1> QED
  BY <1>1, <1>2, <1>3 DEF Fault

\* Every step keeps the types.
LEMMA NextType == ASSUME TypeOK, [Next]_vars PROVE TypeOK'
<1>1. CASE Ended \/ UNCHANGED vars
  BY <1>1 DEF Ended, vars, TypeOK, Attempts
<1> QED
  BY <1>1, RequestType, WorkerType, FaultType DEF Next

-----------------------------------------------------------------------------
(***************************************************************************)
(* The inductive invariant, part by part.                                  *)
(***************************************************************************)

\* The initial states.
LEMMA InitIInv == Init => IInv
<1> SUFFICES ASSUME Init PROVE IInv
  OBVIOUS
<1> USE RestoreAssumption DEF Init
<1>1. TypeOK
  <2>1. staged \in BOOLEAN
    BY Zenon
  <2> QED
    BY <2>1 DEF TypeOK, Attempts
<1>2. CatalogIsBacked /\ SchemasAccounted /\ CompletedIsRestored /\ FailedMeansNothing
  BY DEF CatalogIsBacked, SchemasAccounted, CompletedIsRestored, FailedMeansNothing
<1>3. StageInv /\ QuietInv /\ StagedInv /\ FirstInv
  BY DEF StageInv, QuietInv, StagedInv, FirstInv, Staging, Building
<1> QED
  BY <1>1, <1>2, <1>3 DEF IInv

\* Where the task stands, and what it has committed by then.
LEMMA StageStep ==
  ASSUME IInv, [Next]_vars
  PROVE  StageInv'
<1> USE RestoreAssumption DEF IInv, TypeOK, StageInv, Staging, Building, stores, Suffer, Fine, attempt, CatalogIsBacked
<1>1. CASE CreateJob \/ Stage \/ NoteKey \/ Enqueue \/ StagingFails
  BY <1>1 DEF CreateJob, Stage, NoteKey, Enqueue, StagingFails
<1>2. CASE Begin \/ BeginFails \/ Fetch \/ FetchFails
  BY <1>2 DEF Begin, BeginFails, Fetch, FetchFails
<1>3. CASE Open \/ OpenFails
  BY <1>3 DEF Open, OpenFails
<1>4. CASE Build \/ BuildFails
  BY <1>4 DEF Build, BuildFails
<1>5. CASE Commit
  BY <1>5 DEF Commit, Committing, TakeEffect, Connection
<1>6. CASE CommitFails
  BY <1>6 DEF CommitFails, Committing, Connection
<1>7. CASE MarkFailed \/ Cleanup
  BY <1>7 DEF MarkFailed, Cleanup, StagedAfterCleanup
<1>8. CASE Finish \/ FinishFails \/ Audit
  BY <1>8 DEF Finish, FinishFails, Audit, Outcome
<1>9. CASE Retry
  BY <1>9 DEF Retry, RetriesLeft, Counted
<1>10. CASE Exhausted \/ WorkerKilled
  BY <1>10 DEF Exhausted, WorkerKilled, ExhaustedStatus
<1>11. CASE Ended \/ UNCHANGED vars
  BY <1>11 DEF Ended, vars
<1> QED
  BY <1>1, <1>2, <1>3, <1>4, <1>5, <1>6, <1>7, <1>8, <1>9, <1>10, <1>11 DEF Next, Request, Worker, Fault

\* No organization without its schemas.
LEMMA BackedStep ==
  ASSUME IInv, [Next]_vars
  PROVE  CatalogIsBacked'
<1> USE RestoreAssumption DEF IInv, TypeOK, StageInv, Staging, Building, stores, Suffer, Fine, attempt, CatalogIsBacked
<1>1. CASE CreateJob \/ Stage \/ NoteKey \/ Enqueue \/ StagingFails
  BY <1>1 DEF CreateJob, Stage, NoteKey, Enqueue, StagingFails
<1>2. CASE Begin \/ BeginFails \/ Fetch \/ FetchFails
  BY <1>2 DEF Begin, BeginFails, Fetch, FetchFails
<1>3. CASE Open \/ OpenFails
  BY <1>3 DEF Open, OpenFails
<1>4. CASE Build \/ BuildFails
  BY <1>4 DEF Build, BuildFails
<1>5. CASE Commit
  BY <1>5 DEF Commit, Committing, TakeEffect, Connection
<1>6. CASE CommitFails
  BY <1>6 DEF CommitFails, Committing, Connection
<1>7. CASE MarkFailed \/ Cleanup
  BY <1>7 DEF MarkFailed, Cleanup, StagedAfterCleanup
<1>8. CASE Finish \/ FinishFails \/ Audit
  BY <1>8 DEF Finish, FinishFails, Audit, Outcome
<1>9. CASE Retry
  BY <1>9 DEF Retry, RetriesLeft, Counted
<1>10. CASE Exhausted \/ WorkerKilled
  BY <1>10 DEF Exhausted, WorkerKilled, ExhaustedStatus
<1>11. CASE Ended \/ UNCHANGED vars
  BY <1>11 DEF Ended, vars
<1> QED
  BY <1>1, <1>2, <1>3, <1>4, <1>5, <1>6, <1>7, <1>8, <1>9, <1>10, <1>11 DEF Next, Request, Worker, Fault

\* Schemas without an organization keep their explanation.
LEMMA SchemasStep ==
  ASSUME IInv, [Next]_vars
  PROVE  SchemasAccounted'
<1> USE RestoreAssumption DEF IInv, TypeOK, StageInv, Staging, Building, stores, Suffer, Fine, attempt, SchemasAccounted
<1>1. CASE CreateJob \/ Stage \/ NoteKey \/ Enqueue \/ StagingFails
  BY <1>1 DEF CreateJob, Stage, NoteKey, Enqueue, StagingFails
<1>2. CASE Begin \/ BeginFails \/ Fetch \/ FetchFails
  BY <1>2 DEF Begin, BeginFails, Fetch, FetchFails
<1>3. CASE Open \/ OpenFails
  BY <1>3 DEF Open, OpenFails
<1>4. CASE Build \/ BuildFails
  BY <1>4 DEF Build, BuildFails
<1>5. CASE Commit
  BY <1>5 DEF Commit, Committing, TakeEffect, Connection
<1>6. CASE CommitFails
  BY <1>6 DEF CommitFails, Committing, Connection
<1>7. CASE MarkFailed \/ Cleanup
  BY <1>7 DEF MarkFailed, Cleanup, StagedAfterCleanup
<1>8. CASE Finish \/ FinishFails \/ Audit
  BY <1>8 DEF Finish, FinishFails, Audit, Outcome
<1>9. CASE Retry
  BY <1>9 DEF Retry, RetriesLeft, Counted
<1>10. CASE Exhausted \/ WorkerKilled
  BY <1>10 DEF Exhausted, WorkerKilled, ExhaustedStatus
<1>11. CASE Ended \/ UNCHANGED vars
  BY <1>11 DEF Ended, vars
<1> QED
  BY <1>1, <1>2, <1>3, <1>4, <1>5, <1>6, <1>7, <1>8, <1>9, <1>10, <1>11 DEF Next, Request, Worker, Fault

\* A COMPLETED job keeps its organization.
LEMMA CompletedStep ==
  ASSUME IInv, [Next]_vars
  PROVE  CompletedIsRestored'
<1> USE RestoreAssumption DEF IInv, TypeOK, StageInv, Staging, Building, stores, Suffer, Fine, attempt, CompletedIsRestored
<1>1. CASE CreateJob \/ Stage \/ NoteKey \/ Enqueue \/ StagingFails
  BY <1>1 DEF CreateJob, Stage, NoteKey, Enqueue, StagingFails
<1>2. CASE Begin \/ BeginFails \/ Fetch \/ FetchFails
  BY <1>2 DEF Begin, BeginFails, Fetch, FetchFails
<1>3. CASE Open \/ OpenFails
  BY <1>3 DEF Open, OpenFails
<1>4. CASE Build \/ BuildFails
  BY <1>4 DEF Build, BuildFails
<1>5. CASE Commit
  BY <1>5 DEF Commit, Committing, TakeEffect, Connection
<1>6. CASE CommitFails
  BY <1>6 DEF CommitFails, Committing, Connection
<1>7. CASE MarkFailed \/ Cleanup
  BY <1>7 DEF MarkFailed, Cleanup, StagedAfterCleanup
<1>8. CASE Finish \/ FinishFails \/ Audit
  BY <1>8 DEF Finish, FinishFails, Audit, Outcome
<1>9. CASE Retry
  BY <1>9 DEF Retry, RetriesLeft, Counted
<1>10. CASE Exhausted \/ WorkerKilled
  BY <1>10 DEF Exhausted, WorkerKilled, ExhaustedStatus
<1>11. CASE Ended \/ UNCHANGED vars
  BY <1>11 DEF Ended, vars
<1> QED
  BY <1>1, <1>2, <1>3, <1>4, <1>5, <1>6, <1>7, <1>8, <1>9, <1>10, <1>11 DEF Next, Request, Worker, Fault

\* A restore that committed runs on to its end.
LEMMA QuietStep ==
  ASSUME IInv, [Next]_vars
  PROVE  QuietInv'
<1> USE RestoreAssumption DEF IInv, TypeOK, StageInv, Staging, Building, stores, Suffer, Fine, attempt, QuietInv, ControlAnswered, Over, CatalogIsBacked
<1>1. CASE CreateJob \/ Stage \/ NoteKey \/ Enqueue \/ StagingFails
  BY <1>1 DEF CreateJob, Stage, NoteKey, Enqueue, StagingFails
<1>2. CASE Begin \/ BeginFails \/ Fetch \/ FetchFails
  BY <1>2 DEF Begin, BeginFails, Fetch, FetchFails
<1>3. CASE Open \/ OpenFails
  BY <1>3 DEF Open, OpenFails
<1>4. CASE Build \/ BuildFails
  BY <1>4 DEF Build, BuildFails
<1>5. CASE Commit
  BY <1>5 DEF Commit, Committing, TakeEffect, Connection
<1>6. CASE CommitFails
  BY <1>6 DEF CommitFails, Committing, Connection
<1>7. CASE MarkFailed \/ Cleanup
  BY <1>7 DEF MarkFailed, Cleanup, StagedAfterCleanup
<1>8. CASE Finish \/ FinishFails \/ Audit
  BY <1>8 DEF Finish, FinishFails, Audit, Outcome
<1>9. CASE Retry
  BY <1>9 DEF Retry, RetriesLeft, Counted
<1>10. CASE Exhausted \/ WorkerKilled
  BY <1>10 DEF Exhausted, WorkerKilled, ExhaustedStatus
<1>11. CASE Ended \/ UNCHANGED vars
  BY <1>11 DEF Ended, vars
<1> QED
  BY <1>1, <1>2, <1>3, <1>4, <1>5, <1>6, <1>7, <1>8, <1>9, <1>10, <1>11 DEF Next, Request, Worker, Fault

\* A FAILED job has left nothing.
LEMMA FailedStep ==
  ASSUME IInv, [Next]_vars
  PROVE  FailedMeansNothing'
<1> USE RestoreAssumption DEF IInv, TypeOK, StageInv, Staging, Building, stores, Suffer, Fine, attempt, QuietInv, ControlAnswered, Over, FailedMeansNothing, CatalogIsBacked
<1>1. CASE CreateJob \/ Stage \/ NoteKey \/ Enqueue \/ StagingFails
  BY <1>1 DEF CreateJob, Stage, NoteKey, Enqueue, StagingFails
<1>2. CASE Begin \/ BeginFails \/ Fetch \/ FetchFails
  BY <1>2 DEF Begin, BeginFails, Fetch, FetchFails
<1>3. CASE Open \/ OpenFails
  BY <1>3 DEF Open, OpenFails
<1>4. CASE Build \/ BuildFails
  BY <1>4 DEF Build, BuildFails
<1>5. CASE Commit
  BY <1>5 DEF Commit, Committing, TakeEffect, Connection
<1>6. CASE CommitFails
  BY <1>6 DEF CommitFails, Committing, Connection
<1>7. CASE MarkFailed \/ Cleanup
  BY <1>7 DEF MarkFailed, Cleanup, StagedAfterCleanup
<1>8. CASE Finish \/ FinishFails \/ Audit
  BY <1>8 DEF Finish, FinishFails, Audit, Outcome
<1>9. CASE Retry
  BY <1>9 DEF Retry, RetriesLeft, Counted
<1>10. CASE Exhausted \/ WorkerKilled
  BY <1>10 DEF Exhausted, WorkerKilled, ExhaustedStatus
<1>11. CASE Ended \/ UNCHANGED vars
  BY <1>11 DEF Ended, vars
<1> QED
  BY <1>1, <1>2, <1>3, <1>4, <1>5, <1>6, <1>7, <1>8, <1>9, <1>10, <1>11 DEF Next, Request, Worker, Fault

\* The package of a restored organization is gone.
LEMMA StagedStep ==
  ASSUME IInv, [Next]_vars
  PROVE  StagedInv'
<1> USE RestoreAssumption, AttemptType DEF IInv, TypeOK, StageInv, Staging, Building, stores, Suffer, Fine, attempt, StagedInv, Over, CatalogIsBacked
<1>1. CASE CreateJob \/ Stage \/ NoteKey \/ Enqueue \/ StagingFails
  BY <1>1 DEF CreateJob, Stage, NoteKey, Enqueue, StagingFails
<1>2. CASE Begin \/ BeginFails \/ Fetch \/ FetchFails
  BY <1>2 DEF Begin, BeginFails, Fetch, FetchFails
<1>3. CASE Open \/ OpenFails
  BY <1>3 DEF Open, OpenFails
<1>4. CASE Build \/ BuildFails
  BY <1>4 DEF Build, BuildFails
<1>5. CASE Commit
  BY <1>5 DEF Commit, Committing, TakeEffect, Connection
<1>6. CASE CommitFails
  BY <1>6 DEF CommitFails, Committing, Connection
<1>7. CASE MarkFailed \/ Cleanup
  BY <1>7 DEF MarkFailed, Cleanup, StagedAfterCleanup
<1>8. CASE Finish \/ FinishFails \/ Audit
  BY <1>8 DEF Finish, FinishFails, Audit, Outcome
<1>9. CASE Retry
  BY <1>9 DEF Retry, RetriesLeft, Counted
<1>10. CASE Exhausted \/ WorkerKilled
  BY <1>10 DEF Exhausted, WorkerKilled, ExhaustedStatus
<1>11. CASE Ended \/ UNCHANGED vars
  BY <1>11 DEF Ended, vars
<1> QED
  BY <1>1, <1>2, <1>3, <1>4, <1>5, <1>6, <1>7, <1>8, <1>9, <1>10, <1>11 DEF Next, Request, Worker, Fault

\* An organization is the first one while the control database answers.
LEMMA FirstStep ==
  ASSUME IInv, [Next]_vars
  PROVE  FirstInv'
<1> USE RestoreAssumption, AttemptType DEF IInv, TypeOK, StageInv, Staging, Building, stores, Suffer, Fine, attempt, FirstInv, ControlAnswered, Over, CatalogIsBacked
<1>1. CASE CreateJob \/ Stage \/ NoteKey \/ Enqueue \/ StagingFails
  BY <1>1 DEF CreateJob, Stage, NoteKey, Enqueue, StagingFails
<1>2. CASE Begin \/ BeginFails \/ Fetch \/ FetchFails
  BY <1>2 DEF Begin, BeginFails, Fetch, FetchFails
<1>3. CASE Open \/ OpenFails
  BY <1>3 DEF Open, OpenFails
<1>4. CASE Build \/ BuildFails
  BY <1>4 DEF Build, BuildFails
<1>5. CASE Commit
  BY <1>5 DEF Commit, Committing, TakeEffect, Connection
<1>6. CASE CommitFails
  BY <1>6 DEF CommitFails, Committing, Connection
<1>7. CASE MarkFailed \/ Cleanup
  BY <1>7 DEF MarkFailed, Cleanup, StagedAfterCleanup
<1>8. CASE Finish \/ FinishFails \/ Audit
  BY <1>8 DEF Finish, FinishFails, Audit, Outcome
<1>9. CASE Retry
  BY <1>9 DEF Retry, RetriesLeft, Counted
<1>10. CASE Exhausted \/ WorkerKilled
  BY <1>10 DEF Exhausted, WorkerKilled, ExhaustedStatus
<1>11. CASE Ended \/ UNCHANGED vars
  BY <1>11 DEF Ended, vars
<1> QED
  BY <1>1, <1>2, <1>3, <1>4, <1>5, <1>6, <1>7, <1>8, <1>9, <1>10, <1>11 DEF Next, Request, Worker, Fault

\* Every step keeps the inductive invariant.
LEMMA NextIInv == IInv /\ [Next]_vars => IInv'
<1> SUFFICES ASSUME IInv, [Next]_vars PROVE IInv'
  OBVIOUS
<1>1. TypeOK'
  BY NextType DEF IInv
<1> QED
  BY <1>1, BackedStep, SchemasStep, CompletedStep, FailedStep, StageStep, QuietStep, StagedStep,
     FirstStep DEF IInv

-----------------------------------------------------------------------------
(***************************************************************************)
(* Theorems.                                                               *)
(***************************************************************************)

\* However often run_restore_task retries, the package is restored into at most
\* one organization, unless both the object store and the control database fail.
THEOREM AtMostOneOrganization == Spec => []OneOrganization
<1>1. IInv => OneOrganization
  <2> SUFFICES ASSUME IInv, "storage" \notin occurred \/ ControlAnswered
               PROVE  Cardinality(orgs) <= 1
    BY DEF OneOrganization
  <2>1. CASE orgs = {}
    BY <2>1, FS_EmptySet
  <2>2. CASE \E a \in Attempts : orgs = {a}
    BY <2>2, FS_Singleton
  <2> QED
    BY <2>1, <2>2 DEF IInv, StagedInv, FirstInv
<1> QED
  BY <1>1, InitIInv, NextIInv, PTL DEF Spec

\* A restore's stores agree with what its job says (run_restore,
\* restore_package), under every fault: no organization without its schemas, no
\* schema unaccounted for, COMPLETED names a committed organization, FAILED
\* leaves nothing behind while the control database answers, and there is at
\* most one organization.
THEOREM StoresAlwaysAgree == Spec => []StoresAgree
<1>1. IInv /\ OneOrganization => StoresAgree
  BY DEF IInv, StoresAgree
<1> QED
  BY <1>1, InitIInv, NextIInv, AtMostOneOrganization, PTL DEF Spec

-----------------------------------------------------------------------------
(***************************************************************************)
(* How long a restore takes.  Every step of the request, of the worker and *)
(* of the environment uses up one of a number of steps that is known in    *)
(* advance, so that a job whose worker goes on stops being worked on.      *)
(***************************************************************************)

\* The steps the present attempt can still take.
StepsOfAttempt ==
  CASE pc = "create"  -> 18 [] pc = "stage"   -> 17 [] pc = "note" -> 16 [] pc = "send" -> 15
    [] pc = "idle"    -> 14 [] pc = "fetch"   -> 13 [] pc = "open" -> 12
    [] pc = "build"   -> 11 [] pc = "commit1" -> 10 [] pc = "commit2" -> 9
    [] pc = "handler" -> 8  [] pc \in {"cleanup_ok", "cleanup_failed"} -> 7
    [] pc = "finish"  -> 6  [] pc = "audit"   -> 5  [] pc = "retry" -> 4

StepsLeft == IF Over THEN 0 ELSE StepsOfAttempt + 11 * (MaxRetries - retries)

\* What a job that is over looks like.
Settled ==
  \/ task = "done" /\ (status \in {"completed", "failed"} \/ retries = MaxRetries)
  \/ task = "lost" \/ "control" \in occurred

\* A task ends after its last save or with its retries used up.
SettledInv ==
  /\ pc = "audit" => status = "completed"
  /\ Over => Settled

\* The steps are counted by a natural number.
LEMMA StepsCount ==
  ASSUME IInv
  PROVE  /\ StepsLeft \in 0 .. (18 + 11 * MaxRetries)
         /\ StepsLeft = 0 <=> Over
         /\ ~Over => StepsOfAttempt \in 4 .. 18
<1> USE RestoreAssumption DEF IInv, TypeOK
<1>1. StepsOfAttempt \in 4 .. 18
  BY DEF StepsOfAttempt
<1>2. 11 * (MaxRetries - retries) \in 0 .. 11 * MaxRetries
  OBVIOUS
<1> QED
  BY <1>1, <1>2 DEF StepsLeft

\* A step within an attempt.
LEMMA StepsWithin ==
  ASSUME IInv, IInv', retries' = retries, ~Over, Over' \/ StepsOfAttempt' < StepsOfAttempt
  PROVE  StepsLeft' < StepsLeft
<1>1. /\ StepsOfAttempt \in 4 .. 18 /\ retries \in 0..MaxRetries
      /\ StepsOfAttempt' \in Int
  BY StepsCount DEF IInv, TypeOK, StepsOfAttempt
<1>2. 11 * (MaxRetries - retries) \in Nat
  BY <1>1, RestoreAssumption
<1> QED
  BY <1>1, <1>2 DEF StepsLeft

\* Every step but a stutter uses one up.
LEMMA StepsDecrease ==
  ASSUME IInv, IInv', Next, ~UNCHANGED vars
  PROVE  StepsLeft' < StepsLeft
<1> USE RestoreAssumption DEF IInv, TypeOK, StageInv, Staging, Over
<1>1. CASE CreateJob \/ Stage \/ NoteKey \/ Enqueue \/ StagingFails
  BY <1>1, StepsWithin DEF CreateJob, Stage, NoteKey, Enqueue, StagingFails, StepsOfAttempt
<1>2. CASE Begin \/ BeginFails \/ Fetch \/ FetchFails
  BY <1>2, StepsWithin DEF Begin, BeginFails, Fetch, FetchFails, StepsOfAttempt
<1>3. CASE Open \/ OpenFails \/ Build \/ BuildFails
  BY <1>3, StepsWithin DEF Open, OpenFails, Build, BuildFails, StepsOfAttempt
<1>4. CASE Commit \/ CommitFails
  BY <1>4, StepsWithin DEF Commit, CommitFails, Committing, StepsOfAttempt
<1>5. CASE MarkFailed \/ Cleanup \/ Finish \/ FinishFails \/ Audit
  BY <1>5, StepsWithin DEF MarkFailed, Cleanup, Finish, FinishFails, Audit, StepsOfAttempt
<1>6. CASE Retry /\ task' = "lost"
  BY <1>6, StepsWithin DEF Retry
<1>7. CASE Retry /\ task' # "lost"
  <2>1. /\ StepsOfAttempt = 4 /\ StepsOfAttempt' = 14 /\ retries' = retries + 1
        /\ retries \in Nat /\ ~Over /\ ~Over'
    BY <1>7 DEF Retry, Counted, StepsOfAttempt
  <2> QED
    BY <2>1 DEF StepsLeft
<1>8. CASE Exhausted \/ WorkerKilled
  BY <1>8, StepsWithin DEF Exhausted, WorkerKilled
<1> QED
  BY <1>1, <1>2, <1>3, <1>4, <1>5, <1>6, <1>7, <1>8
  DEF Next, Request, Worker, Fault, Ended

\* The task ends as it should.
LEMMA SettledStep ==
  ASSUME IInv, SettledInv, [Next]_vars
  PROVE  SettledInv'
<1> USE RestoreAssumption DEF IInv, TypeOK, StageInv, Over, Settled, SettledInv,
                              Suffer, Fine
<1>1. CASE CreateJob \/ Stage \/ NoteKey \/ Enqueue \/ StagingFails
  BY <1>1 DEF CreateJob, Stage, NoteKey, Enqueue, StagingFails, Staging
<1>2. CASE Begin \/ BeginFails \/ Fetch \/ FetchFails
  BY <1>2 DEF Begin, BeginFails, Fetch, FetchFails
<1>3. CASE Open \/ OpenFails \/ Build \/ BuildFails
  BY <1>3 DEF Open, OpenFails, Build, BuildFails
<1>4. CASE Commit \/ CommitFails
  BY <1>4 DEF Commit, CommitFails, Committing
<1>5. CASE MarkFailed \/ Cleanup \/ Finish \/ FinishFails
  BY <1>5 DEF MarkFailed, Cleanup, Finish, FinishFails
<1>6. CASE Audit
  BY <1>6 DEF Audit
<1>7. CASE Retry
  BY <1>7 DEF Retry
<1>8. CASE Exhausted \/ WorkerKilled
  BY <1>8 DEF Exhausted, WorkerKilled
<1>9. CASE Ended \/ UNCHANGED vars
  BY <1>9 DEF Ended, vars
<1> QED
  BY <1>1, <1>2, <1>3, <1>4, <1>5, <1>6, <1>7, <1>8, <1>9 DEF Next, Request, Worker, Fault

\* A restore is over within 18 + 11 * MaxRetries steps, whatever fails in them
\* (run_restore, run_restore_task), and a job that is over is settled: the part
\* of RestoreEnds that fairness adds nothing to.
THEOREM RestoresAreBounded ==
  Spec => /\ [](StepsLeft \in 0 .. (18 + 11 * MaxRetries) /\ (StepsLeft = 0 => Settled))
          /\ [][StepsLeft' < StepsLeft]_vars
<1> DEFINE Bounded == StepsLeft \in 0 .. (18 + 11 * MaxRetries) /\ (StepsLeft = 0 => Settled)
           Used == StepsLeft' < StepsLeft
<1>1. Init => SettledInv
  BY DEF Init, SettledInv, Over
<1>2. IInv /\ SettledInv /\ [Next]_vars => SettledInv'
  BY SettledStep
<1>3. IInv /\ SettledInv => Bounded
  BY StepsCount DEF SettledInv
<1>4. IInv /\ IInv' /\ [Next]_vars => [Used]_vars
  BY StepsDecrease
<1> QED
  BY <1>1, <1>2, <1>3, <1>4, InitIInv, NextIInv, PTL DEF Spec

-----------------------------------------------------------------------------
(***************************************************************************)
(* The promise to users: RestoreJob implements RestorePromise as long as   *)
(* the control database answers.                                           *)
(***************************************************************************)
Seen == {[id |-> a, whole |-> a \in schemas] : a \in orgs}
Told == IF status \in {"completed", "failed"} THEN status ELSE "open"

\* Schemas that are added change nothing for organizations that have theirs.
LEMMA SeenSame ==
  ASSUME CatalogIsBacked, orgs' = orgs, schemas \subseteq schemas'
  PROVE  Seen' = Seen
<1>1. \A a \in orgs : a \in schemas /\ a \in schemas'
  BY DEF CatalogIsBacked
<1> QED
  BY <1>1 DEF Seen

\* While the control database answers, no restore is run that has committed.
LEMMA NotYet ==
  ASSUME IInv, ControlAnswered, pc \notin {"cleanup_ok", "finish", "audit"}, ~Over
  PROVE  orgs = {} /\ Seen = {} /\ status # "completed"
  BY DEF IInv, FirstInv, CompletedIsRestored, Seen

\* The steps of the promise, as this module sees them.
LEMMA PromiseSteps ==
  /\ Seen' = Seen /\ Told' = Told => UNCHANGED Promise!promiseVars
  /\ Seen' = Seen /\ Seen = {} /\ Told' \in {"open", "failed"} /\ Told \in {"open", "failed"} =>
       [Promise!Next]_(Promise!promiseVars)
  /\ Seen' = Seen /\ Seen # {} /\ Told = "open" /\ Told' = "completed" =>
       [Promise!Next]_(Promise!promiseVars)
  /\ \A a \in Attempts :
       Seen = {} /\ Seen' = {[id |-> a, whole |-> TRUE]} /\ Told = "open" /\ Told' = "open" =>
         [Promise!Next]_(Promise!promiseVars)
<1> USE DEF Promise!promiseVars, Promise!Next, Promise!Appear, Promise!Succeed, Promise!Fail,
            Promise!TryAgain
<1>1. Promise!promiseVars = <<Seen, Told>>
  BY DEF Seen, Told
<1> QED
  BY <1>1 DEF Seen, Told

\* Every step is one that was promised.
LEMMA PromiseStep ==
  ASSUME IInv, [Next]_vars, ControlAnswered'
  PROVE  [Promise!Next]_(Promise!promiseVars)
<1> DEFINE Step == [Promise!Next]_(Promise!promiseVars)
<1> USE DEF stores, Suffer, Fine
<1>1. TypeOK /\ CatalogIsBacked /\ StageInv /\ CompletedIsRestored
  BY DEF IInv
<1>2. occurred \subseteq occurred' /\ schemas \subseteq schemas'
  <2>1. CASE Request \/ Ended \/ UNCHANGED vars
    BY <2>1 DEF Request, CreateJob, Stage, NoteKey, Enqueue, Ended, vars
  <2>2. CASE Fault
    BY <2>2 DEF Fault, StagingFails, BeginFails, BuildFails, CommitFails, FinishFails, WorkerKilled
  <2>3. CASE Begin \/ Fetch \/ Open \/ Build \/ OpenFails \/ FetchFails
    BY <2>3 DEF Begin, Fetch, Open, Build, OpenFails, FetchFails
  <2>4. CASE Commit
    BY <2>4 DEF Commit, TakeEffect
  <2>5. CASE MarkFailed \/ Cleanup \/ Finish \/ Audit \/ Retry \/ Exhausted
    BY <2>5 DEF MarkFailed, Cleanup, Finish, Audit, Retry, Exhausted
  <2> QED
    BY <2>1, <2>2, <2>3, <2>4, <2>5 DEF Next, Worker
<1>3. ControlAnswered
  BY <1>2 DEF ControlAnswered
<1>4. ASSUME orgs' = orgs, status' = status PROVE Step
  <2>1. Seen' = Seen
    BY <1>1, <1>2, <1>4, SeenSame
  <2>2. Told' = Told
    BY <1>4 DEF Told
  <2> QED
    BY <2>1, <2>2, PromiseSteps
<1>5. ASSUME orgs' = orgs, pc \notin {"cleanup_ok", "finish", "audit"}, ~Over, status' # "completed"
      PROVE  Step
  <2>1. Seen' = Seen
    BY <1>1, <1>2, <1>5, SeenSame
  <2>2. Seen = {} /\ status # "completed"
    BY <1>3, <1>5, NotYet
  <2>3. Told \in {"open", "failed"} /\ Told' \in {"open", "failed"}
    BY <1>5, <2>2 DEF Told
  <2> QED
    BY <2>1, <2>2, <2>3, PromiseSteps
<1> HIDE DEF Step
<1>6. CASE CreateJob \/ Begin \/ Open \/ MarkFailed \/ Exhausted
  <2>1. orgs' = orgs /\ pc \notin {"cleanup_ok", "finish", "audit"} /\ ~Over
    BY <1>1, <1>6 DEF CreateJob, Begin, Open, MarkFailed, Exhausted, StageInv, Staging, Over
  <2>2. status # "completed"
    BY <1>3, <2>1, NotYet
  <2>3. status' # "completed"
    BY <1>6, <2>2 DEF CreateJob, Begin, Open, MarkFailed, Exhausted, ExhaustedStatus
  <2> QED
    BY <1>5, <2>1, <2>3 DEF Step
<1>7. CASE Finish
  <2>1. orgs' = orgs /\ attempt \in orgs /\ status = "restoring" /\ status' = "completed"
    BY <1>1, <1>7 DEF Finish, StageInv, Building
  <2>2. Seen' = Seen
    BY <1>1, <1>2, <2>1, SeenSame
  <2>3. Seen # {} /\ Told = "open" /\ Told' = "completed"
    BY <2>1 DEF Seen, Told
  <2> QED
    BY <2>2, <2>3, PromiseSteps DEF Step
<1>8. CASE Commit
  <2>1. CASE pc = "commit1"
    BY <1>4, <1>8, <2>1 DEF Commit, TakeEffect, Connection, Step
  <2>2. CASE pc = "commit2"
    <3>1. orgs' = orgs \cup {attempt} /\ schemas' = schemas /\ status' = status
      BY <1>8, <2>2 DEF Commit, TakeEffect, Connection
    <3>2. attempt \in schemas /\ attempt \in Attempts /\ status = "restoring"
      BY <1>1, <2>2, AttemptType DEF StageInv, Building
    <3>3. orgs = {} /\ Seen = {}
      BY <1>1, <1>3, <2>2, NotYet DEF StageInv, Over
    <3>4. Seen' = {[id |-> attempt, whole |-> TRUE]}
      BY <3>1, <3>2, <3>3 DEF Seen
    <3>5. Told = "open" /\ Told' = "open"
      BY <3>1, <3>2 DEF Told
    <3> QED
      BY <3>2, <3>3, <3>4, <3>5, PromiseSteps DEF Step
  <2> QED
    BY <1>8, <2>1, <2>2 DEF Commit, Committing
<1>9. CASE Fault
  BY <1>4, <1>9 DEF Step, Fault, StagingFails, BeginFails, BuildFails, CommitFails, FinishFails, WorkerKilled
<1>10. CASE Stage \/ NoteKey \/ Enqueue \/ Fetch \/ Build \/ Cleanup \/ Audit \/ Retry \/ OpenFails \/ FetchFails
  BY <1>4, <1>10 DEF Step, Stage, NoteKey, Enqueue, Fetch, Build, Cleanup, Audit, Retry, OpenFails, FetchFails
<1>11. CASE Ended \/ UNCHANGED vars
  BY <1>4, <1>11 DEF Step, Ended, vars
<1> QED
  BY <1>6, <1>7, <1>8, <1>9, <1>10, <1>11 DEF Next, Request, Worker, Step

\* A restore begins as promised.
LEMMA PromiseInit == Init => Promise!Init
BY DEF Init, Promise!Init

\* Whatever fails but the control database, users see what they were promised
\* (run_restore, restore_package, run_restore_task): the organization appears
\* once and whole, COMPLETED follows it and is final, and FAILED is said only
\* while there is none.
THEOREM PromiseIsKept == Spec => PromiseKept
<1> DEFINE Kept == ControlAnswered' => [Promise!Next]_(Promise!promiseVars)
<1>1. IInv /\ [Next]_vars => [Kept]_vars
  BY PromiseStep
<1> QED
  BY <1>1, InitIInv, NextIInv, PromiseInit, PTL DEF Spec, PromiseKept

\* Where the control database never fails, a restore implements the promise.
THEOREM Refinement ==
  ASSUME Faults \cap {"control", "unacknowledged"} = {}
  PROVE  Spec => Promise!Spec
<1>1. ASSUME IInv' PROVE ControlAnswered'
  BY <1>1 DEF IInv, TypeOK, ControlAnswered
<1>2. ASSUME IInv, IInv', [Next]_vars
      PROVE  [Promise!Next]_(Promise!promiseVars)
  BY <1>1, <1>2, PromiseStep
<1> QED
  BY <1>2, InitIInv, NextIInv, PromiseInit, PTL DEF Spec, Promise!Spec
=============================================================================
