--------------------------- MODULE ImportJobProofs ---------------------------
(***************************************************************************)
(* Proofs about ImportJob, for every number of rows, chunk size, number of *)
(* retries, set of rejected rows and set of faults.                        *)
(***************************************************************************)
EXTENDS ImportJob, FiniteSetTheorems, TLAPS

\* run_import is executing and its locals count.
Active == pc \in {"rows", "complete"} \cup Saving \cup Storing

\* What the job row says is true of the tenant table.
DurableInv == CountsAgree /\ NoRowSkipped

\* What the worker's locals say is true of the tenant table.
LocalInv ==
  Active =>
    /\ job.last <= run.last
    /\ run.imported = Cardinality(Good(run.last))
    /\ run.rejected = Cardinality(Failed(run.last))
    /\ \A r \in Rows : r <= run.last /\ r \notin bad => copies[r] >= 1

\* A control statement that was not acknowledged.
Doubt == IF "unacknowledged" \in Faults THEN 1 ELSE 0

\* Which stage implies what.
StageInv ==
  /\ job.status = "none" => task = "none"
  /\ task # "running" => pc = "idle"
  /\ pc \in Storing \cup {"complete"} => job.last = run.last
  /\ pc \in {"save_final", "errors_final", "complete"} => run.last = NumRows
  /\ job.status = "failed" => task = "done"
  /\ job.status = "completed" =>
       /\ job.last = NumRows /\ job.total = NumRows /\ pc \in {"idle", "retry"}
       /\ task # "done" => "unacknowledged" \in Faults

\* The error rows stored, and those still to be stored.
ErrorInv ==
  /\ ErrorsOnce
  /\ Active /\ pc # "complete" =>
       \A r \in run.pending :
         /\ r \in bad \cup again /\ r <= run.last
         /\ errors[r] <= IF pc \in {"save_handler", "errors_handler"} THEN Doubt ELSE 0

\* Which rows the present attempt can still insert.
AttemptInv ==
  /\ CopiesBounded
  /\ task \in {"none", "unsent", "queued"} => \A r \in Rows : copies[r] <= retries
  /\ pc \in {"rows", "save_loop", "errors_loop"} =>
       \A r \in Rows : r > run.last => copies[r] <= retries

IInv == TypeOK /\ DurableInv /\ LocalInv /\ StageInv /\ ErrorInv /\ AttemptInv

-----------------------------------------------------------------------------
\* Rejected and accepted rows of a prefix are finite sets that share it out.
LEMMA PrefixCount ==
  ASSUME NEW n \in Nat
  PROVE  /\ IsFiniteSet(Good(n)) /\ IsFiniteSet(Failed(n))
         /\ Cardinality(Good(n)) \in Nat /\ Cardinality(Failed(n)) \in Nat
         /\ Cardinality(Good(n)) + Cardinality(Failed(n)) = n
<1>1. IsFiniteSet(1..n) /\ Cardinality(1..n) = n
  BY FS_Interval
<1>2. Good(n) \in SUBSET (1..n) /\ Failed(n) \in SUBSET (1..n)
  BY DEF Good, Failed
<1>3. IsFiniteSet(Good(n)) /\ IsFiniteSet(Failed(n))
  BY <1>1, <1>2, FS_Subset
<1>4. Good(n) \cup Failed(n) = 1..n /\ Good(n) \cap Failed(n) = {}
  BY DEF Good, Failed
<1>5. Cardinality(1..n) = Cardinality(Good(n)) + Cardinality(Failed(n))
                            - Cardinality(Good(n) \cap Failed(n))
  BY <1>3, <1>4, FS_Union
<1>6. Cardinality({}) = 0
  BY FS_EmptySet
<1>7. Cardinality(Good(n)) \in Nat /\ Cardinality(Failed(n)) \in Nat
  BY <1>3, FS_CardinalityType
<1>8. Cardinality(Good(n) \cap Failed(n)) = 0
  BY <1>4, <1>6
<1>9. Cardinality(Good(n)) + Cardinality(Failed(n)) = n
  BY <1>1, <1>5, <1>7, <1>8
<1> QED
  BY <1>3, <1>7, <1>9

\* The empty prefix.
LEMMA PrefixZero == Cardinality(Good(0)) = 0 /\ Cardinality(Failed(0)) = 0
<1>1. Good(0) = {} /\ Failed(0) = {}
  BY DEF Good, Failed
<1> QED
  BY <1>1, FS_EmptySet

\* One more row moves exactly one of the two counts.
LEMMA PrefixStep ==
  ASSUME NEW n \in Nat
  PROVE  /\ n + 1 \notin bad \cup again =>
              /\ Cardinality(Good(n + 1)) = Cardinality(Good(n)) + 1
              /\ Cardinality(Failed(n + 1)) = Cardinality(Failed(n))
         /\ n + 1 \in bad \cup again =>
              /\ Cardinality(Good(n + 1)) = Cardinality(Good(n))
              /\ Cardinality(Failed(n + 1)) = Cardinality(Failed(n)) + 1
<1>1. CASE n + 1 \notin bad \cup again
  <2>1. Good(n + 1) = Good(n) \cup {n + 1} /\ Failed(n + 1) = Failed(n)
    BY <1>1 DEF Good, Failed
  <2>2. n + 1 \notin Good(n)
    BY DEF Good
  <2> QED
    BY <1>1, <2>1, <2>2, PrefixCount, FS_AddElement
<1>2. CASE n + 1 \in bad \cup again
  <2>1. Failed(n + 1) = Failed(n) \cup {n + 1} /\ Good(n + 1) = Good(n)
    BY <1>2 DEF Good, Failed
  <2>2. n + 1 \notin Failed(n)
    BY DEF Failed
  <2> QED
    BY <1>2, <2>1, <2>2, PrefixCount, FS_AddElement
<1> QED
  BY <1>1, <1>2

\* What a step does not change of the file and of the rows refused.
LEMMA PrefixStable ==
  ASSUME UNCHANGED given, again' = again
  PROVE  \A n : Good(n)' = Good(n) /\ Failed(n)' = Failed(n)
BY DEF Good, Failed, given

-----------------------------------------------------------------------------
\* The initial states.
LEMMA InitIInv == Init => IInv
<1> SUFFICES ASSUME Init PROVE IInv
  OBVIOUS
<1> USE BoundsAssumption DEF Init
<1>1. TypeOK
  BY DEF TypeOK, Rows, Counter, Saving, Storing
<1>2. DurableInv
  BY PrefixZero DEF DurableInv, CountsAgree, NoRowSkipped, Rows
<1>3. LocalInv /\ StageInv
  BY DEF LocalInv, StageInv, Active, Saving, Storing
<1>4. ErrorInv /\ AttemptInv
  BY DEF ErrorInv, ErrorsOnce, AttemptInv, CopiesBounded, Active, Saving, Storing
<1> QED
  BY <1>1, <1>2, <1>3, <1>4 DEF IInv

\* A row settled as imported keeps the invariant.
LEMMA ImportRowIInv ==
  ASSUME IInv, NEW r \in Rows, ImportRow(r)
  PROVE  IInv'
<1> USE DEF given, ImportRow, Accepted, AtRow, AfterRow
<1>1. r \in Nat /\ r = run.last + 1 /\ run.last \in Nat /\ r <= NumRows
  BY BoundsAssumption DEF IInv, TypeOK, Counter, Rows
<1>2. /\ Cardinality(Good(r)) = Cardinality(Good(run.last)) + 1
      /\ Cardinality(Failed(r)) = Cardinality(Failed(run.last))
  <2>1. r \notin bad \cup again
    BY DEF IInv, DurableInv, CountsAgree
  <2> QED
    BY <1>1, <2>1, PrefixStep
<1>3. /\ Cardinality(Good(r)) \in Nat /\ Cardinality(Failed(r)) \in Nat
      /\ Cardinality(Good(r)) + Cardinality(Failed(r)) = r
  BY <1>1, PrefixCount
<1>4. \A n : Good(n)' = Good(n) /\ Failed(n)' = Failed(n)
  BY PrefixStable
<1>5. /\ run' = [run EXCEPT !.imported = @ + 1, !.last = r]
      /\ run.imported = Cardinality(Good(run.last))
      /\ run.rejected = Cardinality(Failed(run.last))
  BY DEF IInv, LocalInv, Active
<1>6. TypeOK'
  <2>1. run.imported + 1 \in Counter /\ r \in Counter
    BY <1>1, <1>2, <1>3, <1>5, BoundsAssumption DEF Counter
  <2>2. run' \in [imported : Counter, rejected : Counter, last : Counter,
                  pending : SUBSET Rows]
    BY <1>5, <2>1 DEF IInv, TypeOK
  <2>3. copies' \in [Rows -> Nat]
    BY DEF IInv, TypeOK
  <2>4. pc' \in {"rows", "save_loop"}
    OBVIOUS
  <2> QED
    BY <2>2, <2>3, <2>4 DEF IInv, TypeOK, Saving, Storing
<1>7. DurableInv'
  <2>1. \A q \in again : q # r
    BY DEF IInv, DurableInv, CountsAgree
  <2>2. CountsAgree'
    BY <1>4, <2>1 DEF IInv, DurableInv, CountsAgree, TypeOK
  <2> QED
    BY <2>2 DEF IInv, DurableInv, NoRowSkipped, TypeOK
<1>8. LocalInv'
  BY <1>1, <1>2, <1>4, <1>5 DEF IInv, LocalInv, Active, TypeOK, Saving, Storing, Rows, Counter
<1>9. StageInv'
  BY DEF IInv, StageInv, Saving, Storing
<1>10. ErrorInv'
  BY <1>1 DEF IInv, ErrorInv, ErrorsOnce, Active, TypeOK, Saving, Storing, Rows, Counter
<1>11. AttemptInv'
  <2>1. /\ pc = "rows" /\ copies[r] <= retries /\ task = "running"
        /\ \A q \in Rows : q > run.last => copies[q] <= retries
        /\ \A q \in Rows : copies[q] <= IF q \in unique THEN 1 ELSE retries + 1
        /\ retries \in Nat /\ copies \in [Rows -> Nat] /\ unique' = unique
    BY <1>1 DEF IInv, AttemptInv, CopiesBounded, StageInv, TypeOK
  <2>2. /\ run'.last = r /\ retries' = retries /\ task' = "running"
        /\ copies'[r] <= IF r \in unique THEN 1 ELSE retries + 1
        /\ \A q \in Rows : q # r => copies'[q] = copies[q]
    BY <1>5, <2>1 DEF IInv, TypeOK
  <2> QED
    BY <1>1, <2>1, <2>2 DEF AttemptInv, CopiesBounded, Rows
<1> QED
  BY <1>6, <1>7, <1>8, <1>9, <1>10, <1>11 DEF IInv

\* Starting and publishing the task.
LEMMA CreateJobIInv ==
  ASSUME IInv, CreateJob
  PROVE  IInv'
<1> USE DEF given, IInv, CreateJob
<1>1. TypeOK'
  BY BoundsAssumption DEF TypeOK, Counter, Saving, Storing
<1>2. DurableInv'
  BY PrefixStable DEF DurableInv, CountsAgree, NoRowSkipped, TypeOK
<1>3. LocalInv'
  BY PrefixStable DEF LocalInv, Active, Saving, Storing, TypeOK
<1>4. StageInv'
  BY DEF StageInv, Saving, Storing, TypeOK
<1>5. ErrorInv'
  BY DEF ErrorInv, ErrorsOnce, Doubt, Active, Saving, Storing, TypeOK
<1>6. AttemptInv'
  BY DEF AttemptInv, CopiesBounded, StageInv, TypeOK
<1> QED
  BY <1>1, <1>2, <1>3, <1>4, <1>5, <1>6

\* The task reaches the broker, or not.
LEMMA EnqueueIInv ==
  ASSUME IInv, Enqueue
  PROVE  IInv'
<1> USE DEF given, IInv, Enqueue
<1>1. TypeOK'
  BY BoundsAssumption DEF TypeOK, Counter, Saving, Storing
<1>2. DurableInv'
  BY PrefixStable DEF DurableInv, CountsAgree, NoRowSkipped, TypeOK
<1>3. LocalInv'
  BY PrefixStable DEF LocalInv, Active, Saving, Storing, TypeOK
<1>4. StageInv'
  BY DEF StageInv, Saving, Storing, TypeOK
<1>5. ErrorInv'
  BY DEF ErrorInv, ErrorsOnce, Doubt, Active, Saving, Storing, TypeOK
<1>6. AttemptInv'
  BY DEF AttemptInv, CopiesBounded, StageInv, TypeOK
<1> QED
  BY <1>1, <1>2, <1>3, <1>4, <1>5, <1>6

\* A new attempt reloads the counters.
LEMMA StartIInv ==
  ASSUME IInv, Start
  PROVE  IInv'
<1> USE DEF given, IInv, Start, ResumePoint
<1>1. TypeOK'
  BY BoundsAssumption DEF TypeOK, Counter, Saving, Storing
<1>2. DurableInv'
  BY PrefixStable DEF DurableInv, CountsAgree, NoRowSkipped, TypeOK
<1>3. LocalInv'
  <2>1. /\ run'.last = job.last /\ job'.last = job.last
        /\ run'.imported = job.imported /\ run'.rejected = job.rejected
        /\ UNCHANGED <<bad, unique, again, copies>>
    BY DEF TypeOK
  <2>2. job.last <= job.last
    BY BoundsAssumption DEF TypeOK, Counter
  <2> QED
    BY <2>1, <2>2, PrefixStable DEF DurableInv, CountsAgree, NoRowSkipped, LocalInv
<1>4. StageInv'
  BY DEF StageInv, Saving, Storing, TypeOK
<1>5. ErrorInv'
  BY DEF ErrorInv, ErrorsOnce, Doubt, Active, Saving, Storing, TypeOK
<1>6. AttemptInv'
  BY DEF AttemptInv, CopiesBounded, StageInv, TypeOK
<1> QED
  BY <1>1, <1>2, <1>3, <1>4, <1>5, <1>6

\* An attempt fails before its loop.
LEMMA StartFailsIInv ==
  ASSUME IInv, StartFails
  PROVE  IInv'
<1> USE DEF given, IInv, StartFails
<1>1. TypeOK'
  BY BoundsAssumption DEF TypeOK, Counter, Saving, Storing
<1>2. DurableInv'
  BY PrefixStable DEF DurableInv, CountsAgree, NoRowSkipped, TypeOK
<1>3. LocalInv'
  BY PrefixStable DEF LocalInv, Active, Saving, Storing, TypeOK
<1>4. StageInv'
  BY DEF StageInv, Saving, Storing, TypeOK
<1>5. ErrorInv'
  BY DEF ErrorInv, ErrorsOnce, Doubt, Active, Saving, Storing, TypeOK
<1>6. AttemptInv'
  BY DEF AttemptInv, CopiesBounded, StageInv, TypeOK
<1> QED
  BY <1>1, <1>2, <1>3, <1>4, <1>5, <1>6

\* The tenant connection breaks.
LEMMA ConnectionLostIInv ==
  ASSUME IInv, ConnectionLost
  PROVE  IInv'
<1> USE DEF given, IInv, ConnectionLost
<1>1. TypeOK'
  BY BoundsAssumption DEF TypeOK, Counter, Saving, Storing
<1>2. DurableInv'
  BY PrefixStable DEF DurableInv, CountsAgree, NoRowSkipped, TypeOK
<1>3. LocalInv'
  BY PrefixStable DEF LocalInv, Active, Saving, Storing, TypeOK
<1>4. StageInv'
  BY DEF StageInv, Saving, Storing, TypeOK
<1>5. ErrorInv'
  BY DEF ErrorInv, ErrorsOnce, Doubt, Active, Saving, Storing, TypeOK
<1>6. AttemptInv'
  BY DEF AttemptInv, CopiesBounded, StageInv, TypeOK
<1> QED
  BY <1>1, <1>2, <1>3, <1>4, <1>5, <1>6

\* The file is read.
LEMMA EndOfFileIInv ==
  ASSUME IInv, EndOfFile
  PROVE  IInv'
<1> USE DEF given, IInv, EndOfFile, FileRead
<1>1. TypeOK'
  BY BoundsAssumption DEF TypeOK, Counter, Saving, Storing
<1>2. DurableInv'
  BY PrefixStable DEF DurableInv, CountsAgree, NoRowSkipped, TypeOK
<1>3. LocalInv'
  BY PrefixStable DEF LocalInv, Active, Saving, Storing, TypeOK
<1>4. StageInv'
  BY BoundsAssumption DEF StageInv, Saving, Storing, TypeOK, Counter
<1>5. ErrorInv'
  BY DEF ErrorInv, ErrorsOnce, Doubt, Active, Saving, Storing, TypeOK
<1>6. AttemptInv'
  BY DEF AttemptInv, CopiesBounded, StageInv, TypeOK
<1> QED
  BY <1>1, <1>2, <1>3, <1>4, <1>5, <1>6

\* The job is marked COMPLETED.
LEMMA CompleteIInv ==
  ASSUME IInv, Complete
  PROVE  IInv'
<1> USE DEF given, IInv, Complete, Completed
<1>1. TypeOK'
  <2>1. NumRows \in Counter
    BY BoundsAssumption DEF Counter
  <2> QED
    BY <2>1 DEF TypeOK
<1>2. DurableInv'
  BY PrefixStable DEF DurableInv, CountsAgree, NoRowSkipped, TypeOK
<1>3. LocalInv'
  BY PrefixStable DEF LocalInv, Active, Saving, Storing, TypeOK
<1>4. StageInv'
  BY DEF StageInv, Saving, Storing, TypeOK
<1>5. ErrorInv'
  BY DEF ErrorInv, ErrorsOnce, Doubt, Active, Saving, Storing, TypeOK
<1>6. AttemptInv'
  BY DEF AttemptInv, CopiesBounded, StageInv, TypeOK
<1> QED
  BY <1>1, <1>2, <1>3, <1>4, <1>5, <1>6

\* Marking the job COMPLETED fails.
LEMMA CompleteFailsIInv ==
  ASSUME IInv, CompleteFails
  PROVE  IInv'
<1> USE DEF given, IInv, CompleteFails, Completed
<1>1. TypeOK'
  <2>1. NumRows \in Counter
    BY BoundsAssumption DEF Counter
  <2> QED
    BY <2>1 DEF TypeOK
<1>2. DurableInv'
  BY PrefixStable DEF DurableInv, CountsAgree, NoRowSkipped, TypeOK
<1>3. LocalInv'
  BY PrefixStable DEF LocalInv, Active, Saving, Storing, TypeOK
<1>4. StageInv'
  BY DEF StageInv, Saving, Storing, TypeOK
<1>5. ErrorInv'
  BY DEF ErrorInv, ErrorsOnce, Doubt, Active, Saving, Storing, TypeOK
<1>6. AttemptInv'
  BY DEF AttemptInv, CopiesBounded, StageInv, TypeOK
<1> QED
  BY <1>1, <1>2, <1>3, <1>4, <1>5, <1>6

\* The attempt is retried.
LEMMA RetryIInv ==
  ASSUME IInv, Retry
  PROVE  IInv'
<1> USE DEF given, IInv, Retry, RetriesLeft, Attempts
<1>1. TypeOK'
  BY BoundsAssumption DEF TypeOK, Counter, Saving, Storing
<1>2. DurableInv'
  BY PrefixStable DEF DurableInv, CountsAgree, NoRowSkipped, TypeOK
<1>3. LocalInv'
  BY PrefixStable DEF LocalInv, Active, Saving, Storing, TypeOK
<1>4. StageInv'
  BY DEF StageInv, Saving, Storing, TypeOK
<1>5. ErrorInv'
  BY DEF ErrorInv, ErrorsOnce, Doubt, Active, Saving, Storing, TypeOK
<1>6. AttemptInv'
  BY DEF AttemptInv, CopiesBounded, StageInv, TypeOK
<1> QED
  BY <1>1, <1>2, <1>3, <1>4, <1>5, <1>6

\* No retry is left.
LEMMA ExhaustedIInv ==
  ASSUME IInv, Exhausted
  PROVE  IInv'
<1> USE DEF given, IInv, Exhausted, ExhaustedStatus
<1>1. TypeOK'
  BY BoundsAssumption DEF TypeOK, Counter, Saving, Storing
<1>2. DurableInv'
  BY PrefixStable DEF DurableInv, CountsAgree, NoRowSkipped, TypeOK
<1>3. LocalInv'
  BY PrefixStable DEF LocalInv, Active, Saving, Storing, TypeOK
<1>4. StageInv'
  BY DEF StageInv, Saving, Storing, TypeOK
<1>5. ErrorInv'
  BY DEF ErrorInv, ErrorsOnce, Doubt, Active, Saving, Storing, TypeOK
<1>6. AttemptInv'
  BY DEF AttemptInv, CopiesBounded, StageInv, TypeOK
<1> QED
  BY <1>1, <1>2, <1>3, <1>4, <1>5, <1>6

\* The worker dies.
LEMMA WorkerKilledIInv ==
  ASSUME IInv, WorkerKilled
  PROVE  IInv'
<1> USE DEF given, IInv, WorkerKilled
<1>1. TypeOK'
  BY BoundsAssumption DEF TypeOK, Counter, Saving, Storing
<1>2. DurableInv'
  BY PrefixStable DEF DurableInv, CountsAgree, NoRowSkipped, TypeOK
<1>3. LocalInv'
  BY PrefixStable DEF LocalInv, Active, Saving, Storing, TypeOK
<1>4. StageInv'
  BY DEF StageInv, Saving, Storing, TypeOK
<1>5. ErrorInv'
  BY DEF ErrorInv, ErrorsOnce, Doubt, Active, Saving, Storing, TypeOK
<1>6. AttemptInv'
  BY DEF AttemptInv, CopiesBounded, StageInv, TypeOK
<1> QED
  BY <1>1, <1>2, <1>3, <1>4, <1>5, <1>6

\* Where a checkpoint continues, and what it leaves of the locals.
LEMMA AfterCheckpointFacts ==
  ASSUME TypeOK, AfterCheckpoint, pc \in Saving \cup Storing
  PROVE  /\ pc' \in {"rows", "retry", "complete"}
         /\ pc' = "rows" => InLoop(pc) /\ run'.pending = {}
         /\ pc' = "complete" => pc \in {"save_final", "errors_final"}
         /\ run' \in [imported : Counter, rejected : Counter, last : Counter,
                      pending : SUBSET Rows]
         /\ run'.imported = run.imported /\ run'.rejected = run.rejected
         /\ run'.last = run.last
BY DEF TypeOK, AfterCheckpoint, InLoop, Saving, Storing

\* A checkpoint publishes the counters.
LEMMA SaveProgressIInv ==
  ASSUME IInv, SaveProgress
  PROVE  IInv'
<1> USE DEF given, IInv, SaveProgress, Progressed
<1>1. /\ job'.imported = run.imported /\ job'.rejected = run.rejected
      /\ job'.last = run.last /\ job'.status = job.status
      /\ job'.total = job.total
      /\ job' \in [status : {"none", "pending", "running", "completed", "failed"},
                   imported : Counter, rejected : Counter, last : Counter,
                   total : Counter]
  BY DEF TypeOK, CheckpointRow
<1>2. /\ run'.imported = run.imported /\ run'.rejected = run.rejected
      /\ run'.last = run.last
      /\ run' \in [imported : Counter, rejected : Counter, last : Counter,
                   pending : SUBSET Rows]
  BY AfterCheckpointFacts DEF TypeOK
<1>3. \/ run.pending = {} /\ AfterCheckpoint
      \/ pc' = StoringAfter(pc) /\ pc' \in Storing /\ run' = run
  BY DEF Saving, Storing, StoringAfter
<1>4. /\ pc' \in {"rows", "retry", "complete"} \cup Storing
      /\ pc' = "rows" => InLoop(pc) /\ run'.pending = {}
      /\ pc' \in {"complete", "errors_final"} => pc = "save_final"
      /\ pc' = "errors_loop" => pc = "save_loop"
      /\ pc' \in Storing => run' = run
  BY <1>3, AfterCheckpointFacts DEF Saving, Storing, StoringAfter
<1>5. /\ pc \in Saving /\ Active /\ task = "running"
      /\ UNCHANGED <<given, again, errors, copies, task, retries>>
  BY DEF Active, StageInv, Saving
<1>6. /\ job.last <= run.last /\ job.last \in Nat /\ run.last \in Nat
      /\ run.imported = Cardinality(Good(run.last))
      /\ run.rejected = Cardinality(Failed(run.last))
      /\ \A r \in Rows : r <= run.last /\ r \notin bad => copies[r] >= 1
  BY <1>5, BoundsAssumption DEF LocalInv, TypeOK, Counter
<1>7. TypeOK'
  BY <1>1, <1>2, <1>4, <1>5 DEF TypeOK, Saving, Storing
<1>8. DurableInv' /\ LocalInv'
  BY <1>1, <1>2, <1>5, <1>6, PrefixStable
  DEF DurableInv, CountsAgree, NoRowSkipped, LocalInv
<1>9. StageInv'
  BY <1>1, <1>2, <1>4, <1>5, <1>6 DEF StageInv, Saving, Storing
<1>10. ErrorInv'
  <2>1. ErrorsOnce'
    BY <1>1, <1>5, <1>6 DEF ErrorInv, ErrorsOnce, Rows
  <2>2. Active' /\ pc' # "complete" =>
          \/ run'.pending = {}
          \/ /\ run' = run /\ Active /\ pc # "complete"
             /\ pc' \in {"save_handler", "errors_handler"} <=>
                  pc \in {"save_handler", "errors_handler"}
    BY <1>3, <1>4, <1>5 DEF Active, Saving, Storing, StoringAfter
  <2> QED
    BY <1>2, <1>5, <2>1, <2>2 DEF ErrorInv
<1>11. AttemptInv'
  BY <1>2, <1>4, <1>5 DEF AttemptInv, CopiesBounded, InLoop, Saving, Storing
<1> QED
  BY <1>7, <1>8, <1>9, <1>10, <1>11

\* A checkpoint stores the rejected rows.
LEMMA SaveErrorsIInv ==
  ASSUME IInv, SaveErrors
  PROVE  IInv'
<1> USE DEF given, IInv, SaveErrors, ErrorsStored
<1>1. /\ pc' \in {"rows", "retry", "complete"}
      /\ pc' = "rows" => InLoop(pc) /\ run'.pending = {}
      /\ pc' = "complete" => pc = "errors_final"
      /\ run' \in [imported : Counter, rejected : Counter, last : Counter,
                   pending : SUBSET Rows]
      /\ run'.imported = run.imported /\ run'.rejected = run.rejected
      /\ run'.last = run.last
  BY AfterCheckpointFacts DEF Storing
<1>2. /\ pc \in Storing /\ Active /\ task = "running"
      /\ UNCHANGED <<given, again, job, copies, task, retries>>
  BY DEF Active, StageInv, Storing
<1>3. /\ errors' \in [Rows -> Nat]
      /\ \A r \in Rows : errors'[r] = errors[r] + IF r \in run.pending THEN 1 ELSE 0
  BY DEF TypeOK
<1>4. TypeOK'
  BY <1>1, <1>2, <1>3 DEF TypeOK
<1>5. DurableInv' /\ LocalInv'
  BY <1>1, <1>2, PrefixStable DEF DurableInv, CountsAgree, NoRowSkipped, LocalInv
<1>6. StageInv'
  BY <1>1, <1>2 DEF StageInv, Storing
<1>7. ErrorInv'
  <2>1. \A r \in run.pending :
          r \in bad \cup again /\ r <= job.last /\ errors[r] \in Nat /\ errors[r] <= Doubt
    BY <1>2 DEF ErrorInv, StageInv, Storing, Doubt, TypeOK
  <2>2. ErrorsOnce'
    BY <1>2, <1>3, <2>1 DEF ErrorInv, ErrorsOnce, Doubt, TypeOK
  <2>3. Active' /\ pc' # "complete" => run'.pending = {}
    BY <1>1 DEF Active, Saving, Storing
  <2> QED
    BY <2>2, <2>3 DEF ErrorInv
<1>8. AttemptInv'
  BY <1>1, <1>2 DEF AttemptInv, CopiesBounded, InLoop, Storing
<1> QED
  BY <1>4, <1>5, <1>6, <1>7, <1>8

\* A checkpoint statement fails, or is not acknowledged.
LEMMA CheckpointFailsIInv ==
  ASSUME IInv, CheckpointFails
  PROVE  IInv'
<1> USE DEF given, IInv, CheckpointFails, InLoop
<1>1. /\ pc \in Saving \cup Storing /\ Active /\ task = "running" /\ pc # "complete"
      /\ pc' = IF pc \in {"save_loop", "errors_loop"} THEN "save_handler" ELSE "retry"
      /\ UNCHANGED <<bad, unique, again, copies, task, retries, run>>
  BY DEF Active, StageInv, Saving, Storing
<1>2. /\ job.last <= run.last /\ job.last \in Nat /\ run.last \in Nat
      /\ run.imported = Cardinality(Good(run.last))
      /\ run.rejected = Cardinality(Failed(run.last))
      /\ \A r \in Rows : r <= run.last /\ r \notin bad => copies[r] >= 1
  BY <1>1, BoundsAssumption DEF LocalInv, TypeOK, Counter
<1>3. /\ job' = job \/ (pc \in Saving /\ job' = Progressed)
      /\ errors' = errors \/ (pc \in Storing /\ errors' = ErrorsStored)
      /\ errors' # errors => "unacknowledged" \in Faults
  OBVIOUS
<1>4. /\ job' \in [status : {"none", "pending", "running", "completed", "failed"},
                   imported : Counter, rejected : Counter, last : Counter,
                   total : Counter]
      /\ job'.status = job.status /\ job'.total = job.total
      /\ \/ UNCHANGED <<job.imported, job.rejected, job.last>>
         \/ /\ job'.imported = run.imported /\ job'.rejected = run.rejected
            /\ job'.last = run.last /\ pc \in Saving
  BY <1>3 DEF TypeOK, Progressed, CheckpointRow
<1>5. errors' \in [Rows -> Nat]
  BY <1>3 DEF TypeOK, ErrorsStored
<1>6. TypeOK'
  BY <1>1, <1>4, <1>5 DEF TypeOK, Saving
<1>7. DurableInv' /\ LocalInv'
  <2>1. job'.last <= run'.last
    BY <1>1, <1>2, <1>4
  <2> QED
    BY <1>1, <1>2, <1>4, <2>1, PrefixStable
    DEF DurableInv, CountsAgree, NoRowSkipped, LocalInv
<1>8. StageInv'
  BY <1>1, <1>2, <1>4 DEF StageInv, Saving, Storing
<1>9. ErrorInv'
  <2>1. CASE errors' = errors
    <3>1. ErrorsOnce'
      BY <1>1, <1>2, <1>4, <2>1 DEF ErrorInv, ErrorsOnce, Rows
    <3>2. pc' = "save_handler" => pc \in {"save_loop", "errors_loop"}
      BY <1>1
    <3>3. \A r \in run.pending : pc' = "save_handler" =>
            r \in bad \cup again /\ r <= run.last /\ errors[r] <= Doubt
      BY <1>1, <3>2 DEF ErrorInv, Doubt, TypeOK
    <3> QED
      BY <1>1, <2>1, <3>1, <3>3 DEF ErrorInv, Active, Saving, Storing
  <2>2. CASE pc \in Storing /\ errors' = ErrorsStored /\ "unacknowledged" \in Faults
    <3>1. /\ job' = job /\ job.last = run.last
          /\ \A r \in Rows : errors'[r] = errors[r] + IF r \in run.pending THEN 1 ELSE 0
      BY <1>3, <2>2 DEF ErrorsStored, StageInv, Saving, Storing
    <3>2. \A r \in run.pending :
            r \in bad \cup again /\ r <= job.last /\ errors[r] \in Nat
            /\ errors[r] <= IF pc = "errors_handler" THEN 1 ELSE 0
      BY <1>1, <2>2, <3>1 DEF ErrorInv, Storing, Doubt, TypeOK
    <3>3. ErrorsOnce'
      BY <1>1, <2>2, <3>1, <3>2 DEF ErrorInv, ErrorsOnce, TypeOK
    <3>4. \A r \in run.pending : pc' = "save_handler" => errors'[r] <= 1
      BY <1>1, <2>2, <3>1, <3>2 DEF TypeOK
    <3> QED
      BY <1>1, <2>2, <3>1, <3>2, <3>3, <3>4 DEF ErrorInv, Doubt, Active, Saving, Storing
  <2> QED
    BY <1>3, <2>1, <2>2
<1>10. AttemptInv'
  BY <1>1 DEF AttemptInv, CopiesBounded, Saving, Storing
<1> QED
  BY <1>6, <1>7, <1>8, <1>9, <1>10

\* A row settled as rejected.
LEMMA RejectRowIInv ==
  ASSUME IInv, NEW r \in Rows, RejectRow(r)
  PROVE  IInv'
<1> USE DEF given, IInv, RejectRow, Accepted, AtRow, AfterRow
<1>1. /\ r \in Nat /\ r = run.last + 1 /\ run.last \in Nat /\ r <= NumRows
      /\ r \in Counter
  BY BoundsAssumption DEF TypeOK, Counter, Rows
<1>2. /\ pc = "rows" /\ pc' \in {"rows", "save_loop"} /\ task = "running"
      /\ UNCHANGED <<bad, unique, job, errors, copies, task, retries>>
      /\ again' \in {again, again \cup {r}} /\ r \in (bad \cup again)'
  BY DEF StageInv
<1>3. /\ job.last <= run.last /\ job.last \in Nat
      /\ run.imported = Cardinality(Good(run.last))
      /\ run.rejected = Cardinality(Failed(run.last))
      /\ \A q \in Rows : q <= run.last /\ q \notin bad => copies[q] >= 1
  BY <1>2, BoundsAssumption DEF LocalInv, Active, TypeOK, Counter
<1>4. /\ Good(job.last)' = Good(job.last) /\ Failed(job.last)' = Failed(job.last)
      /\ Good(r)' = Good(run.last) /\ Failed(r)' = Failed(run.last) \cup {r}
      /\ r \notin Failed(run.last)
  <2>1. \A n \in Nat : n < r =>
          {q \in 1..n : q \notin bad \cup again'} = {q \in 1..n : q \notin bad \cup again}
          /\ {q \in 1..n : q \in bad \cup again'} = {q \in 1..n : q \in bad \cup again}
    BY <1>1, <1>2
  <2>2. job.last < r /\ run.last < r
    BY <1>1, <1>3
  <2>3. Good(job.last)' = Good(job.last) /\ Failed(job.last)' = Failed(job.last)
    BY <1>2, <1>3, <2>1, <2>2 DEF Good, Failed
  <2>4. r \notin Failed(run.last)
    BY <1>1 DEF Failed
  <2>5. 1..r = (1..run.last) \cup {r} /\ r \in bad \cup again'
    BY <1>1, <1>2
  <2>6. {q \in 1..r : q \notin bad \cup again'} = {q \in 1..run.last : q \notin bad \cup again}
    BY <1>1, <2>1, <2>2, <2>5
  <2>7. {q \in 1..r : q \in bad \cup again'} = {q \in 1..run.last : q \in bad \cup again} \cup {r}
    BY <1>1, <2>1, <2>2, <2>5
  <2> QED
    BY <1>2, <2>3, <2>4, <2>6, <2>7 DEF Good, Failed
<1>5. /\ Cardinality(Failed(r)') = Cardinality(Failed(run.last)) + 1
      /\ Cardinality(Good(r)') = Cardinality(Good(run.last))
  BY <1>1, <1>4, PrefixCount, FS_AddElement
<1>6. /\ run'.imported = run.imported /\ run'.rejected = run.rejected + 1
      /\ run'.last = r
      /\ run'.pending \subseteq run.pending \cup {r}
      /\ run' \in [imported : Counter, rejected : Counter, last : Counter,
                   pending : SUBSET Rows]
  <2>1. run.rejected + 1 \in Counter
    <3>1. /\ run.rejected \in Nat /\ run.imported \in Nat
          /\ run.imported + run.rejected = run.last
      BY <1>1, <1>3, PrefixCount
    <3> QED
      BY <1>1, <3>1, BoundsAssumption DEF Counter
  <2> QED
    BY <1>1, <2>1 DEF TypeOK
<1>7. TypeOK'
  BY <1>2, <1>6 DEF TypeOK, Saving, Storing
<1>8. DurableInv'
  <2>1. r \in again' => r \in again \/ (r \in unique /\ copies[r] = 1 /\ retries > 0)
    <3>1. /\ copies[r] <= retries /\ copies[r] \in Nat /\ retries \in Nat
          /\ r \in unique => copies[r] <= 1
      BY <1>1, <1>2 DEF AttemptInv, CopiesBounded, TypeOK
    <3>2. r \in again' /\ r \notin again => r \in unique /\ copies[r] # 0
      OBVIOUS
    <3> QED
      BY <3>1, <3>2
  <2>2. \A q \in again' : q \in unique /\ copies[q] = 1 /\ retries > 0
    BY <1>2, <2>1 DEF DurableInv, CountsAgree
  <2>3. CountsAgree'
    BY <1>2, <1>4, <2>2 DEF DurableInv, CountsAgree
  <2> QED
    BY <1>2, <2>3 DEF DurableInv, NoRowSkipped
<1>9. LocalInv'
  <2>1. \A q \in Rows : q <= r /\ q \notin bad => copies[q] >= 1
    <3>1. r \notin bad => copies[r] >= 1
      BY DEF TypeOK
    <3>2. \A q \in Rows : q <= r => q <= run.last \/ q = r
      BY <1>1 DEF Rows
    <3> QED
      BY <1>3, <3>1, <3>2
  <2>2. job'.last <= run'.last
    BY <1>1, <1>2, <1>3, <1>6
  <2> QED
    BY <1>2, <1>3, <1>4, <1>5, <1>6, <2>1, <2>2 DEF LocalInv
<1>10. StageInv'
  BY <1>2 DEF StageInv, Saving, Storing
<1>11. ErrorInv'
  <2>1. errors[r] = 0
    BY <1>1, <1>3 DEF ErrorInv, ErrorsOnce, TypeOK
  <2>2. \A q \in run.pending : q \in bad \cup again /\ q <= run.last /\ errors[q] <= 0
    BY <1>2 DEF ErrorInv, Active
  <2>3. \A q \in run'.pending : q \in (bad \cup again)' /\ q <= r /\ errors[q] <= 0
    BY <1>1, <1>2, <1>6, <2>1, <2>2 DEF TypeOK, Rows
  <2>4. ErrorsOnce'
    BY <1>2 DEF ErrorInv, ErrorsOnce
  <2> QED
    BY <1>2, <1>6, <2>3, <2>4 DEF ErrorInv
<1>12. AttemptInv'
  BY <1>1, <1>2, <1>6 DEF AttemptInv, CopiesBounded, Rows
<1> QED
  BY <1>7, <1>8, <1>9, <1>10, <1>11, <1>12

\* A row committed without acknowledgement.
LEMMA RowCommitUnacknowledgedIInv ==
  ASSUME IInv, NEW r \in Rows, RowCommitUnacknowledged(r)
  PROVE  IInv'
<1> USE DEF given, IInv, RowCommitUnacknowledged, Accepted, AtRow
<1>1. /\ pc = "rows" /\ pc' = "save_handler" /\ task = "running"
      /\ r = run.last + 1 /\ run.last \in Nat
      /\ UNCHANGED <<bad, unique, again, job, errors, task, retries, run>>
      /\ copies' \in [Rows -> Nat] /\ copies'[r] = copies[r] + 1
      /\ \A q \in Rows : q # r => copies'[q] = copies[q]
  BY BoundsAssumption DEF StageInv, TypeOK, Counter
<1>2. TypeOK'
  BY <1>1 DEF TypeOK, Saving
<1>3. DurableInv'
  <2>1. \A q \in again : q # r
    BY DEF DurableInv, CountsAgree
  <2>2. CountsAgree'
    BY <1>1, <2>1, PrefixStable DEF DurableInv, CountsAgree, TypeOK
  <2> QED
    BY <1>1, <2>2 DEF DurableInv, NoRowSkipped, TypeOK
<1>4. LocalInv'
  BY <1>1, PrefixStable DEF LocalInv, Active, TypeOK
<1>5. StageInv' /\ ErrorInv'
  BY <1>1 DEF StageInv, ErrorInv, ErrorsOnce, Doubt, Active, Storing, TypeOK
<1>6. AttemptInv'
  <2>1. /\ copies[r] <= retries /\ retries \in Nat /\ copies[r] \in Nat
        /\ \A q \in Rows : copies[q] <= IF q \in unique THEN 1 ELSE retries + 1
    BY <1>1 DEF AttemptInv, CopiesBounded, TypeOK
  <2> QED
    BY <1>1, <2>1 DEF AttemptInv, CopiesBounded
<1> QED
  BY <1>2, <1>3, <1>4, <1>5, <1>6

\* Every step of the program and of its environment.
LEMMA NextIInv ==
  ASSUME IInv, [Next]_vars
  PROVE  IInv'
<1>1. CASE CreateJob \/ Enqueue
  BY <1>1, CreateJobIInv, EnqueueIInv
<1>2. CASE Worker
  <2>1. CASE \E r \in Rows : ImportRow(r) \/ RejectRow(r)
    BY <2>1, ImportRowIInv, RejectRowIInv
  <2>2. CASE Start \/ EndOfFile \/ SaveProgress \/ SaveErrors \/ Complete
    BY <2>2, StartIInv, EndOfFileIInv, SaveProgressIInv, SaveErrorsIInv, CompleteIInv
  <2>3. CASE Retry \/ Exhausted
    BY <2>3, RetryIInv, ExhaustedIInv
  <2> QED
    BY <1>2, <2>1, <2>2, <2>3 DEF Worker
<1>3. CASE Fault
  <2>1. CASE \E r \in Rows : RowCommitUnacknowledged(r)
    BY <2>1, RowCommitUnacknowledgedIInv
  <2>2. CASE StartFails \/ CheckpointFails \/ CompleteFails \/ WorkerKilled
               \/ ConnectionLost
    BY <2>2, StartFailsIInv, CheckpointFailsIInv, CompleteFailsIInv,
       WorkerKilledIInv, ConnectionLostIInv
  <2> QED
    BY <1>3, <2>1, <2>2 DEF Fault
<1>4. CASE UNCHANGED vars
  <2>1. UNCHANGED <<bad, unique, again, job, errors, copies, task, retries, pc, run>>
    BY <1>4 DEF vars
  <2>2. TypeOK' /\ StageInv' /\ ErrorInv' /\ AttemptInv'
    BY <2>1 DEF IInv, TypeOK, StageInv, ErrorInv, ErrorsOnce, AttemptInv,
                CopiesBounded, Active
  <2>3. DurableInv' /\ LocalInv'
    BY <2>1, PrefixStable
    DEF given, IInv, DurableInv, CountsAgree, NoRowSkipped, LocalInv, Active
  <2> QED
    BY <2>2, <2>3 DEF IInv
<1> QED
  BY <1>1, <1>2, <1>3, <1>4 DEF Next, Ended

-----------------------------------------------------------------------------
\* The inductive invariant holds of every reachable state.
THEOREM Invariant == Spec => []IInv
<1>1. Init => IInv
  BY InitIInv
<1>2. IInv /\ [Next]_vars => IInv'
  BY NextIInv
<1> QED
  BY <1>1, <1>2, PTL DEF Spec

\* Type correctness; in particular the counters never exceed the file and the
\* attempts never exceed max_retries + 1.
THEOREM TypeCorrect == Spec => []TypeOK
<1>1. IInv => TypeOK
  BY DEF IInv
<1> QED
  BY <1>1, Invariant, PTL

\* No fault, at any point of any attempt, makes the job skip a row.
THEOREM NoRowIsSkipped == Spec => []NoRowSkipped
<1>1. IInv => NoRowSkipped
  BY DEF IInv, DurableInv
<1> QED
  BY <1>1, Invariant, PTL

\* The counters always describe the rows up to last_processed_row.
THEOREM CountersAgree == Spec => []CountsAgree
<1>1. IInv => CountsAgree
  BY DEF IInv, DurableInv
<1> QED
  BY <1>1, Invariant, PTL

\* A rejected row is explained at most once, and only once counted.
THEOREM ErrorsAreStoredOnce == Spec => []ErrorsOnce
<1>1. IInv => ErrorsOnce
  BY DEF IInv, ErrorInv
<1> QED
  BY <1>1, Invariant, PTL

\* Whatever fails, a row has at most one copy per attempt.
THEOREM CopiesAreBounded == Spec => []CopiesBounded
<1>1. IInv => CopiesBounded
  BY DEF IInv, AttemptInv
<1> QED
  BY <1>1, Invariant, PTL

\* COMPLETED is only shown when the whole file is settled and counted.
THEOREM CompletedIsComplete == Spec => []CompletedMeansAll
<1>1. IInv => CompletedMeansAll
  <2> SUFFICES ASSUME IInv, job.status = "completed" PROVE
        /\ job.last = NumRows /\ job.total = NumRows
        /\ job.imported + job.rejected = job.total
    BY DEF CompletedMeansAll
  <2>1. job.last = NumRows /\ job.total = NumRows
    BY DEF IInv, StageInv
  <2>2. Cardinality(Good(NumRows)) + Cardinality(Failed(NumRows)) = NumRows
    BY BoundsAssumption, PrefixCount
  <2> QED
    BY <2>1, <2>2 DEF IInv, DurableInv, CountsAgree
<1> QED
  BY <1>1, Invariant, PTL

\* Recorded progress only grows, and the final statuses are final.
THEOREM ProgressKept == Spec => ProgressIsKept
<1> DEFINE Kept == /\ job'.last >= job.last
                   /\ job.status \in {"completed", "failed"} =>
                        /\ [job' EXCEPT !.status = job.status] = job
                        /\ \/ job'.status = job.status
                           \/ /\ job.status = "completed" /\ task \in {"queued", "running"}
                              /\ "unacknowledged" \in Faults
<1>1. IInv /\ [Next]_vars => [Kept]_vars
  <2> SUFFICES ASSUME IInv, Next PROVE Kept
    BY DEF vars
  <2>1. job.last \in Nat /\ job.last >= job.last
    BY BoundsAssumption DEF IInv, TypeOK, Counter
  <2>2. /\ job.status = "failed" => task = "done" /\ pc = "idle"
        /\ job.status = "completed" =>
             /\ pc \in {"idle", "retry"} /\ job.last = NumRows /\ job.total = NumRows
             /\ task # "done" => "unacknowledged" \in Faults
        /\ task # "running" => pc = "idle"
    BY DEF IInv, StageInv
  <2>3. CASE pc \in Saving /\ job' = Progressed
    <3>1. job.status \notin {"completed", "failed"} /\ job.last <= run.last
      BY <2>2, <2>3 DEF IInv, LocalInv, Active, Saving
    <3>2. job'.last = run.last
      BY <2>3 DEF Progressed, CheckpointRow, IInv, TypeOK
    <3>3. run.last \in Nat
      BY BoundsAssumption DEF IInv, TypeOK, Counter
    <3> QED
      BY <2>1, <3>1, <3>2, <3>3
  <2>4. CASE pc = "complete" /\ job' = Completed
    BY <2>1, <2>2, <2>4 DEF Completed, IInv, TypeOK
  <2>5. CASE UNCHANGED job
    BY <2>1, <2>5 DEF IInv, TypeOK
  <2>6. CASE Start \/ StartFails \/ CreateJob
    <3>1. job' = job \/ (job' = [job EXCEPT !.status = job'.status] /\ task \in {"none", "queued"})
      BY <2>2, <2>6 DEF Start, StartFails, CreateJob, IInv, TypeOK, StageInv
    <3>2. job.status \in {"completed", "failed"} => task # "none"
      BY <2>6 DEF Start, StartFails, CreateJob
    <3> QED
      BY <2>1, <2>2, <2>5, <3>1, <3>2 DEF IInv, TypeOK
  <2>7. CASE Exhausted
    <3>1. job' = job \/ (job' = [job EXCEPT !.status = "failed"] /\ pc = "retry" /\ task = "running")
      BY <2>2, <2>7 DEF Exhausted, ExhaustedStatus, IInv, TypeOK, StageInv
    <3> QED
      BY <2>1, <2>2, <2>5, <3>1 DEF IInv, TypeOK
  <2> QED
    BY <2>3, <2>4, <2>5, <2>6, <2>7
    DEF Next, Worker, Fault, Enqueue, ImportRow, RejectRow, EndOfFile, SaveErrors,
        SaveProgress, Complete, Retry, CheckpointFails, CompleteFails, WorkerKilled,
        ConnectionLost, RowCommitUnacknowledged, Ended, vars
<1> QED
  BY <1>1, Invariant, PTL DEF Spec, ProgressIsKept

-----------------------------------------------------------------------------
(***************************************************************************)
(* How long an import takes: every step of the request, of the worker and  *)
(* of the environment uses up one of a number of steps that is known in    *)
(* advance: four for each row, and 16 more, in each attempt.               *)
(***************************************************************************)

\* The steps the present attempt can still take.
StepsOfAttempt ==
  CASE pc = "idle" -> 4 * NumRows + (CASE task = "none" -> 16 [] task = "unsent" -> 15
                                       [] task \notin {"none", "unsent"} -> 14)
    [] pc = "rows"           -> 4 * (NumRows - run.last) + 11
    [] pc = "save_loop"      -> 4 * (NumRows - run.last) + 13
    [] pc = "errors_loop"    -> 4 * (NumRows - run.last) + 12
    [] pc = "save_final"     -> 10
    [] pc = "errors_final"   -> 9
    [] pc = "complete"       -> 8
    [] pc = "save_handler"   -> 7
    [] pc = "errors_handler" -> 6
    [] pc = "retry"          -> 5

StepsPerAttempt == 4 * NumRows + 16
StepsLater == (MaxRetries - retries) * StepsPerAttempt

Over == task \in {"done", "lost"}
StepsLeft == IF Over THEN 0 ELSE StepsOfAttempt + StepsLater

\* What a job that is over looks like.
Settled ==
  \/ job.status \in {"completed", "failed"} \/ task = "lost"
  \/ task = "done" /\ retries = MaxRetries

\* The later attempts take a number of steps each.
LEMMA StepsCount ==
  ASSUME IInv
  PROVE  /\ StepsOfAttempt \in 5 .. StepsPerAttempt
         /\ StepsLater \in Nat /\ StepsLater <= MaxRetries * StepsPerAttempt
         /\ StepsLeft \in 0 .. (MaxRetries + 1) * StepsPerAttempt
         /\ StepsLeft = 0 <=> Over
<1> DEFINE N == StepsPerAttempt
<1>1. NumRows \in Nat /\ N \in Nat /\ MaxRetries \in Nat /\ retries \in 0..MaxRetries
      /\ run.last \in 0..NumRows
  BY BoundsAssumption DEF IInv, TypeOK, Counter, StepsPerAttempt
<1>2. StepsOfAttempt \in 5 .. N
  <2>1. /\ pc \in {"idle", "rows", "complete", "retry"} \cup Saving \cup Storing
        /\ 4 * (NumRows - run.last) \in 0 .. 4 * NumRows
    BY <1>1 DEF IInv, TypeOK
  <2>2. CASE pc = "idle"
    BY <1>1, <2>2 DEF StepsOfAttempt, StepsPerAttempt
  <2>3. CASE pc \in {"rows", "save_loop", "errors_loop"}
    <3>1. \E n \in 11 .. 13 : StepsOfAttempt = 4 * (NumRows - run.last) + n
      BY <2>3 DEF StepsOfAttempt
    <3> QED
      BY <1>1, <2>1, <3>1 DEF StepsPerAttempt
  <2>4. CASE pc \in {"save_final", "errors_final", "complete", "save_handler",
                     "errors_handler", "retry"}
    <3>1. StepsOfAttempt \in 5 .. 10
      BY <2>4 DEF StepsOfAttempt
    <3> QED
      BY <1>1, <3>1 DEF StepsPerAttempt
  <2> QED
    BY <2>1, <2>2, <2>3, <2>4 DEF Saving, Storing
<1>3. StepsLater \in Nat /\ StepsLater <= MaxRetries * N
  <2> HIDE DEF N
  <2>1. /\ \A a, b \in Nat : a * b \in Nat
        /\ \A a, b, c \in Nat : a <= b => a * c <= b * c
    OBVIOUS
  <2>2. MaxRetries - retries \in Nat /\ MaxRetries - retries <= MaxRetries
    BY <1>1
  <2> QED
    BY <1>1, <2>1, <2>2 DEF StepsLater, N
<1>4. (MaxRetries + 1) * N = MaxRetries * N + N /\ MaxRetries * N \in Nat
  <2> HIDE DEF N
  <2> QED
    BY <1>1
<1>5. StepsLeft \in 0 .. (MaxRetries + 1) * N /\ (StepsLeft = 0 <=> Over)
  <2> DEFINE M == MaxRetries * N
             M1 == (MaxRetries + 1) * N
  <2>1. M1 = M + N /\ M \in Nat /\ StepsLater \in Nat /\ StepsLater <= M
    BY <1>3, <1>4
  <2> HIDE DEF M, M1, N
  <2>2. StepsLeft \in 0 .. M1 /\ (StepsLeft = 0 <=> Over)
    BY <1>1, <1>2, <2>1 DEF StepsLeft
  <2> QED
    BY <2>2 DEF M1
<1> QED
  BY <1>2, <1>3, <1>5

\* A step within an attempt.
LEMMA StepsWithin ==
  ASSUME IInv, IInv', retries' = retries, ~Over, Over' \/ StepsOfAttempt' < StepsOfAttempt
  PROVE  StepsLeft' < StepsLeft
<1>1. StepsOfAttempt \in Nat /\ StepsOfAttempt > 0 /\ StepsLater \in Nat /\ StepsLater' = StepsLater
  BY StepsCount DEF StepsLater, StepsPerAttempt
<1>2. ~Over' => StepsOfAttempt' \in Int
  BY BoundsAssumption DEF IInv, TypeOK, Counter, StepsOfAttempt, Saving, Storing
<1> QED
  BY <1>1, <1>2 DEF StepsLeft

\* A row of the loop.
LEMMA RowSteps ==
  ASSUME IInv, IInv', NEW r \in Rows,
         ImportRow(r) \/ RejectRow(r) \/ RowCommitUnacknowledged(r)
  PROVE  StepsLeft' < StepsLeft
<1>1. /\ pc = "rows" /\ retries' = retries /\ ~Over
      /\ run.last \in 0..NumRows /\ NumRows \in Nat
  BY BoundsAssumption
  DEF ImportRow, RejectRow, RowCommitUnacknowledged, AtRow, IInv, TypeOK, StageInv, Over, Counter
<1>2. StepsOfAttempt = 4 * (NumRows - run.last) + 11
  BY <1>1 DEF StepsOfAttempt
<1>3. StepsOfAttempt' < StepsOfAttempt
  <2>1. CASE ImportRow(r) \/ RejectRow(r)
    <3>1. run'.last = run.last + 1 /\ pc' \in {"rows", "save_loop"}
      BY <1>1, <2>1 DEF ImportRow, RejectRow, AtRow, AfterRow, IInv, TypeOK
    <3> QED
      BY <1>1, <1>2, <3>1 DEF StepsOfAttempt
  <2>2. CASE RowCommitUnacknowledged(r)
    <3>1. pc' = "save_handler"
      BY <2>2 DEF RowCommitUnacknowledged
    <3> QED
      BY <1>1, <1>2, <3>1 DEF StepsOfAttempt
  <2> QED
    BY <2>1, <2>2
<1> QED
  BY <1>1, <1>3, StepsWithin

\* Every step but a stutter uses one up.
LEMMA StepsDecrease ==
  ASSUME IInv, IInv', Next, ~UNCHANGED vars
  PROVE  StepsLeft' < StepsLeft
<1> USE BoundsAssumption DEF IInv, TypeOK, StageInv, Over, Counter
<1>0. run.last \in 0..NumRows /\ NumRows \in Nat /\ job.last \in 0..NumRows
  OBVIOUS
<1>1. CASE CreateJob \/ Enqueue
  BY <1>0, <1>1, StepsWithin DEF CreateJob, Enqueue, StepsOfAttempt
<1>2. CASE Start \/ StartFails
  BY <1>0, <1>2, StepsWithin DEF Start, StartFails, StepsOfAttempt, ResumePoint
<1>3. CASE EndOfFile \/ ConnectionLost
  BY <1>0, <1>3, StepsWithin DEF EndOfFile, ConnectionLost, StepsOfAttempt
<1>4. CASE SaveProgress \/ SaveErrors
  <2>1. /\ pc \in Saving \cup Storing /\ retries' = retries /\ task' = task
        /\ run'.last = run.last
        /\ \/ AfterCheckpoint
           \/ pc \in Saving /\ pc' = StoringAfter(pc)
    BY <1>4 DEF SaveProgress, SaveErrors, AfterCheckpoint
  <2> QED
    BY <1>0, <2>1, StepsWithin
    DEF AfterCheckpoint, StoringAfter, InLoop, StepsOfAttempt, Saving, Storing
<1>5. CASE CheckpointFails \/ Complete \/ CompleteFails
  BY <1>0, <1>5, StepsWithin
  DEF CheckpointFails, Complete, CompleteFails, InLoop, StepsOfAttempt, Saving, Storing
<1>6. CASE Retry /\ task' = "lost"
  BY <1>6, StepsWithin DEF Retry
<1>7. CASE Retry /\ task' # "lost"
  <2> DEFINE N == StepsPerAttempt
  <2>1. /\ StepsOfAttempt = 5 /\ StepsOfAttempt' = N - 2 /\ retries' = retries + 1
        /\ retries \in Nat /\ MaxRetries \in Nat /\ ~Over /\ ~Over' /\ N \in Nat
    BY <1>0, <1>7 DEF Retry, Attempts, StepsOfAttempt, StepsPerAttempt
  <2>2. StepsLater' = (MaxRetries - (retries + 1)) * N
    BY <2>1 DEF StepsLater, StepsPerAttempt
  <2> HIDE DEF N
  <2>3. (MaxRetries - (retries + 1)) * N = (MaxRetries - retries) * N - N
    BY <2>1
  <2>4. StepsLater' = StepsLater - N /\ StepsLater \in Nat
    BY <2>2, <2>3, StepsCount DEF StepsLater, N
  <2> QED
    BY <2>1, <2>4 DEF StepsLeft
<1>8. CASE Exhausted \/ WorkerKilled
  BY <1>8, StepsWithin DEF Exhausted, WorkerKilled
<1>9. CASE \E r \in Rows : ImportRow(r) \/ RejectRow(r) \/ RowCommitUnacknowledged(r)
  BY <1>9, RowSteps
<1> QED
  BY <1>1, <1>2, <1>3, <1>4, <1>5, <1>6, <1>7, <1>8, <1>9 DEF Next, Worker, Fault, Ended

\* The task ends as it should.
LEMMA SettledStep ==
  ASSUME IInv, Over => Settled, [Next]_vars
  PROVE  (Over => Settled)'
<1> USE BoundsAssumption DEF IInv, TypeOK, StageInv, Over, Settled
<1>1. CASE CreateJob \/ Enqueue
  BY <1>1 DEF CreateJob, Enqueue
<1>2. CASE Start \/ StartFails \/ EndOfFile \/ ConnectionLost
  BY <1>2 DEF Start, StartFails, EndOfFile, ConnectionLost
<1>3. CASE SaveProgress \/ SaveErrors
  BY <1>3 DEF SaveProgress, SaveErrors, Saving, Storing
<1>4. CASE CheckpointFails \/ Complete \/ CompleteFails
  BY <1>4 DEF CheckpointFails, Complete, CompleteFails, Completed, Saving, Storing
<1>5. CASE Retry
  BY <1>5 DEF Retry
<1>6. CASE Exhausted \/ WorkerKilled
  BY <1>6 DEF Exhausted, WorkerKilled
<1>7. CASE \E r \in Rows : ImportRow(r) \/ RejectRow(r) \/ RowCommitUnacknowledged(r)
  BY <1>7 DEF ImportRow, RejectRow, RowCommitUnacknowledged, AtRow
<1>8. CASE Ended \/ UNCHANGED vars
  BY <1>8 DEF Ended, vars
<1> QED
  BY <1>1, <1>2, <1>3, <1>4, <1>5, <1>6, <1>7, <1>8 DEF Next, Worker, Fault

\* An import is over within (MaxRetries + 1) * (4 * NumRows + 16) steps, whatever
\* fails in them (run_import, run_import_task), and a job that is over is
\* settled: the part of JobEnds that fairness adds nothing to.
THEOREM ImportsAreBounded ==
  Spec => /\ [](/\ StepsLeft \in 0 .. (MaxRetries + 1) * StepsPerAttempt
                /\ StepsLeft = 0 => Settled)
          /\ [][StepsLeft' < StepsLeft]_vars
<1> DEFINE Bounded == /\ StepsLeft \in 0 .. (MaxRetries + 1) * StepsPerAttempt
                      /\ StepsLeft = 0 => Settled
           Used == StepsLeft' < StepsLeft
           SettledInv == Over => Settled
<1>1. Init => SettledInv
  BY DEF Init, Over
<1>2. IInv /\ SettledInv /\ [Next]_vars => SettledInv'
  BY SettledStep
<1>3. IInv /\ SettledInv => Bounded
  BY StepsCount
<1>4. IInv /\ IInv' /\ [Next]_vars => [Used]_vars
  BY StepsDecrease
<1> QED
  BY <1>1, <1>2, <1>3, <1>4, Invariant, PTL DEF Spec

-----------------------------------------------------------------------------
(***************************************************************************)
(* EveryRejectionExplained.  Between two checkpoints of the loop fewer     *)
(* rows are rejected than a chunk has, so the cap on pending errors never  *)
(* cuts; and a checkpoint whose two statements both succeed leaves no      *)
(* rejected row before the recorded one without its error.                 *)
(***************************************************************************)

\* Products with a positive constant are strictly ordered.
LEMMA TimesStep ==
  ASSUME NEW c \in Nat, NEW a \in Nat, NEW b \in Nat, a < b
  PROVE  c * a + c <= c * b
<1>1. PICK d \in Nat : b = a + 1 + d
  <2>1. b - a - 1 \in Nat /\ b = a + 1 + (b - a - 1)
    OBVIOUS
  <2> QED
    BY <2>1
<1>2. c * b = c * a + c + c * d
  BY <1>1
<1>3. c * d \in Nat /\ c * a \in Nat
  OBVIOUS
<1> QED
  BY <1>2, <1>3

\* A remainder is determined by the number.
LEMMA RemainderUnique ==
  ASSUME NEW c \in Nat, NEW q \in Nat, NEW m \in Nat, m < c,
         NEW p \in Nat, NEW k \in Nat, k < c, c * q + m = c * p + k
  PROVE  m = k
<1>1. c * q \in Nat /\ c * p \in Nat
  OBVIOUS
<1>2. ~(q < p)
  <2>1. q < p => c * q + c <= c * p
    BY TimesStep
  <2> QED
    BY <1>1, <2>1
<1>3. ~(p < q)
  <2>1. p < q => c * p + c <= c * q
    BY TimesStep
  <2> QED
    BY <1>1, <2>1
<1> QED
  BY <1>1, <1>2, <1>3

\* The number of rows since the last full chunk is below the chunk's size, and
\* one more row adds one to it unless it completes a chunk.
LEMMA ChunkStep ==
  ASSUME NEW n \in Nat
  PROVE  /\ n % ChunkRows \in Nat /\ n % ChunkRows < ChunkRows /\ n % ChunkRows <= n
         /\ (n + 1) % ChunkRows # 0 => (n + 1) % ChunkRows = (n % ChunkRows) + 1
<1> DEFINE c == ChunkRows
<1>1. c \in Nat /\ c > 0
  BY BoundsAssumption
<1> HIDE DEF c
<1>2. PICK q \in Nat, m \in Nat : q = n \div c /\ m = n % c
  BY <1>1
<1>3. PICK p \in Nat, k \in Nat : p = (n + 1) \div c /\ k = (n + 1) % c
  BY <1>1
<1>4. m < c /\ k < c
  BY <1>1, <1>2, <1>3
<1>5. n = c * q + m
  <2>1. n = (c * (n \div c)) + (n % c)
    BY <1>1
  <2> QED
    BY <1>2, <2>1
<1>6. n + 1 = c * p + k
  <2>1. n + 1 = (c * ((n + 1) \div c)) + ((n + 1) % c)
    BY <1>1
  <2> QED
    BY <1>3, <2>1
<1>7. c * q \in Nat /\ c * p \in Nat
  BY <1>1
<1>8. CASE m + 1 < c
  <2>1. c * q + (m + 1) = c * p + k
    BY <1>5, <1>6, <1>7
  <2>2. k = m + 1
    BY <1>1, <1>4, <1>8, <2>1, RemainderUnique
  <2> QED
    BY <1>2, <1>3, <1>4, <1>5, <1>7, <2>2 DEF c
<1>9. CASE m + 1 = c
  <2>1. c * (q + 1) + 0 = c * p + k
    <3>1. c * (q + 1) = c * q + c
      BY <1>1
    <3> QED
      BY <1>5, <1>6, <1>7, <1>9, <3>1
  <2>2. q + 1 \in Nat /\ 0 \in Nat /\ 0 < c
    BY <1>1
  <2>3. k = 0
    BY <1>1, <1>4, <2>1, <2>2, RemainderUnique
  <2> QED
    BY <1>2, <1>3, <1>4, <1>5, <1>7, <2>3 DEF c
<1> QED
  BY <1>1, <1>4, <1>8, <1>9

ExplainInv ==
  /\ Active => \A r \in bad : r <= run.last =>
       errors[r] = 1 \/ (pc # "complete" /\ r \in run.pending)
  /\ ~Active /\ task # "lost" => \A r \in bad : r <= job.last => errors[r] = 1
  /\ pc = "rows" => \A r \in run.pending : r > run.last - (run.last % ChunkRows)

\* The cap on pending errors is not reached in the loop.
LEMMA CapNotReached ==
  ASSUME IInv, ExplainInv, pc = "rows", ChunkRows <= MaxStoredErrors
  PROVE  Cardinality(run.pending) < MaxStoredErrors
<1> DEFINE n == run.last
           m == run.last % ChunkRows
<1>1. n \in Nat /\ ChunkRows \in Nat /\ MaxStoredErrors \in Nat
  BY BoundsAssumption DEF IInv, TypeOK, Counter
<1>2. m \in Nat /\ m < ChunkRows /\ m <= n
  BY <1>1, ChunkStep
<1>3. \A r \in run.pending : r \in Nat /\ r <= n /\ r > n - m
  BY DEF IInv, TypeOK, Rows, ErrorInv, Active, ExplainInv
<1> HIDE DEF n, m
<1>4. run.pending \subseteq (n - m + 1)..n
  BY <1>1, <1>2, <1>3
<1>5. IsFiniteSet((n - m + 1)..n) /\ Cardinality((n - m + 1)..n) = m
  <2>1. IsFiniteSet((n - m + 1)..n)
        /\ Cardinality((n - m + 1)..n) = IF n - m + 1 > n THEN 0 ELSE n - (n - m + 1) + 1
    BY <1>1, <1>2, FS_Interval
  <2> QED
    BY <1>1, <1>2, <2>1
<1>6. Cardinality(run.pending) <= m
  BY <1>4, <1>5, FS_Subset
<1>7. Cardinality(run.pending) \in Nat
  BY <1>4, <1>5, FS_Subset, FS_CardinalityType
<1> QED
  BY <1>1, <1>2, <1>6, <1>7

\* One row of the loop: it is settled, or waits to be explained.
LEMMA RowExplainInv ==
  ASSUME ChunkRows <= MaxStoredErrors, IInv, ExplainInv, NEW r \in Rows,
         ImportRow(r) \/ RejectRow(r)
  PROVE  ExplainInv'
<1>1. /\ pc = "rows" /\ r = run.last + 1 /\ run.last \in Nat /\ bad \subseteq Rows
      /\ UNCHANGED <<bad, job, errors, task>>
      /\ pc' = IF r % ChunkRows = 0 THEN "save_loop" ELSE "rows"
  BY BoundsAssumption
  DEF ImportRow, RejectRow, AtRow, AfterRow, IInv, TypeOK, Counter, given
<1>2. run'.last = r /\ run.pending \subseteq run'.pending
      /\ run'.pending \subseteq run.pending \cup {r} /\ (r \in bad => r \in run'.pending)
  <2>1. CASE ImportRow(r)
    BY <2>1 DEF ImportRow, Accepted, IInv, TypeOK
  <2>2. CASE RejectRow(r)
    <3>1. Cardinality(run.pending) < MaxStoredErrors
      BY <1>1, CapNotReached
    <3>2. run' = [run EXCEPT !.rejected = @ + 1, !.last = r, !.pending = @ \cup {r}]
      BY <2>2, <3>1 DEF RejectRow
    <3> QED
      BY <3>2 DEF IInv, TypeOK
  <2> QED
    BY <2>1, <2>2
<1>3. Active /\ Active' /\ pc' # "complete"
  BY <1>1 DEF Active, Saving
<1>4. \A q \in bad : q <= run.last => errors[q] = 1 \/ q \in run.pending
  BY <1>3 DEF ExplainInv
<1>5. \A q \in bad : q <= r => errors[q] = 1 \/ q \in run'.pending
  <2>1. \A q \in bad : q <= r => q <= run.last \/ q = r
    BY <1>1 DEF Rows
  <2> QED
    BY <1>2, <1>4, <2>1
<1>6. ASSUME pc' = "rows", NEW q \in run'.pending
      PROVE  q > run'.last - (run'.last % ChunkRows)
  <2>1. /\ r % ChunkRows = (run.last % ChunkRows) + 1
        /\ run.last % ChunkRows \in Nat
    BY <1>1, <1>6, ChunkStep
  <2>2. q \in run.pending => q > run.last - (run.last % ChunkRows)
    BY <1>1 DEF ExplainInv
  <2>3. r - (r % ChunkRows) = run.last - (run.last % ChunkRows)
    BY <1>1, <2>1
  <2>4. r > run.last - (run.last % ChunkRows)
    BY <1>1, <2>1
  <2> QED
    BY <1>2, <2>2, <2>3, <2>4
<1> QED
  BY <1>1, <1>2, <1>3, <1>5, <1>6 DEF ExplainInv

\* The two statements of a checkpoint.
LEMMA CheckpointExplainInv ==
  ASSUME "unacknowledged" \notin Faults, IInv, ExplainInv, SaveProgress \/ SaveErrors
  PROVE  ExplainInv'
<1>1. /\ pc \in Saving \cup Storing /\ UNCHANGED <<bad, task>> /\ bad \subseteq Rows
      /\ Active /\ pc # "complete" /\ pc # "rows"
  BY DEF SaveProgress, SaveErrors, Active, IInv, TypeOK, Saving, Storing, given
<1>2. \A r \in bad : r <= run.last => errors[r] = 1 \/ r \in run.pending
  BY <1>1 DEF ExplainInv
<1>3. CASE SaveProgress /\ run.pending # {}
  <2>1. pc' = StoringAfter(pc) /\ run' = run /\ errors' = errors
    BY <1>3 DEF SaveProgress
  <2>2. Active' /\ pc' # "complete" /\ pc' # "rows"
    BY <2>1 DEF StoringAfter, Active, Storing
  <2> QED
    BY <1>1, <1>2, <2>1, <2>2 DEF ExplainInv
<1>4. ASSUME AfterCheckpoint, job'.last = run.last,
             \A r \in bad : r <= run.last => errors'[r] = 1
      PROVE  ExplainInv'
  <2>1. run'.last = run.last /\ (pc' = "rows" => run'.pending = {})
    BY <1>1, <1>4, AfterCheckpointFacts DEF IInv
  <2> QED
    BY <1>1, <1>4, <2>1 DEF ExplainInv
<1>5. CASE SaveProgress /\ run.pending = {}
  <2>1. AfterCheckpoint /\ errors' = errors
    BY <1>5 DEF SaveProgress
  <2>2. job'.last = run.last
    BY <1>5 DEF SaveProgress, Progressed, CheckpointRow, IInv, TypeOK
  <2>3. \A r \in bad : r <= run.last => errors'[r] = 1
    BY <1>2, <1>5, <2>1
  <2> QED
    BY <1>4, <2>1, <2>2, <2>3
<1>6. CASE SaveErrors
  <2>1. AfterCheckpoint /\ job'.last = run.last
    BY <1>6 DEF SaveErrors, IInv, StageInv
  <2>2. \A r \in Rows : errors'[r] = errors[r] + IF r \in run.pending THEN 1 ELSE 0
    BY <1>6 DEF SaveErrors, ErrorsStored
  <2>3. \A r \in run.pending : errors[r] = 0
    BY <1>1 DEF IInv, ErrorInv, Doubt, TypeOK
  <2>4. \A r \in bad : r <= run.last => errors'[r] = 1
    BY <1>1, <1>2, <2>2, <2>3
  <2> QED
    BY <1>4, <2>1, <2>4
<1> QED
  BY <1>3, <1>5, <1>6

LEMMA NextExplainInv ==
  ASSUME "control" \notin Faults, "unacknowledged" \notin Faults,
         ChunkRows <= MaxStoredErrors, IInv, ExplainInv, [Next]_vars
  PROVE  ExplainInv'
<1>1. ASSUME NEW r \in Rows, ImportRow(r) \/ RejectRow(r)
      PROVE  ExplainInv'
  BY <1>1, RowExplainInv
<1>2. CASE SaveProgress \/ SaveErrors
  BY <1>2, CheckpointExplainInv
<1>3. CASE Start
  <2>1. /\ UNCHANGED <<bad, errors>> /\ run'.last = job.last /\ run'.pending = {}
        /\ ~Active /\ Active' /\ task = "queued" /\ pc' = "rows"
    BY <1>3 DEF Start, ResumePoint, IInv, TypeOK, StageInv, Active, Saving, Storing, given
  <2>2. \A r \in bad : r <= job.last => errors[r] = 1
    BY <2>1 DEF ExplainInv
  <2> QED
    BY <2>1, <2>2 DEF ExplainInv
<1>4. CASE EndOfFile \/ ConnectionLost \/ \E r \in Rows : RowCommitUnacknowledged(r)
  <2>1. /\ UNCHANGED <<bad, errors, run, task>> /\ Active /\ Active'
        /\ pc' \in {"save_final", "save_handler"}
    BY <1>4 DEF EndOfFile, ConnectionLost, RowCommitUnacknowledged, AtRow, Active, Saving, given
  <2> QED
    BY <2>1 DEF ExplainInv
<1>5. CASE Complete
  <2>1. /\ UNCHANGED <<bad, errors>> /\ pc = "complete" /\ Active /\ ~Active' /\ pc' = "idle"
        /\ job'.last = job.last /\ job.last = run.last
    BY <1>5 DEF Complete, Completed, Active, Saving, Storing, IInv, TypeOK, StageInv, given
  <2> QED
    BY <2>1 DEF ExplainInv
<1>6. CASE CreateJob \/ Enqueue \/ StartFails \/ Retry \/ Exhausted
  <2>1. /\ UNCHANGED <<bad, errors>> /\ ~Active /\ ~Active' /\ pc' \in {"idle", "retry"}
        /\ task # "lost" /\ job'.last = job.last
    BY <1>6 DEF CreateJob, Enqueue, StartFails, Retry, Exhausted, ExhaustedStatus, Active,
                Saving, Storing, IInv, TypeOK, StageInv, given
  <2> QED
    BY <2>1 DEF ExplainInv
<1>7. CASE WorkerKilled
  <2>1. ~Active' /\ task' = "lost" /\ pc' = "idle"
    BY <1>7 DEF WorkerKilled, Active, Saving, Storing
  <2> QED
    BY <2>1 DEF ExplainInv
<1>8. CASE UNCHANGED vars
  BY <1>8 DEF vars, ExplainInv, Active
<1>9. ~(CheckpointFails \/ CompleteFails)
  BY DEF CheckpointFails, CompleteFails
<1> QED
  BY <1>1, <1>2, <1>3, <1>4, <1>5, <1>6, <1>7, <1>8, <1>9 DEF Next, Worker, Fault, Ended

\* While the statements on the control database succeed and say so, a COMPLETED job has an
\* error row for each rejected row of any file, whatever the tenant connection,
\* the broker and the process do, provided that a chunk is no longer than the
\* cap on stored errors, as in imports/services.py (ImportJobError).
THEOREM RejectionsExplained ==
  ASSUME "control" \notin Faults, "unacknowledged" \notin Faults,
         ChunkRows <= MaxStoredErrors
  PROVE  Spec => []EveryRejectionExplained
<1>1. Init => ExplainInv
  BY DEF Init, ExplainInv, Active, Saving, Storing, Rows
<1>2. IInv /\ ExplainInv /\ [Next]_vars => ExplainInv'
  BY NextExplainInv
<1>3. IInv /\ ExplainInv => EveryRejectionExplained
  <2> SUFFICES ASSUME IInv, ExplainInv, job.status = "completed", NEW r \in bad
               PROVE  errors[r] = 1
    BY DEF EveryRejectionExplained
  <2>1. task = "done" /\ pc = "idle" /\ job.last = NumRows
    BY DEF IInv, StageInv, TypeOK
  <2>2. ~Active /\ r <= job.last
    BY <2>1, BoundsAssumption DEF Active, Saving, Storing, IInv, TypeOK, Rows
  <2> QED
    BY <2>1, <2>2 DEF ExplainInv
<1> QED
  BY <1>1, <1>2, <1>3, Invariant, PTL DEF Spec

-----------------------------------------------------------------------------
(***************************************************************************)
(* Refinement.  Without failures of the control database and without       *)
(* unacknowledged commits, the rows after the last settled one are not in  *)
(* the table, and no row is in it twice.                                   *)
(***************************************************************************)
Quiet == Faults \cap {"control", "unacknowledged", "ambiguous"} = {}

\* The last settled row: the worker's while it runs, the job's otherwise.
LedgerInv ==
  /\ \A r \in Rows : copies[r] <= 1
  /\ Active => \A r \in Rows : r > run.last => copies[r] = 0
  /\ ~Active /\ task \notin {"done", "lost"} =>
       \A r \in Rows : r > job.last => copies[r] = 0

LEMMA LedgerInvStep ==
  ASSUME Quiet, IInv, IInv', LedgerInv, [Next]_vars
  PROVE  LedgerInv'
<1> USE DEF LedgerInv
<1>0. job.last \in Nat /\ run.last \in Nat
  BY BoundsAssumption DEF IInv, TypeOK, Counter
<1>1. ASSUME NEW r \in Rows, ImportRow(r) PROVE LedgerInv'
  <2>1. /\ copies' = [copies EXCEPT ![r] = @ + 1] /\ copies \in [Rows -> Nat]
        /\ r = run.last + 1 /\ run'.last = r /\ Active /\ Active'
    BY <1>1 DEF ImportRow, AtRow, AfterRow, IInv, TypeOK, Active, Saving
  <2>2. copies[r] = 0 /\ copies'[r] = 1
    BY <1>0, <2>1
  <2>3. \A q \in Rows : q # r => copies'[q] = copies[q]
    BY <2>1
  <2> QED
    BY <1>0, <2>1, <2>2, <2>3 DEF Rows
<1>2. ASSUME NEW r \in Rows, RejectRow(r) PROVE LedgerInv'
  <2>1. /\ copies' = copies /\ r = run.last + 1 /\ run'.last = r
        /\ Active /\ Active'
    BY <1>2 DEF RejectRow, AtRow, AfterRow, IInv, TypeOK, Active, Saving
  <2> QED
    BY <1>0, <2>1 DEF Rows
<1>3. CASE SaveProgress
  <2>1. /\ copies' = copies /\ job'.last = run.last /\ Active /\ pc \in Saving
    BY <1>3 DEF SaveProgress, Progressed, CheckpointRow, IInv, TypeOK, Active
  <2>2. run'.last = run.last
    BY <1>3, <2>1, AfterCheckpointFacts DEF SaveProgress, IInv
  <2> QED
    BY <2>1, <2>2
<1>4. CASE SaveErrors
  <2>1. /\ copies' = copies /\ job' = job /\ Active /\ pc \in Storing
        /\ job.last = run.last
    BY <1>4 DEF SaveErrors, IInv, StageInv, Active
  <2>2. run'.last = run.last
    BY <1>4, <2>1, AfterCheckpointFacts DEF SaveErrors, IInv
  <2> QED
    BY <2>1, <2>2
<1>5. CASE Start
  <2>1. /\ copies' = copies /\ run'.last = job.last /\ Active' /\ ~Active
        /\ task = "queued" /\ pc' = "rows"
    BY <1>5 DEF Start, ResumePoint, IInv, TypeOK, StageInv, Active, Saving, Storing
  <2> QED
    BY <2>1
<1>6. CASE CreateJob
  BY <1>6 DEF CreateJob, IInv, StageInv, TypeOK, Active, Saving, Storing
<1>7. CASE Enqueue \/ StartFails
  BY <1>7 DEF Enqueue, StartFails, IInv, TypeOK, StageInv, Active, Saving, Storing
<1>8. CASE EndOfFile \/ ConnectionLost
  BY <1>8 DEF EndOfFile, ConnectionLost, Active, Saving
<1>9. CASE Retry
  BY <1>9 DEF Retry, Active, Saving, Storing, IInv, StageInv
<1>10. CASE Complete \/ Exhausted \/ WorkerKilled
  BY <1>10 DEF Complete, Exhausted, WorkerKilled, Active, Saving, Storing
<1>11. CASE UNCHANGED vars
  BY <1>11 DEF vars, Active
<1>12. ~(CheckpointFails \/ CompleteFails
         \/ \E r \in Rows : RowCommitUnacknowledged(r))
  BY DEF Quiet, CheckpointFails, CompleteFails, RowCommitUnacknowledged
<1> QED
  BY <1>1, <1>2, <1>3, <1>4, <1>5, <1>6, <1>7, <1>8, <1>9, <1>10, <1>11, <1>12
  DEF Next, Worker, Fault, Ended

\* The initial states are the ledger's.
LEMMA LedgerInit == Init => LedgerInv /\ Ledger!Init
BY BoundsAssumption DEF Init, LedgerInv, Ledger!Init, Active, Saving, Storing, Rows

\* Every step is a step of the ledger or leaves it alone.
LEMMA LedgerStep ==
  ASSUME Quiet, IInv, LedgerInv, [Next]_vars
  PROVE  [Ledger!Next]_(Ledger!ledgerVars)
<1> DEFINE Out == IF job.status \in {"completed", "failed"} THEN job.status ELSE "open"
<1>0. /\ job.last \in Nat /\ run.last \in Nat /\ copies \in [Rows -> Nat]
      /\ NumRows \in Nat
      /\ job.status \in {"completed", "failed"} => task = "done"
      /\ task # "running" => pc = "idle"
  BY BoundsAssumption DEF IInv, TypeOK, Counter, StageInv, Quiet
<1>1. Active => \A n \in Nat : n <= run.last => Ledger!Landed(n)
  <2> SUFFICES ASSUME Active, NEW n \in Nat, n <= run.last, NEW r \in 1..n
               PROVE  r \in bad \/ copies[r] = 1
    BY DEF Ledger!Landed
  <2>1. r \in Rows /\ r <= run.last
    BY <1>0 DEF IInv, TypeOK, Counter, Rows
  <2>2. copies[r] \in Nat /\ copies[r] <= 1
    BY <1>0, <2>1 DEF LedgerInv
  <2>3. r \in bad \/ copies[r] >= 1
    BY <2>1 DEF IInv, LocalInv
  <2> QED
    BY <2>2, <2>3
<1>2. ASSUME NEW r \in Rows, ImportRow(r) PROVE Ledger!Insert(r)
  <2>1. /\ r = run.last + 1 /\ Active /\ r \notin bad /\ pc # "idle"
        /\ copies' = [copies EXCEPT ![r] = @ + 1] /\ UNCHANGED <<bad, job>>
    BY <1>2 DEF ImportRow, Accepted, AtRow, Active, given
  <2>2. copies[r] = 0
    BY <1>0, <2>1 DEF LedgerInv
  <2>3. copies' = [copies EXCEPT ![r] = 1]
    BY <1>0, <2>1, <2>2
  <2>4. Ledger!Landed(r - 1)
    BY <1>0, <1>1, <2>1
  <2>5. Out = "open"
    BY <1>0, <2>1
  <2> QED
    BY <2>1, <2>2, <2>3, <2>4, <2>5 DEF Ledger!Insert
<1>3. CASE SaveProgress
  <2>1. /\ job'.last = run.last /\ job'.status = job.status /\ Active /\ pc # "idle"
        /\ job.last <= run.last /\ run.last <= NumRows
        /\ UNCHANGED <<bad, copies>>
    BY <1>0, <1>3
    DEF SaveProgress, Progressed, CheckpointRow, IInv, TypeOK, LocalInv, Active, Saving, Counter,
        given
  <2>2. Ledger!Landed(run.last) /\ Ledger!Landed(job.last)'
    BY <1>0, <1>1, <2>1 DEF Ledger!Landed
  <2>3. Out = "open"
    BY <1>0, <2>1
  <2> QED
    BY <1>0, <2>1, <2>2, <2>3 DEF Ledger!Next, Ledger!Publish
<1>4. CASE Complete
  <2>1. /\ job.last = NumRows /\ job'.last = job.last /\ job'.status = "completed"
        /\ pc # "idle" /\ UNCHANGED <<bad, copies>>
    BY <1>4 DEF Complete, Completed, IInv, TypeOK, StageInv, given
  <2> QED
    BY <1>0, <2>1 DEF Ledger!Next, Ledger!Close
<1>5. CASE Exhausted
  <2>1. /\ job' = job \/ (job'.status = "failed" /\ job'.last = job.last)
        /\ pc # "idle" /\ UNCHANGED <<bad, copies>>
    BY <1>5 DEF Exhausted, ExhaustedStatus, IInv, TypeOK, given
  <2> QED
    BY <1>0, <2>1 DEF Ledger!Next, Ledger!Close, Ledger!ledgerVars
<1>6. CASE CreateJob \/ Start \/ StartFails
  <2>1. /\ job'.last = job.last /\ job'.status \in {"pending", "running"}
        /\ job.status \notin {"completed", "failed"} /\ UNCHANGED <<bad, copies>>
    BY <1>0, <1>6 DEF CreateJob, Start, StartFails, Quiet, IInv, TypeOK, given
  <2> QED
    BY <2>1 DEF Ledger!ledgerVars
<1>7. CASE UNCHANGED <<bad, copies, job>>
  BY <1>7 DEF Ledger!ledgerVars
<1>8. ~(CheckpointFails \/ CompleteFails
        \/ \E r \in Rows : RowCommitUnacknowledged(r))
  BY DEF Quiet, CheckpointFails, CompleteFails, RowCommitUnacknowledged
<1> QED
  BY <1>2, <1>3, <1>4, <1>5, <1>6, <1>7, <1>8
  DEF Next, Worker, Fault, Ended, vars, Rows, Ledger!Next, Enqueue, RejectRow,
      EndOfFile, SaveErrors, Retry, ConnectionLost, WorkerKilled, given

\* The import implements the ledger: each acceptable row enters the table
\* exactly once, in file order, and nothing is published before it is there.
THEOREM Refinement == ASSUME Quiet PROVE Spec => ImplementsLedger
<1>1. Init => Ledger!Init /\ LedgerInv
  BY LedgerInit
<1>2. Quiet /\ IInv /\ IInv' /\ LedgerInv /\ [Next]_vars => LedgerInv'
  BY LedgerInvStep
<1>3. Quiet /\ IInv /\ LedgerInv /\ [Next]_vars => [Ledger!Next]_(Ledger!ledgerVars)
  BY LedgerStep
<1>4. Spec => []IInv
  BY Invariant
<1> QED
  BY <1>1, <1>2, <1>3, <1>4, PTL DEF Spec, ImplementsLedger, Ledger!Spec
=============================================================================
