----------------------------- MODULE ExportProofs -----------------------------
(***************************************************************************)
(* Proofs about ExportJob, for every number of retries and every set of    *)
(* faults, and about Package, for every organization.                      *)
(*                                                                         *)
(* A retried attempt writes over the package of an earlier one, so the     *)
(* argument is about when it can: only after run_export has marked the job *)
(* RUNNING (StageInv), and a job that is COMPLETED is run again only after *)
(* a fault of the control database or a save that was not acknowledged     *)
(* (QuietInv).                                                             *)
(*                                                                         *)
(* _topological_order is a recursion over the list of tables; Steps is the *)
(* induction its proofs need and Recursion says that it is defined.        *)
(***************************************************************************)
EXTENDS ExportJob, Package, FiniteSetTheorems, WellFoundedInduction, TLAPS

Quiet == occurred \cap {"control", "unacknowledged"} = {}

\* What is known where run_export stands.
StageInv ==
  /\ status = "none" => pc = "idle" /\ task = "unsent"
  /\ pc = "send" <=> task = "unsent" /\ status # "none"
  /\ pc \in {"build", "put", "finish", "audit", "retry"} <=> task = "running"
  /\ pc \in {"build", "put", "finish"} => status = "running"
  /\ pc = "finish" => object = attempt
  /\ download.state = "loaded" => object # 0

\* While the control database answers, a COMPLETED job is not run again, and a
\* download was loaded from the job as it still is.
QuietInv ==
  Quiet =>
    /\ status = "completed" => pc = "audit" \/ task \in {"done", "lost"}
    /\ download.state = "loaded" => status = "completed" /\ download.sum = sum

IInv == PackagesMatch /\ StageInv /\ QuietInv

-----------------------------------------------------------------------------
\* The initial states.
LEMMA InitIInv == Init => IInv
BY ExportAssumption DEF Init, IInv, PackagesMatch, TypeOK, CompletedMatches, ServedIsComplete,
                        StageInv, QuietInv, Contents

\* The types.
LEMMA TypeStep ==
  ASSUME TypeOK, [Next]_vars
  PROVE  TypeOK'
<1> USE ExportAssumption DEF TypeOK, Contents, Suffer, Fine, attempt
<1>1. CASE CreateJob \/ Enqueue
  BY <1>1 DEF CreateJob, Enqueue
<1>2. CASE Begin \/ BeginFails
  BY <1>2 DEF Begin, BeginFails
<1>3. CASE Build \/ BuildFails
  BY <1>3 DEF Build, BuildFails
<1>4. CASE Put \/ PutFails
  BY <1>4 DEF Put, PutFails
<1>5. CASE Finish \/ FinishFails
  BY <1>5 DEF Finish, FinishFails, RecordedSum
<1>6. CASE Audit
  BY <1>6 DEF Audit
<1>7. CASE Retry
  BY <1>7 DEF Retry, RetriesLeft, Counted
<1>8. CASE Exhausted
  BY <1>8 DEF Exhausted, ExhaustedStatus
<1>9. CASE WorkerKilled
  BY <1>9 DEF WorkerKilled
<1>10. CASE LoadJob
  BY <1>10 DEF LoadJob, MayDownload
<1>11. CASE Serve
  BY <1>11 DEF Serve
<1>12. CASE Ended \/ UNCHANGED vars
  BY <1>12 DEF Ended, vars
<1> QED
  BY <1>1, <1>2, <1>3, <1>4, <1>5, <1>6, <1>7, <1>8, <1>9, <1>10, <1>11, <1>12 DEF Next, Worker, Fault

\* Where run_export stands.
LEMMA StageStep ==
  ASSUME IInv, [Next]_vars
  PROVE  StageInv'
<1> USE ExportAssumption DEF IInv, PackagesMatch, TypeOK, Contents, StageInv, Suffer, Fine, attempt, CompletedMatches
<1>1. CASE CreateJob \/ Enqueue
  BY <1>1 DEF CreateJob, Enqueue
<1>2. CASE Begin \/ BeginFails
  BY <1>2 DEF Begin, BeginFails
<1>3. CASE Build \/ BuildFails
  BY <1>3 DEF Build, BuildFails
<1>4. CASE Put \/ PutFails
  BY <1>4 DEF Put, PutFails
<1>5. CASE Finish \/ FinishFails
  BY <1>5 DEF Finish, FinishFails, RecordedSum
<1>6. CASE Audit
  BY <1>6 DEF Audit
<1>7. CASE Retry
  BY <1>7 DEF Retry, RetriesLeft, Counted
<1>8. CASE Exhausted
  BY <1>8 DEF Exhausted, ExhaustedStatus
<1>9. CASE WorkerKilled
  BY <1>9 DEF WorkerKilled
<1>10. CASE LoadJob
  BY <1>10 DEF LoadJob, MayDownload
<1>11. CASE Serve
  BY <1>11 DEF Serve
<1>12. CASE Ended \/ UNCHANGED vars
  BY <1>12 DEF Ended, vars
<1> QED
  BY <1>1, <1>2, <1>3, <1>4, <1>5, <1>6, <1>7, <1>8, <1>9, <1>10, <1>11, <1>12 DEF Next, Worker, Fault

\* The package on record is the one in the store.
LEMMA CompletedStep ==
  ASSUME IInv, [Next]_vars
  PROVE  CompletedMatches'
<1> USE ExportAssumption DEF IInv, PackagesMatch, TypeOK, Contents, StageInv, Suffer, Fine, attempt, CompletedMatches
<1>1. CASE CreateJob \/ Enqueue
  BY <1>1 DEF CreateJob, Enqueue
<1>2. CASE Begin \/ BeginFails
  BY <1>2 DEF Begin, BeginFails
<1>3. CASE Build \/ BuildFails
  BY <1>3 DEF Build, BuildFails
<1>4. CASE Put \/ PutFails
  BY <1>4 DEF Put, PutFails
<1>5. CASE Finish \/ FinishFails
  BY <1>5 DEF Finish, FinishFails, RecordedSum
<1>6. CASE Audit
  BY <1>6 DEF Audit
<1>7. CASE Retry
  BY <1>7 DEF Retry, RetriesLeft, Counted
<1>8. CASE Exhausted
  BY <1>8 DEF Exhausted, ExhaustedStatus
<1>9. CASE WorkerKilled
  BY <1>9 DEF WorkerKilled
<1>10. CASE LoadJob
  BY <1>10 DEF LoadJob, MayDownload
<1>11. CASE Serve
  BY <1>11 DEF Serve
<1>12. CASE Ended \/ UNCHANGED vars
  BY <1>12 DEF Ended, vars
<1> QED
  BY <1>1, <1>2, <1>3, <1>4, <1>5, <1>6, <1>7, <1>8, <1>9, <1>10, <1>11, <1>12 DEF Next, Worker, Fault

\* A COMPLETED job is left alone.
LEMMA QuietStep ==
  ASSUME IInv, [Next]_vars
  PROVE  QuietInv'
<1> USE ExportAssumption DEF IInv, PackagesMatch, TypeOK, Contents, StageInv, Suffer, Fine, attempt, QuietInv, Quiet
<1>1. CASE CreateJob \/ Enqueue
  BY <1>1 DEF CreateJob, Enqueue
<1>2. CASE Begin \/ BeginFails
  BY <1>2 DEF Begin, BeginFails
<1>3. CASE Build \/ BuildFails
  BY <1>3 DEF Build, BuildFails
<1>4. CASE Put \/ PutFails
  BY <1>4 DEF Put, PutFails
<1>5. CASE Finish \/ FinishFails
  BY <1>5 DEF Finish, FinishFails, RecordedSum
<1>6. CASE Audit
  BY <1>6 DEF Audit
<1>7. CASE Retry
  BY <1>7 DEF Retry, RetriesLeft, Counted
<1>8. CASE Exhausted
  BY <1>8 DEF Exhausted, ExhaustedStatus
<1>9. CASE WorkerKilled
  BY <1>9 DEF WorkerKilled
<1>10. CASE LoadJob
  BY <1>10 DEF LoadJob, MayDownload
<1>11. CASE Serve
  BY <1>11 DEF Serve
<1>12. CASE Ended \/ UNCHANGED vars
  BY <1>12 DEF Ended, vars
<1> QED
  BY <1>1, <1>2, <1>3, <1>4, <1>5, <1>6, <1>7, <1>8, <1>9, <1>10, <1>11, <1>12 DEF Next, Worker, Fault

\* What a client receives.
LEMMA ServedStep ==
  ASSUME IInv, [Next]_vars
  PROVE  ServedIsComplete'
<1> USE ExportAssumption DEF IInv, PackagesMatch, TypeOK, Contents, StageInv, Suffer, Fine, attempt, CompletedMatches, QuietInv, Quiet, ServedIsComplete
<1>1. CASE CreateJob \/ Enqueue
  BY <1>1 DEF CreateJob, Enqueue
<1>2. CASE Begin \/ BeginFails
  BY <1>2 DEF Begin, BeginFails
<1>3. CASE Build \/ BuildFails
  BY <1>3 DEF Build, BuildFails
<1>4. CASE Put \/ PutFails
  BY <1>4 DEF Put, PutFails
<1>5. CASE Finish \/ FinishFails
  BY <1>5 DEF Finish, FinishFails, RecordedSum
<1>6. CASE Audit
  BY <1>6 DEF Audit
<1>7. CASE Retry
  BY <1>7 DEF Retry, RetriesLeft, Counted
<1>8. CASE Exhausted
  BY <1>8 DEF Exhausted, ExhaustedStatus
<1>9. CASE WorkerKilled
  BY <1>9 DEF WorkerKilled
<1>10. CASE LoadJob
  BY <1>10 DEF LoadJob, MayDownload
<1>11. CASE Serve
  BY <1>11 DEF Serve
<1>12. CASE Ended \/ UNCHANGED vars
  BY <1>12 DEF Ended, vars
<1> QED
  BY <1>1, <1>2, <1>3, <1>4, <1>5, <1>6, <1>7, <1>8, <1>9, <1>10, <1>11, <1>12 DEF Next, Worker, Fault

\* Every step keeps the inductive invariant.
LEMMA NextIInv == IInv /\ [Next]_vars => IInv'
<1> SUFFICES ASSUME IInv, [Next]_vars PROVE IInv'
  OBVIOUS
<1>1. PackagesMatch'
  BY TypeStep, CompletedStep, ServedStep DEF IInv, PackagesMatch
<1> QED
  BY <1>1, StageStep, QuietStep DEF IInv

\* What a client downloads is the package the job describes (run_export,
\* download_export), under every fault and however a retry that writes over the
\* package overlaps the download.
THEOREM PackagesAlwaysMatch == Spec => []PackagesMatch
<1>1. IInv => PackagesMatch
  BY DEF IInv
<1> QED
  BY <1>1, InitIInv, NextIInv, PTL DEF Spec

(***************************************************************************)
(* How long an export takes: every step but a download's uses up one of a  *)
(* number of steps that is known in advance.                               *)
(***************************************************************************)

\* The steps the present attempt can still take.
StepsOfAttempt ==
  CASE pc = "idle" -> IF status = "none" THEN 9 ELSE 7
    [] pc = "send" -> 8
    [] pc = "build" -> 6 [] pc = "put" -> 5 [] pc = "finish" -> 4 [] pc = "audit" -> 3
    [] pc = "retry" -> 2

Over == task \in {"done", "lost"}
StepsLeft == IF Over THEN 0 ELSE StepsOfAttempt + 6 * (MaxRetries - retries)

exportVars == <<status, sum, object, task, retries, pc, occurred>>

\* What an export that is over looks like.
Settled ==
  \/ task = "done" /\ (status \in {"completed", "failed"} \/ retries = MaxRetries)
  \/ task = "lost" \/ "control" \in occurred

\* A task ends after its last save or with its retries used up.
SettledInv ==
  /\ pc = "audit" => status = "completed"
  /\ Over => Settled

\* The steps are counted by a natural number.
LEMMA StepsCount ==
  ASSUME IInv
  PROVE  /\ StepsLeft \in 0 .. (9 + 6 * MaxRetries)
         /\ StepsLeft = 0 <=> Over
         /\ StepsOfAttempt \in 2 .. 9
<1> USE ExportAssumption DEF IInv, PackagesMatch, TypeOK
<1>1. StepsOfAttempt \in 2 .. 9
  BY DEF StepsOfAttempt, StageInv
<1>2. 6 * (MaxRetries - retries) \in 0 .. 6 * MaxRetries
  OBVIOUS
<1> QED
  BY <1>1, <1>2 DEF StepsLeft

\* A step within an attempt.
LEMMA StepsWithin ==
  ASSUME IInv, IInv', retries' = retries, ~Over, Over' \/ StepsOfAttempt' < StepsOfAttempt
  PROVE  StepsLeft' < StepsLeft
<1>1. StepsOfAttempt \in 2 .. 9 /\ StepsOfAttempt' \in Int /\ retries \in 0..MaxRetries
  <2>1. StepsOfAttempt' \in 2 .. 9
    BY DEF IInv, PackagesMatch, TypeOK, StageInv, StepsOfAttempt
  <2> QED
    BY <2>1, StepsCount DEF IInv, PackagesMatch, TypeOK
<1>2. 6 * (MaxRetries - retries) \in Nat
  BY <1>1, ExportAssumption
<1> QED
  BY <1>1, <1>2 DEF StepsLeft

\* Every step of the export uses one up.
LEMMA StepsDecrease ==
  ASSUME IInv, IInv', Next, ~UNCHANGED exportVars
  PROVE  StepsLeft' < StepsLeft
<1> USE ExportAssumption DEF IInv, PackagesMatch, TypeOK, StageInv, Over
<1>1. CASE CreateJob \/ Enqueue
  BY <1>1, StepsWithin DEF CreateJob, Enqueue, StepsOfAttempt
<1>2. CASE Begin \/ BeginFails
  BY <1>2, StepsWithin DEF Begin, BeginFails, StepsOfAttempt
<1>3. CASE Build \/ BuildFails
  BY <1>3, StepsWithin DEF Build, BuildFails, StepsOfAttempt
<1>4. CASE Put \/ PutFails
  BY <1>4, StepsWithin DEF Put, PutFails, StepsOfAttempt
<1>5. CASE Finish \/ FinishFails \/ Audit
  BY <1>5, StepsWithin DEF Finish, FinishFails, Audit, StepsOfAttempt
<1>6. CASE Retry /\ task' = "lost"
  BY <1>6, StepsWithin DEF Retry
<1>7. CASE Retry /\ task' # "lost"
  <2>1. /\ StepsOfAttempt = 2 /\ StepsOfAttempt' = 7 /\ retries' = retries + 1
        /\ retries \in Nat /\ ~Over /\ ~Over'
    BY <1>7 DEF Retry, Counted, StepsOfAttempt
  <2> QED
    BY <2>1 DEF StepsLeft
<1>8. CASE Exhausted \/ WorkerKilled
  BY <1>8, StepsWithin DEF Exhausted, WorkerKilled
<1>9. CASE LoadJob \/ Serve \/ Ended
  BY <1>9 DEF LoadJob, Serve, Ended, vars, exportVars
<1> QED
  BY <1>1, <1>2, <1>3, <1>4, <1>5, <1>6, <1>7, <1>8, <1>9 DEF Next, Worker, Fault

\* The task ends as it should.
LEMMA SettledStep ==
  ASSUME IInv, SettledInv, [Next]_vars
  PROVE  SettledInv'
<1> USE ExportAssumption DEF IInv, PackagesMatch, TypeOK, StageInv, Over, Settled, SettledInv,
                             Suffer, Fine
<1>1. CASE CreateJob \/ Enqueue
  BY <1>1 DEF CreateJob, Enqueue
<1>2. CASE Begin \/ BeginFails
  BY <1>2 DEF Begin, BeginFails
<1>3. CASE Build \/ BuildFails \/ Put \/ PutFails
  BY <1>3 DEF Build, BuildFails, Put, PutFails
<1>4. CASE Finish \/ FinishFails \/ Audit
  BY <1>4 DEF Finish, FinishFails, Audit
<1>5. CASE Retry
  BY <1>5 DEF Retry
<1>6. CASE Exhausted \/ WorkerKilled
  BY <1>6 DEF Exhausted, WorkerKilled
<1>7. CASE LoadJob \/ Serve \/ Ended \/ UNCHANGED vars
  BY <1>7 DEF LoadJob, Serve, Ended, vars
<1> QED
  BY <1>1, <1>2, <1>3, <1>4, <1>5, <1>6, <1>7 DEF Next, Worker, Fault

\* An export is over within 9 + 6 * MaxRetries steps, whatever fails in them
\* and however often it is downloaded (run_export, run_export_task), and a job
\* that is over is settled: the part of ExportEnds that fairness adds nothing to.
THEOREM ExportsAreBounded ==
  Spec => /\ [](StepsLeft \in 0 .. (9 + 6 * MaxRetries) /\ (StepsLeft = 0 => Settled))
          /\ [][StepsLeft' < StepsLeft]_exportVars
<1> DEFINE Bounded == StepsLeft \in 0 .. (9 + 6 * MaxRetries) /\ (StepsLeft = 0 => Settled)
           Used == StepsLeft' < StepsLeft
<1>1. Init => SettledInv
  BY DEF Init, SettledInv, Over
<1>2. IInv /\ SettledInv /\ [Next]_vars => SettledInv'
  BY SettledStep
<1>3. IInv /\ SettledInv => Bounded
  BY StepsCount DEF SettledInv
<1>4. IInv /\ IInv' /\ [Next]_vars => [Used]_exportVars
  BY StepsDecrease DEF vars, exportVars
<1> QED
  BY <1>1, <1>2, <1>3, <1>4, InitIInv, NextIInv, PTL DEF Spec

-----------------------------------------------------------------------------
(***************************************************************************)
(* Recursion over a bounded range of numbers.                              *)
(***************************************************************************)
\* A set of numbers that is not empty has a least one.
LEMMA LeastIn ==
  ASSUME NEW S \in SUBSET Nat, S # {}
  PROVE  \E x \in S : \A y \in S : x <= y
<1>1. \E x \in S : \A y \in S : ~(<<y, x>> \in OpToRel(<, Nat))
  BY NatLessThanWellFounded, WFMin, Zenon
<1>2. PICK x \in S : \A y \in S : ~(<<y, x>> \in OpToRel(<, Nat))
  BY <1>1
<1>3. \A y \in S : x <= y
  <2> TAKE y \in S
  <2>1. x \in Nat /\ y \in Nat
    OBVIOUS
  <2>2. y < x => <<y, x>> \in OpToRel(<, Nat)
    BY <2>1 DEF OpToRel
  <2>3. ~(<<y, x>> \in OpToRel(<, Nat))
    BY <1>2, Zenon
  <2>4. ~(y < x)
    BY <2>2, <2>3, Zenon
  <2> QED
    BY <2>1, <2>4
<1> QED
  BY <1>3

\* Induction: what holds of 0 and passes from each number to the next.
LEMMA Steps ==
  ASSUME NEW N \in Nat, NEW S, 0 \in S, \A i \in 1..N : i - 1 \in S => i \in S
  PROVE  \A i \in 0..N : i \in S
<1> DEFINE others == {i \in 0..N : i \notin S}
<1>1. SUFFICES ASSUME others # {} PROVE FALSE
  OBVIOUS
<1>2. others \in SUBSET Nat
  OBVIOUS
<1>3. PICK x \in others : \A y \in others : x <= y
  BY <1>1, <1>2, LeastIn
<1>4. x \in 1..N /\ x - 1 \in 0..N /\ ~(x <= x - 1)
  BY <1>3
<1>5. x - 1 \in S
  BY <1>3, <1>4
<1> QED
  BY <1>3, <1>4, <1>5

\* The values a step makes of each other, from the first to the Nth.
IsStep(N, S, step) == step \in [1..N -> [S -> S]]
Unfolds(g, N, S, first, step) ==
  g \in [0..N -> S] /\ g[0] = first /\ \A i \in 1..N : g[i] = step[i][g[i - 1]]

\* A recursive definition over 0..N defines a function.
LEMMA Recursion ==
  \A N \in Nat : \A S, first, step :
    first \in S /\ IsStep(N, S, step) => \E g : Unfolds(g, N, S, first, step)
<1> SUFFICES ASSUME NEW N \in Nat, NEW S, NEW first, NEW step, first \in S, IsStep(N, S, step)
             PROVE  \E g : Unfolds(g, N, S, first, step)
  OBVIOUS
<1> first \in S /\ step \in [1..N -> [S -> S]]
  BY DEF IsStep
<1> DEFINE defined == {n \in 0..N : \E g \in [0..n -> S] :
                         g[0] = first /\ \A i \in 1..n : g[i] = step[i][g[i - 1]]}
<1>1. 0 \in defined
  <2>1. [i \in 0..0 |-> first] \in [0..0 -> S] /\ [i \in 0..0 |-> first][0] = first
    OBVIOUS
  <2>2. \A i \in 1..0 : FALSE
    OBVIOUS
  <2>3. \E g \in [0..0 -> S] : g[0] = first /\ \A i \in 1..0 : g[i] = step[i][g[i - 1]]
    BY <2>1, <2>2
  <2> QED
    BY <2>3
<1>2. ASSUME NEW n \in 1..N, n - 1 \in defined PROVE n \in defined
  <2>1. PICK g \in [0..(n - 1) -> S] :
          g[0] = first /\ \A i \in 1..(n - 1) : g[i] = step[i][g[i - 1]]
    BY <1>2
  <2> DEFINE h == [i \in 0..n |-> IF i = n THEN step[n][g[n - 1]] ELSE g[i]]
  <2>2. n - 1 \in 0..(n - 1) /\ g[n - 1] \in S
    OBVIOUS
  <2>3. step[n][g[n - 1]] \in S
    BY <2>2
  <2>4. \A i \in 0..n : i = n \/ i \in 0..(n - 1)
    OBVIOUS
  <2>5. h \in [0..n -> S]
    BY <2>3, <2>4
  <2>6. \A i \in 0..(n - 1) : i \in 0..n /\ i # n
    OBVIOUS
  <2>7. \A i \in 0..(n - 1) : h[i] = g[i]
    BY <2>6
  <2>8. 0 \in 0..(n - 1) /\ n \in 0..n
    OBVIOUS
  <2>9. h[0] = first
    BY <2>1, <2>7, <2>8
  <2>10. \A i \in 1..n : i - 1 \in 0..(n - 1) /\ (i = n \/ (i \in 1..(n - 1) /\ i \in 0..(n - 1)))
    OBVIOUS
  <2>11. h[n] = step[n][h[n - 1]]
    BY <2>2, <2>7, <2>8
  <2> HIDE DEF h
  <2>12. \A i \in 1..n : h[i] = step[i][h[i - 1]]
    BY <2>1, <2>7, <2>10, <2>11
  <2>13. \E f \in [0..n -> S] : f[0] = first /\ \A i \in 1..n : f[i] = step[i][f[i - 1]]
    <3>1. h \in [0..n -> S]
      BY <2>5
    <3>2. WITNESS h \in [0..n -> S]
    <3> QED
      BY <2>9, <2>12
  <2>14. n \in 0..N
    OBVIOUS
  <2> QED
    BY <2>13, <2>14, Zenon
<1>3. \A n \in 0..N : n \in defined
  <2> HIDE DEF defined
  <2> QED
    BY <1>1, <1>2, Steps
<1> QED
  BY <1>3 DEF Unfolds

-----------------------------------------------------------------------------
(***************************************************************************)
(* The order of the tables.                                                *)
(***************************************************************************)
\* A visit returns a sequence of tables.
LEMMA VisitType ==
  ASSUME NEW i \in 1..Len(TableOrder), NEW order \in Seq(Tables)
  PROVE  Visit(TableOrder[i], order) \in Seq(Tables)
<1>1. TableOrder[i] \in Tables
  BY PackageAssumption
<1> QED
  BY <1>1 DEF Visit

\* What a pass does, table by table.
LEMMA PassSteps ==
  ASSUME NEW resolved \in Seq(Tables)
  PROVE  \E g \in [0..Len(TableOrder) -> Seq(Tables)] :
           /\ g[0] = resolved /\ Pass(resolved) = g[Len(TableOrder)]
           /\ \A i \in 1..Len(TableOrder) : g[i] = Visit(TableOrder[i], g[i - 1])
<1> DEFINE N == Len(TableOrder)
           Seen(g) == g = [i \in 0..N |-> IF i = 0 THEN resolved ELSE Visit(TableOrder[i], g[i - 1])]
           step == [i \in 1..N |-> [order \in Seq(Tables) |-> Visit(TableOrder[i], order)]]
           seen == CHOOSE g : Seen(g)
<1>1. N \in Nat
  BY PackageAssumption
<1>2. step \in [1..N -> [Seq(Tables) -> Seq(Tables)]]
  BY VisitType
<1>3. PICK g \in [0..N -> Seq(Tables)] :
        g[0] = resolved /\ \A i \in 1..N : g[i] = step[i][g[i - 1]]
  <2> HIDE DEF step, N
  <2>1. resolved \in Seq(Tables) /\ IsStep(N, Seq(Tables), step)
    BY <1>2 DEF IsStep
  <2>2. \E g : Unfolds(g, N, Seq(Tables), resolved, step)
    BY <1>1, <2>1, Recursion, Zenon
  <2> QED
    BY <2>2 DEF Unfolds
<1>4. \A i \in 1..N : i - 1 \in 0..N /\ i \in 0..N /\ i # 0
  BY <1>1
<1>5. \A i \in 1..N : g[i] = Visit(TableOrder[i], g[i - 1])
  BY <1>3, <1>4
<1>6. \A i \in 0..N : i = 0 \/ i \in 1..N
  BY <1>1
<1>7. Seen(g)
  BY <1>3, <1>5, <1>6
<1>8. Seen(seen)
  BY <1>7
<1>9. Pass(resolved) = seen[N]
  BY DEF Pass
<1> HIDE DEF seen, step
<1>10. 0 \in 0..N /\ N \in 0..N
  BY <1>1
<1>11. seen[0] = resolved /\ \A i \in 1..N : seen[i] = Visit(TableOrder[i], seen[i - 1])
  BY <1>4, <1>8, <1>10
<1>12. \A i \in 0..N : seen[i] \in Seq(Tables)
  <2> DEFINE typed == {i \in 0..N : seen[i] \in Seq(Tables)}
  <2>1. 0 \in typed
    BY <1>10, <1>11
  <2>2. \A i \in 1..N : i - 1 \in typed => i \in typed
    BY <1>4, <1>11, VisitType
  <2> HIDE DEF typed
  <2>3. \A i \in 0..N : i \in typed
    BY <1>1, <2>1, <2>2, Steps
  <2> QED
    BY <2>3 DEF typed
<1>13. seen \in [0..N -> Seq(Tables)]
  BY <1>8, <1>12
<1> QED
  BY <1>9, <1>11, <1>13

\* A table comes once, after the tables it references.
Ordered(order) ==
  /\ order \in Seq(Tables)
  /\ \A i, j \in DOMAIN order : order[i] = order[j] => i = j
  /\ \A i \in DOMAIN order : \A u \in Deps(order[i]) : \E j \in DOMAIN order : j < i /\ order[j] = u

\* No table is left that a pass could add.
Stuck(order) == \A t \in Tables \ Range(order) : ~(Deps(t) \subseteq Range(order))

\* A table visited is added or left.
LEMMA VisitFacts ==
  ASSUME NEW t \in Tables, NEW order, Ordered(order)
  PROVE  /\ Ordered(Visit(t, order))
         /\ \/ Visit(t, order) = order /\ (t \in Range(order) \/ ~(Deps(t) \subseteq Range(order)))
            \/ Len(Visit(t, order)) = Len(order) + 1
<1>1. CASE t \notin Range(order) /\ Deps(t) \subseteq Range(order)
  <2> DEFINE new == Append(order, t)
  <2>1. Visit(t, order) = new
    BY <1>1 DEF Visit
  <2>2. /\ order \in Seq(Tables) /\ new \in Seq(Tables) /\ Len(new) = Len(order) + 1
        /\ Len(order) \in Nat /\ DOMAIN order = 1..Len(order) /\ DOMAIN new = 1..Len(new)
    BY DEF Ordered
  <2>3. new[Len(new)] = t /\ \A i \in DOMAIN order : new[i] = order[i]
    BY <2>2
  <2>4. \A i \in DOMAIN new : (i \in DOMAIN order /\ i < Len(new)) \/ i = Len(new)
    BY <2>2
  <2>5. \A i \in DOMAIN order : i \in DOMAIN new /\ order[i] # t
    BY <1>1, <2>2 DEF Range
  <2> HIDE DEF new
  <2>6. ASSUME NEW i \in DOMAIN new, NEW j \in DOMAIN new, new[i] = new[j] PROVE i = j
    BY <2>3, <2>4, <2>5, <2>6 DEF Ordered
  <2>7. ASSUME NEW i \in DOMAIN new, NEW u \in Deps(new[i])
        PROVE  \E j \in DOMAIN new : j < i /\ new[j] = u
    <3>1. CASE i = Len(new)
      <4>1. u \in Range(order)
        BY <1>1, <2>3, <2>7, <3>1
      <4>2. PICK j \in DOMAIN order : order[j] = u
        BY <4>1 DEF Range
      <4> QED
        BY <2>2, <2>3, <2>5, <3>1, <4>2
    <3>2. CASE i \in DOMAIN order
      <4>1. new[i] = order[i]
        BY <2>3, <3>2
      <4>2. PICK j \in DOMAIN order : j < i /\ order[j] = u
        BY <2>7, <3>2, <4>1 DEF Ordered
      <4> QED
        BY <2>3, <2>5, <4>2
    <3> QED
      BY <2>4, <3>1, <3>2
  <2>8. Ordered(new)
    BY <2>2, <2>6, <2>7 DEF Ordered
  <2> QED
    BY <2>1, <2>2, <2>8
<1>2. CASE ~(t \notin Range(order) /\ Deps(t) \subseteq Range(order))
  <2>1. Visit(t, order) = order
    BY <1>2 DEF Visit
  <2> QED
    BY <1>2, <2>1
<1> QED
  BY <1>1, <1>2

\* A pass keeps the order, and adds a table unless it can add none.
LEMMA PassFacts ==
  ASSUME NEW order, Ordered(order)
  PROVE  /\ Ordered(Pass(order)) /\ Len(Pass(order)) >= Len(order)
         /\ Len(Pass(order)) = Len(order) => Stuck(order)
         /\ Stuck(order) => Pass(order) = order
<1> DEFINE N == Len(TableOrder)
<1>1. order \in Seq(Tables) /\ N \in Nat /\ Len(order) \in Nat
  BY PackageAssumption DEF Ordered
<1>2. PICK g \in [0..N -> Seq(Tables)] :
        /\ g[0] = order /\ Pass(order) = g[N]
        /\ \A i \in 1..N : g[i] = Visit(TableOrder[i], g[i - 1])
  BY <1>1, PassSteps
<1> DEFINE Idle(i) == \A j \in 1..i : TableOrder[j] \in Range(order)
                                      \/ ~(Deps(TableOrder[j]) \subseteq Range(order))
           well == {i \in 0..N : /\ Ordered(g[i]) /\ Len(g[i]) \in Nat /\ Len(g[i]) >= Len(order)
                                 /\ Len(g[i]) = Len(order) => g[i] = order /\ Idle(i)
                                 /\ Stuck(order) => g[i] = order}
<1>3. 0 \in well
  <2>1. \A j \in 1..0 : FALSE
    OBVIOUS
  <2> QED
    BY <1>1, <1>2, <2>1
<1>4. ASSUME NEW i \in 1..N, i - 1 \in well PROVE i \in well
  <2> HIDE DEF Idle
  <2>1. /\ Ordered(g[i - 1]) /\ Len(g[i - 1]) \in Nat /\ Len(g[i - 1]) >= Len(order)
        /\ Len(g[i - 1]) = Len(order) => g[i - 1] = order /\ Idle(i - 1)
        /\ Stuck(order) => g[i - 1] = order
        /\ i \in 0..N
    BY <1>4
  <2>2. TableOrder[i] \in Tables /\ g[i] = Visit(TableOrder[i], g[i - 1])
    BY <1>2, PackageAssumption
  <2>3. CASE Len(g[i]) = Len(g[i - 1]) + 1 /\ Ordered(g[i])
    <3>1. Len(g[i]) >= Len(order) /\ Len(g[i]) # Len(order) /\ Len(g[i]) \in Nat
      BY <1>1, <2>1, <2>3
    <3>2. Stuck(order) => FALSE
      <4>1. SUFFICES ASSUME Stuck(order) PROVE FALSE
        OBVIOUS
      <4>2. g[i - 1] = order /\ (TableOrder[i] \in Range(order) \/ ~(Deps(TableOrder[i]) \subseteq Range(order)))
        BY <2>1, <2>2, <4>1 DEF Stuck
      <4>3. g[i] = order
        BY <2>2, <4>2 DEF Visit
      <4> QED
        BY <1>1, <2>3, <4>2, <4>3
    <3> QED
      BY <2>1, <2>3, <3>1, <3>2
  <2>4. CASE /\ g[i] = g[i - 1] /\ Ordered(g[i])
             /\ TableOrder[i] \in Range(g[i]) \/ ~(Deps(TableOrder[i]) \subseteq Range(g[i]))
    <3>1. ASSUME Len(g[i]) = Len(order) PROVE g[i] = order /\ Idle(i)
      <4>1. g[i] = order /\ Idle(i - 1)
        BY <2>1, <2>4, <3>1
      <4>2. \A j \in 1..i : j \in 1..(i - 1) \/ j = i
        OBVIOUS
      <4> QED
        BY <2>4, <4>1, <4>2 DEF Idle
    <3> QED
      BY <2>1, <2>4, <3>1
  <2> QED
    BY <2>1, <2>2, <2>3, <2>4, VisitFacts
<1>5. \A i \in 0..N : i \in well
  <2> HIDE DEF well
  <2> QED
    BY <1>1, <1>3, <1>4, Steps
<1>6. N \in well
  BY <1>1, <1>5
<1>7. ASSUME Idle(N) PROVE Stuck(order)
  <2>1. \A t \in Tables : \E j \in 1..N : t = TableOrder[j]
    BY PackageAssumption DEF Tables, Range
  <2> QED
    BY <1>7, <2>1 DEF Stuck
<1> QED
  BY <1>2, <1>6, <1>7

\* The passes together.
LEMMA PassesFacts ==
  /\ Ordered(TopologicalOrder)
  /\ Len(TopologicalOrder) >= Len(TableOrder) \/ Stuck(TopologicalOrder)
<1> DEFINE N == Len(TableOrder)
           orders == {order \in Seq(Tables) : Ordered(order)}
           After(g) == g = [n \in 0..N |-> IF n = 0 THEN <<>> ELSE Pass(g[n - 1])]
           step == [i \in 1..N |-> [order \in orders |-> Pass(order)]]
           after == CHOOSE g : After(g)
<1>1. N \in Nat
  BY PackageAssumption
<1>2. <<>> \in orders
  <2>1. <<>> \in Seq(Tables) /\ DOMAIN <<>> = {}
    OBVIOUS
  <2> QED
    BY <2>1 DEF Ordered
<1>3. \A order \in orders : Pass(order) \in orders
  <2>1. \A order : Ordered(order) => order \in Seq(Tables)
    BY DEF Ordered
  <2> QED
    BY <2>1, PassFacts
<1>4. step \in [1..N -> [orders -> orders]]
  BY <1>3
<1>5. PICK g \in [0..N -> orders] : g[0] = <<>> /\ \A i \in 1..N : g[i] = step[i][g[i - 1]]
  <2> HIDE DEF step, orders, N
  <2>1. <<>> \in orders /\ IsStep(N, orders, step)
    BY <1>2, <1>4 DEF IsStep
  <2>2. \E g : Unfolds(g, N, orders, <<>>, step)
    BY <1>1, <2>1, Recursion, Zenon
  <2> QED
    BY <2>2 DEF Unfolds
<1>6. \A i \in 1..N : i - 1 \in 0..N /\ i \in 0..N /\ i # 0
  BY <1>1
<1>7. \A i \in 1..N : g[i] = Pass(g[i - 1])
  <2> HIDE DEF orders
  <2> QED
    BY <1>5, <1>6
<1>8. \A i \in 0..N : i = 0 \/ i \in 1..N
  BY <1>1
<1>9. After(g)
  BY <1>5, <1>7, <1>8
<1>10. After(after)
  BY <1>9
<1>11. TopologicalOrder = after[N]
  BY DEF TopologicalOrder
<1> HIDE DEF after, step
<1>12. 0 \in 0..N /\ N \in 0..N
  BY <1>1
<1>13. after[0] = <<>> /\ \A i \in 1..N : after[i] = Pass(after[i - 1])
  BY <1>6, <1>10, <1>12
<1> DEFINE well == {i \in 0..N : /\ Ordered(after[i]) /\ Len(after[i]) \in Nat
                                 /\ \/ Len(after[i]) >= i
                                    \/ Stuck(after[i])}
<1>14. 0 \in well
  BY <1>2, <1>12, <1>13
<1>15. ASSUME NEW i \in 1..N, i - 1 \in well PROVE i \in well
  <2>1. PICK s : s = after[i - 1]
    OBVIOUS
  <2>2. /\ Ordered(s) /\ Len(s) \in Nat
        /\ Len(s) >= i - 1 \/ Stuck(s)
        /\ after[i] = Pass(s) /\ i \in 0..N
    BY <1>13, <1>15, <2>1
  <2>3. Ordered(Pass(s)) /\ Len(Pass(s)) \in Nat
    BY <2>2, PassFacts DEF Ordered
  <2>4. Len(Pass(s)) >= i \/ Stuck(Pass(s))
    <3>1. Len(Pass(s)) >= Len(s) /\ (Len(Pass(s)) = Len(s) => Stuck(s)) /\ (Stuck(s) => Pass(s) = s)
      BY <2>2, PassFacts
    <3>2. CASE Len(Pass(s)) = Len(s)
      BY <3>1, <3>2
    <3>3. CASE Len(Pass(s)) # Len(s)
      <4>1. CASE Len(s) >= i - 1
        BY <2>2, <2>3, <3>1, <3>3, <4>1
      <4>2. CASE Stuck(s)
        BY <2>2, <4>2, PassFacts
      <4> QED
        BY <2>2, <4>1, <4>2
    <3> QED
      BY <3>2, <3>3
  <2> QED
    BY <2>2, <2>3, <2>4
<1>16. \A i \in 0..N : i \in well
  <2> HIDE DEF well
  <2> QED
    BY <1>1, <1>14, <1>15, Steps
<1> QED
  BY <1>11, <1>12, <1>16

\* The tables are as many as their list is long.
LEMMA TablesFacts ==
  /\ Len(TableOrder) \in Nat /\ IsFiniteSet(Tables) /\ Cardinality(Tables) = Len(TableOrder)
  /\ \A i \in 1..Len(TableOrder) : TableOrder[i] \in Tables
<1>1. Len(TableOrder) \in Nat /\ DOMAIN TableOrder = 1..Len(TableOrder)
  BY PackageAssumption
<1>2. IsFiniteSet(1..Len(TableOrder)) /\ Cardinality(1..Len(TableOrder)) = Len(TableOrder)
  <2>1. PICK n \in Nat : n = Len(TableOrder)
    BY <1>1
  <2>2. IsFiniteSet(1..n) /\ Cardinality(1..n) = n
    BY FS_Interval
  <2> QED
    BY <2>1, <2>2
<1>3. TableOrder \in [1..Len(TableOrder) -> Tables]
  BY <1>1, PackageAssumption
<1>4. TableOrder \in Surjection(1..Len(TableOrder), Tables)
  BY <1>1, <1>3 DEF Surjection, Tables, Range
<1>5. TableOrder \in Injection(1..Len(TableOrder), Tables)
  BY <1>1, <1>3, PackageAssumption DEF Injection, IsInjective
<1> QED
  BY <1>1, <1>2, <1>3, <1>4, <1>5, FS_Surjection

\* An order has every table exactly when it is long enough.
LEMMA OrderedLen ==
  ASSUME NEW order, Ordered(order)
  PROVE  /\ Len(order) \in Nat /\ Len(order) <= Len(TableOrder)
         /\ Len(order) = Len(TableOrder) <=> Range(order) = Tables
<1>1. Len(order) \in Nat /\ DOMAIN order = 1..Len(order) /\ order \in [1..Len(order) -> Tables]
  BY DEF Ordered
<1>2. IsFiniteSet(1..Len(order)) /\ Cardinality(1..Len(order)) = Len(order)
  BY <1>1, FS_Interval
<1>3. order \in Injection(1..Len(order), Tables)
  BY <1>1 DEF Ordered, Injection, IsInjective
<1>4. /\ Cardinality(1..Len(order)) <= Cardinality(Tables)
      /\ Cardinality(1..Len(order)) = Cardinality(Tables) <=> order \in Surjection(1..Len(order), Tables)
  BY <1>3, TablesFacts, FS_Injection
<1>5. order \in Surjection(1..Len(order), Tables) <=> Range(order) = Tables
  BY <1>1 DEF Surjection, Range
<1> QED
  BY <1>1, <1>2, <1>4, <1>5, TablesFacts

\* Tables that reference each other in a circle.
Circle(set) == \A t \in set : \E u \in set : u # t /\ <<t, u>> \in scenario.keys

\* What a table references.
LEMMA DepsFacts ==
  ASSUME scenario \in Scenarios
  PROVE  \A t, u : /\ u \in Deps(t) <=> u # t /\ <<t, u>> \in scenario.keys
                   /\ u \in Refs(t) <=> <<t, u>> \in scenario.keys
                   /\ <<t, u>> \in scenario.keys => t \in Tables /\ u \in Tables
<1>1. scenario.keys \subseteq Tables \X Tables
  BY PackageAssumption
<1>2. \A t, u : <<t, u>> \in scenario.keys => t \in Tables /\ u \in Tables
  BY <1>1
<1>3. \A t, u : u \in Refs(t) <=> <<t, u>> \in scenario.keys
  <2> TAKE t, u
  <2>1. ASSUME u \in Refs(t) PROVE <<t, u>> \in scenario.keys
    <3>1. PICK k \in scenario.keys : k[1] = t /\ k[2] = u
      BY <2>1 DEF Refs
    <3>2. k = <<t, u>>
      BY <1>1, <3>1
    <3> QED
      BY <3>2
  <2>2. ASSUME <<t, u>> \in scenario.keys PROVE u \in Refs(t)
    BY <2>2 DEF Refs
  <2> QED
    BY <2>1, <2>2
<1> QED
  BY <1>2, <1>3 DEF Deps

\* Where a table stands in an order.
LEMMA PlaceFacts ==
  ASSUME NEW order, Ordered(order), NEW i \in DOMAIN order
  PROVE  Place(order, order[i]) = i
BY DEF Ordered, Place

\* A circle is not resolved, and what is not resolved has a circle.
LEMMA OrderFacts ==
  ASSUME scenario \in Scenarios
  PROVE  /\ Orderable <=> ~ \E set \in (SUBSET Tables) \ {{}} : Circle(set)
         /\ Orderable => \A t, u : t # u /\ <<t, u>> \in scenario.keys =>
              Place(TopologicalOrder, u) < Place(TopologicalOrder, t)
         /\ Orderable => \A t \in Tables : Place(TopologicalOrder, t) \in Nat
<1>1. PICK order : order = TopologicalOrder
  OBVIOUS
<1>2. Ordered(order) /\ (Len(order) >= Len(TableOrder) \/ Stuck(order))
  BY <1>1, PassesFacts
<1>3. /\ Len(order) \in Nat /\ Len(order) <= Len(TableOrder) /\ Len(TableOrder) \in Nat
      /\ Len(order) = Len(TableOrder) <=> Range(order) = Tables
  BY <1>2, OrderedLen, TablesFacts
<1>4. Orderable <=> Range(order) = Tables
  BY <1>1, <1>3 DEF Orderable
<1>5. DOMAIN order \subseteq Nat
  BY <1>2 DEF Ordered
<1>6. ASSUME Orderable, NEW t, NEW u, t # u, <<t, u>> \in scenario.keys
      PROVE  \E i, j \in DOMAIN order : /\ order[i] = t /\ order[j] = u /\ j < i
                                        /\ Place(order, t) = i /\ Place(order, u) = j
  <2>1. t \in Tables /\ u \in Deps(t)
    BY <1>6, DepsFacts
  <2>2. PICK i \in DOMAIN order : order[i] = t
    BY <1>4, <1>6, <2>1 DEF Range
  <2>3. PICK j \in DOMAIN order : j < i /\ order[j] = u
    BY <1>2, <2>1, <2>2 DEF Ordered
  <2> QED
    BY <1>2, <2>2, <2>3, PlaceFacts
<1>7. ASSUME Orderable, NEW set \in (SUBSET Tables) \ {{}}, Circle(set) PROVE FALSE
  <2> DEFINE places == {i \in DOMAIN order : order[i] \in set}
  <2>1. places \in SUBSET Nat
    BY <1>5
  <2>2. places # {}
    <3>1. PICK t \in set : t \in Range(order)
      BY <1>4, <1>7
    <3> QED
      BY <3>1 DEF Range
  <2>3. PICK i \in places : \A j \in places : i <= j
    BY <2>1, <2>2, LeastIn
  <2>4. PICK u \in set : u # order[i] /\ <<order[i], u>> \in scenario.keys
    BY <1>7, <2>3 DEF Circle
  <2>5. u \in Deps(order[i])
    BY <2>4, DepsFacts
  <2>6. PICK j \in DOMAIN order : j < i /\ order[j] = u
    BY <1>2, <2>3, <2>5 DEF Ordered
  <2>7. j \in places /\ i \in Nat /\ j \in Nat
    BY <1>5, <2>3, <2>4, <2>6
  <2> QED
    BY <2>3, <2>6, <2>7
<1>8. ASSUME ~Orderable PROVE \E set \in (SUBSET Tables) \ {{}} : Circle(set)
  <2> DEFINE rest == Tables \ Range(order)
  <2>1. Stuck(order)
    BY <1>1, <1>2, <1>3, <1>8 DEF Orderable
  <2>2. Range(order) \subseteq Tables
    BY <1>2 DEF Ordered, Range
  <2>3. rest \in (SUBSET Tables) \ {{}}
    BY <1>4, <1>8, <2>2
  <2>4. ASSUME NEW t \in rest PROVE \E u \in rest : u # t /\ <<t, u>> \in scenario.keys
    <3>1. PICK u \in Deps(t) : u \notin Range(order)
      BY <2>1 DEF Stuck
    <3> QED
      BY <3>1, DepsFacts
  <2>5. Circle(rest)
    BY <2>4 DEF Circle
  <2> QED
    BY <2>3, <2>5
<1>9. Orderable <=> ~ \E set \in (SUBSET Tables) \ {{}} : Circle(set)
  BY <1>7, <1>8
<1>10. ASSUME Orderable, NEW t \in Tables PROVE Place(order, t) \in Nat
  <2>1. PICK i \in DOMAIN order : order[i] = t
    BY <1>4, <1>10 DEF Range
  <2> QED
    BY <1>2, <1>5, <2>1, PlaceFacts
<1> QED
  BY <1>1, <1>6, <1>9, <1>10

-----------------------------------------------------------------------------
(***************************************************************************)
(* Packages: the inductive invariant.                                      *)
(***************************************************************************)
PackagedValues ==
  {"", "word", "other", "padded", "long", "moment", "nil", "document", "quoted", "requoted"}
SourceValues == {"null", "blank"} \cup (PackagedValues \ {""})

\* The rows of a table as its CSV has them.
PackagedRowsOf(t) ==
  [id : RowIds, table : {t}, ref : [Refs(t) -> RowIds \cup {0}], value : PackagedValues]
PackagedRows == UNION {PackagedRowsOf(t) : t \in Tables}

\* The organization's rows are told apart by table and id, and reference each other.
SourceInv ==
  /\ \A r \in source : r.table \in Tables /\ r \in RowsOfTable(r.table)
  /\ \A r, s \in source : r.table = s.table /\ r.id = s.id => r = s
  /\ \A r \in source : Resolved(r, source)

\* The package has one set of rows for every table so far.
CsvInv ==
  /\ package \in Seq(SUBSET PackagedRows) /\ Len(package) <= Len(TableOrder)
  /\ \A i \in DOMAIN package : /\ package[i] \subseteq PackagedRowsOf(TableOrder[i])
                               /\ \A r, s \in package[i] : r.id = s.id => r = s
  /\ ~wroteDuring => \A i \in DOMAIN package : package[i] = CsvOf(TableOrder[i])

\* What a restore refuses.
Refusable ==
  \/ \E set \in (SUBSET Tables) \ {{}} : Circle(set)
  \/ Torn \/ Forward \/ Unreadable \/ Emptied \/ Colliding

PackageStageInv ==
  /\ scenario \in Scenarios /\ writes \in 0..scenario.writes /\ wroteDuring \in BOOLEAN
  /\ stage \in {"tables", "files", "packed", "failed", "restored", "refused"}
  /\ stage # "tables" => Len(package) = Len(TableOrder)
  /\ stage = "tables" => packed = <<>>
  /\ files \in [FileNames -> Files] /\ DOMAIN packed \subseteq FileNames /\ FilesMatch
  /\ stage = "restored" => ~Refusable /\ restored = {New(row) : row \in Packaged}
  /\ stage = "refused" => Refusable

PackageIInv == SourceInv /\ CsvInv /\ PackageStageInv

\* What hangs on the scenario alone.
LEMMA SameScenario ==
  UNCHANGED scenario => /\ \A t : Refs(t)' = Refs(t) /\ RowsOfTable(t)' = RowsOfTable(t)
                                  /\ PackagedRowsOf(t)' = PackagedRowsOf(t)
                        /\ PackagedRows' = PackagedRows
<1> SUFFICES ASSUME UNCHANGED scenario
             PROVE  /\ \A t : Refs(t)' = Refs(t) /\ RowsOfTable(t)' = RowsOfTable(t)
                              /\ PackagedRowsOf(t)' = PackagedRowsOf(t)
                    /\ PackagedRows' = PackagedRows
  OBVIOUS
<1>1. \A t : Refs(t)' = Refs(t)
  BY DEF Refs
<1>2. \A t : RowsOfTable(t)' = RowsOfTable(t)
  BY <1>1 DEF RowsOfTable
<1>3. \A t : PackagedRowsOf(t)' = PackagedRowsOf(t)
  BY <1>1 DEF PackagedRowsOf
<1>4. PackagedRows' = PackagedRows
  BY <1>3 DEF PackagedRows
<1> QED
  BY <1>1, <1>2, <1>3, <1>4

\* A reference finds its row in every larger set.
LEMMA ResolvedGrows ==
  ASSUME NEW row, NEW S, NEW T, Resolved(row, S),
         \A t, id : HasRow(S, t, id) => HasRow(T, t, id)
  PROVE  Resolved(row, T)
BY DEF Resolved

\* A row, field by field.
LEMMA RowFields ==
  ASSUME NEW t \in Tables, NEW row \in RowsOfTable(t)
  PROVE  /\ row.id \in RowIds /\ row.table = t /\ row.ref \in [Refs(t) -> RowIds \cup {0}]
         /\ row.value \in SourceValues
         /\ row = [id |-> row.id, table |-> row.table, ref |-> row.ref, value |-> row.value]
         /\ \A v : [row EXCEPT !.value = v] =
                     [id |-> row.id, table |-> row.table, ref |-> row.ref, value |-> v]
<1>1. DataColumn[t].type \in {"text", "datetime", "json"}
  BY PackageAssumption
<1>2. ValuesOf(DataColumn[t].type) \subseteq SourceValues
  BY <1>1 DEF ValuesOf, SourceValues, PackagedValues
<1> QED
  BY <1>2 DEF RowsOfTable

\* What the CSV of a table has.
LEMMA CsvFacts ==
  ASSUME SourceInv, NEW t \in Tables
  PROVE  /\ CsvOf(t) \subseteq PackagedRowsOf(t) /\ CsvOf(t) \subseteq PackagedRows
         /\ \A r, s \in CsvOf(t) : r.id = s.id => r = s
<1>1. ASSUME NEW x \in CsvOf(t)
      PROVE  \E r \in source : /\ r.table = t /\ r \in RowsOfTable(t)
                               /\ x = [r EXCEPT !.value = Written(r.value)]
  BY DEF CsvOf, SourceInv
<1>2. \A v \in SourceValues : Written(v) \in PackagedValues
  BY DEF SourceValues, Written, PackagedValues
<1>3. ASSUME NEW x \in CsvOf(t) PROVE x \in PackagedRowsOf(t)
  <2>1. PICK r \in source : r.table = t /\ r \in RowsOfTable(t) /\ x = [r EXCEPT !.value = Written(r.value)]
    BY <1>1
  <2>2. x = [id |-> r.id, table |-> r.table, ref |-> r.ref, value |-> Written(r.value)]
    BY <2>1, RowFields
  <2>3. /\ r.id \in RowIds /\ r.table = t /\ r.ref \in [Refs(t) -> RowIds \cup {0}]
        /\ Written(r.value) \in PackagedValues
    BY <1>2, <2>1, RowFields
  <2> QED
    BY <2>2, <2>3 DEF PackagedRowsOf
<1>4. ASSUME NEW x \in CsvOf(t), NEW y \in CsvOf(t), x.id = y.id PROVE x = y
  <2>1. PICK r \in source : r.table = t /\ r \in RowsOfTable(t) /\ x = [r EXCEPT !.value = Written(r.value)]
    BY <1>1
  <2>2. PICK s \in source : s.table = t /\ s \in RowsOfTable(t) /\ y = [s EXCEPT !.value = Written(s.value)]
    BY <1>1
  <2>3. x.id = r.id /\ y.id = s.id
    BY <2>1, <2>2 DEF RowsOfTable
  <2>4. r = s
    BY <1>4, <2>1, <2>2, <2>3 DEF SourceInv
  <2> QED
    BY <2>1, <2>2, <2>4
<1> QED
  BY <1>3, <1>4 DEF PackagedRows

\* The initial states.
LEMMA InitPackage == PackageInit => PackageIInv
<1> SUFFICES ASSUME PackageInit PROVE PackageIInv
  OBVIOUS
<1> USE DEF PackageInit
<1>1. SourceInv
  BY DEF SourceInv
<1>2. Len(TableOrder) \in Nat
  BY TablesFacts
<1>3. package \in Seq(SUBSET PackagedRows) /\ Len(package) = 0 /\ DOMAIN package = {}
  OBVIOUS
<1>4. CsvInv
  BY <1>2, <1>3 DEF CsvInv
<1>5. scenario.files \in [FileNames -> Files] /\ scenario.writes \in Nat
  BY PackageAssumption
<1>6. DOMAIN packed = {}
  OBVIOUS
<1>7. FilesMatch /\ DOMAIN packed \subseteq FileNames
  BY <1>6 DEF FilesMatch
<1>8. /\ writes \in 0..scenario.writes /\ files \in [FileNames -> Files] /\ wroteDuring \in BOOLEAN
      /\ stage = "tables" /\ scenario \in Scenarios /\ packed = <<>>
  <2>1. 0 \in 0..scenario.writes
    BY <1>5
  <2>2. FALSE \in BOOLEAN
    OBVIOUS
  <2> QED
    BY <1>5, <2>1, <2>2
<1>9. PackageStageInv
  BY <1>7, <1>8 DEF PackageStageInv
<1> QED
  BY <1>1, <1>4, <1>9 DEF PackageIInv

\* A write, whatever it does to rows and files.
LEMMA WritePackage ==
  ASSUME PackageIInv, Write, files' \in [FileNames -> Files]
  PROVE  CsvInv' /\ PackageStageInv'
<1> USE DEF PackageIInv, Write
<1>1. CsvInv'
  <2>1. package \in Seq(SUBSET PackagedRows) /\ (wroteDuring' \/ package = <<>>)
    BY DEF CsvInv
  <2>2. ~wroteDuring' => DOMAIN package = {}
    BY <2>1
  <2>3. \A t : PackagedRowsOf(t)' = PackagedRowsOf(t)
    BY SameScenario
  <2>4. PackagedRows' = PackagedRows
    BY SameScenario
  <2> QED
    BY <2>1, <2>2, <2>3, <2>4 DEF CsvInv
<1>2. stage' \in {"tables", "files"} /\ stage' = stage
  BY DEF Exporting
<1>3. writes' \in 0..scenario.writes /\ wroteDuring' \in BOOLEAN /\ scenario' \in Scenarios
  <2>1. scenario.writes \in Nat
    BY PackageAssumption DEF PackageStageInv
  <2> QED
    BY <2>1 DEF PackageStageInv, CsvInv
<1>4. PackageStageInv'
  BY <1>2, <1>3 DEF PackageStageInv, FilesMatch
<1> QED
  BY <1>1, <1>4

\* Users insert, update and delete rows, and replace files.
LEMMA InsertPackage == PackageIInv /\ InsertRow => PackageIInv'
<1> SUFFICES ASSUME PackageIInv, InsertRow PROVE PackageIInv'
  OBVIOUS
<1>1. PICK t \in Tables : \E row \in RowsOfTable(t) :
        /\ ~HasRow(source, t, row.id) /\ source' = source \cup {row} /\ Resolved(row, source')
  BY DEF InsertRow
<1>2. PICK row \in RowsOfTable(t) :
        /\ ~HasRow(source, t, row.id) /\ source' = source \cup {row} /\ Resolved(row, source')
  BY <1>1
<1>3. Write /\ files' = files
  BY DEF InsertRow
<1>4. row.table = t
  BY RowFields
<1>5. \A r : RowsOfTable(r)' = RowsOfTable(r)
  BY <1>3, SameScenario DEF Write
<1>6. \A u, id : HasRow(source, u, id) => HasRow(source', u, id)
  BY <1>2 DEF HasRow
<1>7. \A r \in source' : r.table \in Tables /\ r \in RowsOfTable(r.table)'
  BY <1>2, <1>4, <1>5 DEF PackageIInv, SourceInv
<1>8. \A r, s \in source' : r.table = s.table /\ r.id = s.id => r = s
  BY <1>2, <1>4 DEF PackageIInv, SourceInv, HasRow
<1>9. \A r \in source' : Resolved(r, source')
  BY <1>2, <1>6, ResolvedGrows DEF PackageIInv, SourceInv
<1>10. SourceInv'
  BY <1>7, <1>8, <1>9 DEF SourceInv, Resolved, HasRow
<1>11. files' \in [FileNames -> Files]
  BY <1>3 DEF PackageIInv, PackageStageInv
<1> QED
  BY <1>3, <1>10, <1>11, WritePackage DEF PackageIInv

\* An update keeps the row's table and id, so what references it still does.
LEMMA UpdatePackage == PackageIInv /\ UpdateRow => PackageIInv'
<1> SUFFICES ASSUME PackageIInv, UpdateRow PROVE PackageIInv'
  OBVIOUS
<1>1. PICK row \in source : \E new \in RowsOfTable(row.table) :
        new.id = row.id /\ source' = (source \ {row}) \cup {new} /\ Resolved(new, source')
  BY DEF UpdateRow
<1>2. PICK new \in RowsOfTable(row.table) :
        new.id = row.id /\ source' = (source \ {row}) \cup {new} /\ Resolved(new, source')
  BY <1>1
<1>3. Write /\ files' = files
  BY DEF UpdateRow
<1>4. row.table \in Tables /\ new.table = row.table
  BY RowFields DEF PackageIInv, SourceInv
<1>5. \A r : RowsOfTable(r)' = RowsOfTable(r)
  BY <1>3, SameScenario DEF Write
<1>6. \A u, id : HasRow(source, u, id) => HasRow(source', u, id)
  BY <1>2, <1>4 DEF HasRow
<1>7. \A r \in source' : r.table \in Tables /\ r \in RowsOfTable(r.table)'
  BY <1>2, <1>4, <1>5 DEF PackageIInv, SourceInv
<1>8. \A r, s \in source' : r.table = s.table /\ r.id = s.id => r = s
  BY <1>2, <1>4 DEF PackageIInv, SourceInv
<1>9. \A r \in source' : Resolved(r, source')
  BY <1>2, <1>6, ResolvedGrows DEF PackageIInv, SourceInv
<1>10. SourceInv'
  BY <1>7, <1>8, <1>9 DEF SourceInv, Resolved, HasRow
<1>11. files' \in [FileNames -> Files]
  BY <1>3 DEF PackageIInv, PackageStageInv
<1> QED
  BY <1>3, <1>10, <1>11, WritePackage DEF PackageIInv

\* A row that is deleted is referenced by none.
LEMMA DeletePackage == PackageIInv /\ DeleteRow => PackageIInv'
<1> SUFFICES ASSUME PackageIInv, DeleteRow PROVE PackageIInv'
  OBVIOUS
<1>1. source' \subseteq source /\ \A other \in source' : Resolved(other, source')
  BY DEF DeleteRow
<1>2. Write /\ files' = files
  BY DEF DeleteRow
<1>3. \A r : RowsOfTable(r)' = RowsOfTable(r)
  BY <1>2, SameScenario DEF Write
<1>4. SourceInv'
  BY <1>1, <1>3 DEF PackageIInv, SourceInv, Resolved, HasRow
<1>5. files' \in [FileNames -> Files]
  BY <1>2 DEF PackageIInv, PackageStageInv
<1> QED
  BY <1>2, <1>4, <1>5, WritePackage DEF PackageIInv

\* A file that is replaced concerns no row.
LEMMA ReplacePackage == PackageIInv /\ ReplaceFile => PackageIInv'
<1> SUFFICES ASSUME PackageIInv, ReplaceFile PROVE PackageIInv'
  OBVIOUS
<1>1. Write /\ source' = source /\ files' \in [FileNames -> Files]
  <2>1. PICK f \in FileNames, s \in Sums : files' = [files EXCEPT ![f] = [sum |-> s, object |-> s]]
    BY DEF ReplaceFile
  <2>2. [sum |-> s, object |-> s] \in Files
    BY DEF Files
  <2> QED
    BY <2>1, <2>2 DEF ReplaceFile, PackageIInv, PackageStageInv
<1>2. \A r : RowsOfTable(r)' = RowsOfTable(r)
  BY <1>1, SameScenario DEF Write
<1>3. SourceInv'
  BY <1>1, <1>2 DEF PackageIInv, SourceInv, Resolved, HasRow
<1> QED
  BY <1>1, <1>3, WritePackage DEF PackageIInv

\* What the export does leaves the organization's rows alone.
LEMMA SameSource == SourceInv /\ UNCHANGED <<scenario, source>> => SourceInv'
<1> SUFFICES ASSUME SourceInv, UNCHANGED <<scenario, source>> PROVE SourceInv'
  OBVIOUS
<1>1. \A r : RowsOfTable(r)' = RowsOfTable(r)
  BY SameScenario
<1> QED
  BY <1>1 DEF SourceInv, Resolved, HasRow

\* And most of it leaves the rows in the package alone.
LEMMA SameCsv == CsvInv /\ UNCHANGED <<scenario, source, package, wroteDuring>> => CsvInv'
<1> SUFFICES ASSUME CsvInv, UNCHANGED <<scenario, source, package, wroteDuring>> PROVE CsvInv'
  OBVIOUS
<1>1. \A t : PackagedRowsOf(t)' = PackagedRowsOf(t)
  BY SameScenario
<1>2. PackagedRows' = PackagedRows
  BY SameScenario
<1>3. \A t : CsvOf(t)' = CsvOf(t)
  BY DEF CsvOf
<1> QED
  BY <1>1, <1>2, <1>3 DEF CsvInv

\* The next table.
LEMMA ExportTablePackage == PackageIInv /\ ExportTable => PackageIInv'
<1> SUFFICES ASSUME PackageIInv, ExportTable PROVE PackageIInv'
  OBVIOUS
<1> USE DEF PackageIInv, ExportTable
<1> DEFINE n == Len(package) + 1
           t == TableOrder[n]
<1>1. package \in Seq(SUBSET PackagedRows) /\ n \in 1..Len(TableOrder) /\ t \in Tables
  <2>1. package \in Seq(SUBSET PackagedRows) /\ Len(package) \in Nat
    BY DEF CsvInv
  <2>2. n \in 1..Len(TableOrder)
    BY <2>1, TablesFacts
  <2> QED
    BY <2>1, <2>2, TablesFacts
<1>2. /\ CsvOf(t) \subseteq PackagedRowsOf(t) /\ CsvOf(t) \subseteq PackagedRows
      /\ \A r, s \in CsvOf(t) : r.id = s.id => r = s
  <2> HIDE DEF t
  <2> QED
    BY <1>1, CsvFacts
<1>3. package' = Append(package, CsvOf(t))
  OBVIOUS
<1> HIDE DEF t
<1>4. /\ package' \in Seq(SUBSET PackagedRows) /\ Len(package') = n
      /\ \A i \in DOMAIN package' : \/ i \in DOMAIN package /\ package'[i] = package[i]
                                    \/ i = n /\ package'[i] = CsvOf(t)
  BY <1>1, <1>2, <1>3
<1>5. \A i : PackagedRowsOf(i)' = PackagedRowsOf(i)
  BY SameScenario
<1>6. PackagedRows' = PackagedRows
  BY SameScenario
<1>7. \A i : CsvOf(i)' = CsvOf(i)
  BY DEF CsvOf
<1>8. \A i \in DOMAIN package' : /\ package'[i] \subseteq PackagedRowsOf(TableOrder[i])'
                                 /\ \A r, s \in package'[i] : r.id = s.id => r = s
  <2> TAKE i \in DOMAIN package'
  <2>1. CASE i \in DOMAIN package /\ package'[i] = package[i]
    BY <1>5, <2>1 DEF CsvInv
  <2>2. CASE i = n /\ package'[i] = CsvOf(t)
    <3>1. package'[i] \subseteq PackagedRowsOf(TableOrder[i])
      BY <1>2, <2>2 DEF t
    <3> QED
      BY <1>2, <1>5, <2>2, <3>1
  <2> QED
    BY <1>4, <2>1, <2>2
<1>9. ~wroteDuring => \A i \in DOMAIN package' : package'[i] = CsvOf(TableOrder[i])'
  <2> SUFFICES ASSUME ~wroteDuring, NEW i \in DOMAIN package' PROVE package'[i] = CsvOf(TableOrder[i])
    BY <1>7
  <2>1. CASE i \in DOMAIN package /\ package'[i] = package[i]
    BY <2>1 DEF CsvInv
  <2>2. CASE i = n /\ package'[i] = CsvOf(t)
    BY <2>2 DEF t
  <2> QED
    BY <1>4, <2>1, <2>2
<1>10. Len(package') <= Len(TableOrder)
  BY <1>1, <1>4
<1>11. CsvInv'
  BY <1>4, <1>6, <1>8, <1>9, <1>10 DEF CsvInv
<1>12. PackageStageInv'
  BY DEF PackageStageInv, FilesMatch
<1> QED
  BY <1>11, <1>12, SameSource

\* The files.
LEMMA ListFilesPackage == PackageIInv /\ ListFiles => PackageIInv'
<1> SUFFICES ASSUME PackageIInv, ListFiles PROVE PackageIInv'
  OBVIOUS
<1> USE DEF PackageIInv, ListFiles
<1>1. stage' \in {"files", "packed"} /\ Len(package') = Len(TableOrder)
  OBVIOUS
<1>2. FilesMatch'
  <2>1. packed = <<>>
    BY DEF PackageStageInv
  <2>2. DOMAIN packed' = {}
    BY <2>1
  <2> QED
    BY <2>2 DEF FilesMatch
<1>3. PackageStageInv'
  BY <1>1, <1>2 DEF PackageStageInv
<1> QED
  BY <1>3, SameSource, SameCsv

\* A file goes into the archive under its checksum.
LEMMA ExportFilePackage == PackageIInv /\ ExportFile => PackageIInv'
<1> SUFFICES ASSUME PackageIInv, ExportFile PROVE PackageIInv'
  OBVIOUS
<1> USE DEF PackageIInv, ExportFile
<1>1. stage = "files" /\ stage' \in {"files", "packed"} /\ Len(package) = Len(TableOrder)
  BY DEF PackageStageInv
<1>2. PICK f \in FileNames :
        /\ Readable(f)
        /\ packed' = [g \in DOMAIN packed \cup {f} |-> IF g = f THEN ContentRef(f) ELSE packed[g]]
  OBVIOUS
<1>5. ContentRef(f) = listed[f].sum
  <2>1. CASE Archived(f)
    <3>1. PICK g \in DOMAIN packed : g = CHOOSE h \in DOMAIN packed : listed[h].sum = listed[f].sum
      BY <2>1 DEF Archived
    <3>2. listed[g].sum = listed[f].sum
      BY <2>1, <3>1 DEF Archived
    <3>3. ContentRef(f) = packed[g]
      BY <2>1, <3>1 DEF ContentRef
    <3> QED
      BY <3>2, <3>3 DEF PackageStageInv, FilesMatch
  <2>2. CASE ~Archived(f)
    BY <1>2, <2>2 DEF Readable, ContentRef
  <2> QED
    BY <2>1, <2>2
<1>3. FilesMatch' /\ DOMAIN packed' \subseteq FileNames
  BY <1>2, <1>5 DEF PackageStageInv, FilesMatch
<1>4. PackageStageInv'
  BY <1>1, <1>3 DEF PackageStageInv
<1> QED
  BY <1>4, SameSource, SameCsv

\* An export that fails leaves everything as it was.
LEMMA ExportFailsPackage == PackageIInv /\ ExportFails => PackageIInv'
<1> SUFFICES ASSUME PackageIInv, ExportFails PROVE PackageIInv'
  OBVIOUS
<1> USE DEF PackageIInv, ExportFails
<1>1. PackageStageInv'
  BY DEF PackageStageInv, FilesMatch
<1> QED
  BY <1>1, SameSource, SameCsv

\* A row in the package, field by field.
LEMMA PackagedFields ==
  ASSUME CsvInv, NEW row \in Packaged
  PROVE  /\ row.table \in Tables /\ row.id \in Nat /\ row.value \in PackagedValues
         /\ row.ref \in [Refs(row.table) -> RowIds \cup {0}]
         /\ \A t \in DOMAIN row.ref : row.ref[t] \in Nat
         /\ row = [id |-> row.id, table |-> row.table, ref |-> row.ref, value |-> row.value]
         /\ New(row) = [id |-> row.id, table |-> row.table, ref |-> row.ref,
                        value |-> Converted(row.value)]
<1>1. PICK i \in DOMAIN package : row \in package[i]
  BY DEF Packaged
<1>2. row \in PackagedRowsOf(TableOrder[i])
  BY <1>1 DEF CsvInv
<1>3. i \in 1..Len(TableOrder)
  <2>1. package \in Seq(SUBSET PackagedRows) /\ Len(package) <= Len(TableOrder)
    BY DEF CsvInv
  <2> QED
    BY <1>1, <2>1, TablesFacts
<1>4. TableOrder[i] \in Tables
  BY <1>3, TablesFacts
<1>5. RowIds \subseteq Nat
  BY PackageAssumption
<1>6. /\ row.id \in RowIds /\ row.table = TableOrder[i] /\ row.value \in PackagedValues
      /\ row.ref \in [Refs(TableOrder[i]) -> RowIds \cup {0}]
      /\ row = [id |-> row.id, table |-> row.table, ref |-> row.ref, value |-> row.value]
  BY <1>2 DEF PackagedRowsOf
<1>7. \A t \in DOMAIN row.ref : row.ref[t] \in Nat
  BY <1>5, <1>6
<1>8. New(row) = [id |-> row.id, table |-> row.table, ref |-> row.ref, value |-> Converted(row.value)]
  BY <1>6 DEF New
<1> QED
  BY <1>4, <1>5, <1>6, <1>7, <1>8

\* No two rows of a table have one id.
LEMMA PackagedOnce ==
  ASSUME CsvInv, NEW r \in Packaged, NEW s \in Packaged, r.table = s.table, r.id = s.id
  PROVE  r = s
<1>1. PICK i \in DOMAIN package : r \in package[i]
  BY DEF Packaged
<1>2. PICK j \in DOMAIN package : s \in package[j]
  BY DEF Packaged
<1>3. TableOrder[i] = r.table /\ TableOrder[j] = s.table
  BY <1>1, <1>2 DEF CsvInv, PackagedRowsOf
<1>4. i \in DOMAIN TableOrder /\ j \in DOMAIN TableOrder
  <2>1. package \in Seq(SUBSET PackagedRows) /\ Len(package) <= Len(TableOrder)
    BY DEF CsvInv
  <2> QED
    BY <2>1, PackageAssumption
<1>5. i = j
  BY <1>3, <1>4, PackageAssumption
<1> QED
  BY <1>1, <1>2, <1>5 DEF CsvInv

\* Every row of the package can go in, whatever went in before it.
Lawful(row) ==
  /\ ~ \E t \in DOMAIN row.ref : t = row.table /\ row.ref[t] > row.id
  /\ Resolved(row, Packaged)
  /\ row.value \notin Refusing
  /\ ~(New(row).value = "null" /\ DataColumn[row.table].required)
  /\ DataColumn[row.table].unique /\ New(row).value # "null" =>
       \A r \in Packaged : r.table = row.table /\ New(r).value = New(row).value => r.id = row.id

\* What a restore accepts, apart from a circle of tables.
LEMMA RefusableFacts ==
  ASSUME CsvInv
  PROVE  (Torn \/ Forward \/ Unreadable \/ Emptied \/ Colliding) <=> \E row \in Packaged : ~Lawful(row)
<1>1. (Torn \/ Forward \/ Unreadable \/ Emptied) <=>
        \E row \in Packaged :
          \/ \E t \in DOMAIN row.ref : t = row.table /\ row.ref[t] > row.id
          \/ ~Resolved(row, Packaged) \/ row.value \in Refusing
          \/ New(row).value = "null" /\ DataColumn[row.table].required
  BY DEF Torn, Forward, Unreadable, Emptied
<1>2. Colliding <=>
        \E row \in Packaged :
          /\ DataColumn[row.table].unique /\ New(row).value # "null"
          /\ \E r \in Packaged : r.table = row.table /\ New(r).value = New(row).value /\ r.id # row.id
  <2>1. PICK c : c = [row \in Packaged |-> New(row).value]
    OBVIOUS
  <2>2. \A row \in Packaged : c[row] = New(row).value
    BY <2>1
  <2> QED
    BY <2>2, Zenon DEF Colliding
<1> QED
  BY <1>1, <1>2 DEF Lawful

\* A row that follows those of a package, field by field, once converted.
LEMMA NewFacts ==
  ASSUME CsvInv, NEW row \in Packaged
  PROVE  /\ New(row).id = row.id /\ New(row).table = row.table /\ New(row).ref = row.ref
         /\ New(row).value = Converted(row.value)
         /\ New(row).value = "error" <=> row.value \in Refusing
<1>1. /\ row.value \in PackagedValues
      /\ New(row) = [id |-> row.id, table |-> row.table, ref |-> row.ref,
                     value |-> Converted(row.value)]
  BY PackagedFields
<1>2. Converted(row.value) = "error" <=> row.value \in Refusing
  BY <1>1 DEF PackagedValues, Converted, Refusing
<1> QED
  BY <1>1, <1>2

\* What is restored, exactly.
LEMMA RestoredExactly ==
  ASSUME CsvInv, scenario \in Scenarios
  PROVE  RestoreSucceeds <=> ~Refusable
<1>1. PICK order : order = TopologicalOrder
  OBVIOUS
<1>2. /\ RestoreSucceeds <=> Orderable /\ \A row \in Packaged : Inserts(order, row)
      /\ Orderable <=> ~ \E set \in (SUBSET Tables) \ {{}} : Circle(set)
  BY <1>1, OrderFacts DEF RestoreSucceeds, Orderable
<1>3. ASSUME Orderable, NEW t \in Tables PROVE Place(order, t) \in Nat
  BY <1>1, <1>3, OrderFacts
<1>4. ASSUME NEW row \in Packaged, NEW t, NEW id
      PROVE  HasRow({New(r) : r \in {x \in Packaged : Before(order, x, row)}} \cup {New(row)}, t, id) <=>
               \E r \in Packaged : r.table = t /\ r.id = id /\ (Before(order, r, row) \/ r = row)
  BY NewFacts DEF HasRow
<1>5. ASSUME Orderable, NEW row \in Packaged, Inserts(order, row)
      PROVE  /\ ~ \E t \in DOMAIN row.ref : t = row.table /\ row.ref[t] > row.id
             /\ Resolved(row, Packaged)
             /\ row.value \notin Refusing
             /\ ~(New(row).value = "null" /\ DataColumn[row.table].required)
  <2>1. row.id \in Nat /\ row.table \in Tables /\ \A t \in DOMAIN row.ref : row.ref[t] \in Nat
    BY PackagedFields
  <2>2. New(row).ref = row.ref /\ New(row).table = row.table /\ row.value \notin Refusing
    BY <1>5, NewFacts DEF Inserts
  <2>3. ~(New(row).value = "null" /\ DataColumn[row.table].required)
    BY <1>5, <2>2 DEF Inserts, Allowed
  <2>4. \A t \in DOMAIN row.ref : row.ref[t] = 0 \/
          \E r \in Packaged : r.table = t /\ r.id = row.ref[t] /\ (Before(order, r, row) \/ r = row)
    <3>1. PICK new : new = New(row)
      OBVIOUS
    <3>2. PICK set : set = {New(r) : r \in {x \in Packaged : Before(order, x, row)}} \cup {New(row)}
      OBVIOUS
    <3>3. Resolved(new, set)
      BY <1>5, <3>1, <3>2, Zenon DEF Inserts
    <3>4. \A t \in DOMAIN row.ref : row.ref[t] = 0 \/ HasRow(set, t, row.ref[t])
      BY <2>2, <3>1, <3>3 DEF Resolved
    <3>5. \A t, id : HasRow(set, t, id) =>
            \E r \in Packaged : r.table = t /\ r.id = id /\ (Before(order, r, row) \/ r = row)
      <4>1. ASSUME NEW t, NEW id, HasRow(set, t, id)
            PROVE  \E r \in Packaged : r.table = t /\ r.id = id /\ (Before(order, r, row) \/ r = row)
        <5>1. HasRow({New(r) : r \in {x \in Packaged : Before(order, x, row)}} \cup {New(row)}, t, id)
          BY <3>2, <4>1, Zenon
        <5> QED
          BY <1>4, <5>1
      <4> QED
        BY <4>1, Zenon
    <3> QED
      BY <3>4, <3>5, Zenon
  <2>5. Resolved(row, Packaged)
    BY <2>4 DEF Resolved, HasRow
  <2>6. ASSUME NEW t \in DOMAIN row.ref, t = row.table, row.ref[t] > row.id PROVE FALSE
    <3>1. PICK r \in Packaged : r.table = t /\ r.id = row.ref[t] /\ (Before(order, r, row) \/ r = row)
      BY <2>1, <2>4, <2>6
    <3>2. ~(r.id < row.id) /\ r # row
      BY <2>1, <2>6, <3>1
    <3>3. Place(order, t) < Place(order, t)
      BY <2>6, <3>1, <3>2 DEF Before
    <3>4. Place(order, t) \in Nat
      BY <1>3, <1>5, <2>1, <2>6
    <3> QED
      BY <3>3, <3>4
  <2> QED
    BY <2>2, <2>3, <2>5, <2>6
<1>6. ASSUME Orderable, NEW row \in Packaged, NEW r \in Packaged,
             r.table = row.table, r.id # row.id
      PROVE  Before(order, r, row) \/ Before(order, row, r)
  <2>1. r.id \in Nat /\ row.id \in Nat
    BY PackagedFields
  <2> QED
    BY <1>6, <2>1 DEF Before
<1>7. ASSUME NEW row \in Packaged, NEW r \in Packaged, Inserts(order, row), Before(order, r, row),
             DataColumn[row.table].unique, New(row).value # "null",
             r.table = row.table, New(r).value = New(row).value
      PROVE  r.id = row.id
  <2> DEFINE earlier == {New(x) : x \in {y \in Packaged : Before(order, y, row)}}
  <2>1. New(row).table = row.table /\ New(row).id = row.id /\ New(r).table = r.table /\ New(r).id = r.id
    BY NewFacts
  <2>2. Allowed(New(row), earlier) /\ New(r) \in earlier
    BY <1>7 DEF Inserts
  <2> HIDE DEF earlier
  <2> QED
    BY <1>7, <2>1, <2>2 DEF Allowed
<1>8. ASSUME RestoreSucceeds, Refusable PROVE FALSE
  <2>1. Orderable /\ \A row \in Packaged : Inserts(order, row)
    BY <1>2, <1>8
  <2>2. ASSUME NEW row \in Packaged, NEW r \in Packaged,
               DataColumn[row.table].unique, New(row).value # "null",
               r.table = row.table, New(r).value = New(row).value
        PROVE  r.id = row.id
    <3>1. CASE Before(order, r, row)
      BY <1>7, <2>1, <2>2, <3>1
    <3>2. CASE Before(order, row, r)
      <4>1. DataColumn[r.table].unique /\ New(r).value # "null"
        BY <2>2
      <4> QED
        BY <1>7, <2>1, <2>2, <3>2, <4>1
    <3> QED
      BY <1>6, <2>1, <2>2, <3>1, <3>2
  <2>3. \A row \in Packaged : Lawful(row)
    BY <1>5, <2>1, <2>2 DEF Lawful
  <2> QED
    BY <1>2, <1>8, <2>3, RefusableFacts DEF Refusable
<1>9. ASSUME Orderable, NEW row \in Packaged, Lawful(row) PROVE Inserts(order, row)
  <2> DEFINE earlier == {New(x) : x \in {y \in Packaged : Before(order, y, row)}}
  <2>1. /\ row.id \in Nat /\ \A t \in DOMAIN row.ref : row.ref[t] \in Nat
        /\ row.ref \in [Refs(row.table) -> RowIds \cup {0}]
    BY PackagedFields
  <2>2. New(row).ref = row.ref /\ New(row).table = row.table /\ New(row).id = row.id
    BY NewFacts
  <2>3. New(row).value # "error"
    BY <1>9, NewFacts DEF Lawful
  <2>4. Allowed(New(row), earlier)
    <3>1. New(row).value # "null" \/ ~DataColumn[row.table].required
      BY <1>9 DEF Lawful
    <3>2. ASSUME DataColumn[row.table].unique, New(row).value # "null", NEW other \in earlier,
                 other.table = row.table, other.value = New(row).value
          PROVE  other.id = row.id
      <4>1. PICK r \in Packaged : other = New(r)
        OBVIOUS
      <4>2. r.table = row.table /\ New(r).value = New(row).value /\ other.id = r.id
        BY <3>2, <4>1, NewFacts
      <4> QED
        BY <1>9, <3>2, <4>2 DEF Lawful
    <3> HIDE DEF earlier
    <3> QED
      BY <2>2, <3>1, <3>2 DEF Allowed
  <2>5. ASSUME NEW t \in DOMAIN row.ref, row.ref[t] # 0
        PROVE  \E r \in Packaged : r.table = t /\ r.id = row.ref[t] /\ (Before(order, r, row) \/ r = row)
    <3>1. PICK r \in Packaged : r.table = t /\ r.id = row.ref[t]
      BY <1>9, <2>5 DEF Lawful, Resolved, HasRow
    <3>2. r.id \in Nat
      BY PackagedFields
    <3>3. CASE t = row.table /\ r.id = row.id
      BY <2>1, <3>1, <3>3, PackagedOnce
    <3>4. CASE t = row.table /\ r.id # row.id
      <4>1. ~(row.ref[t] > row.id)
        BY <1>9, <3>4 DEF Lawful
      <4>2. r.id < row.id
        BY <2>1, <3>1, <3>2, <3>4, <4>1
      <4> QED
        BY <3>1, <3>4, <4>2 DEF Before
    <3>5. CASE t # row.table
      <4>1. t \in Refs(row.table)
        BY <2>1
      <4>2. <<row.table, t>> \in scenario.keys
        BY <4>1, DepsFacts
      <4>3. Place(order, t) < Place(order, row.table)
        BY <1>1, <1>9, <3>5, <4>2, OrderFacts
      <4> QED
        BY <3>1, <4>3 DEF Before
    <3> QED
      BY <3>3, <3>4, <3>5
  <2>6. Resolved(New(row), earlier \cup {New(row)})
    <3>1. \A t \in DOMAIN row.ref : row.ref[t] = 0 \/ HasRow(earlier \cup {New(row)}, t, row.ref[t])
      BY <1>4, <2>5
    <3> HIDE DEF earlier
    <3> QED
      BY <2>2, <3>1 DEF Resolved
  <2> QED
    BY <2>3, <2>4, <2>6 DEF Inserts
<1>10. ASSUME ~Refusable PROVE RestoreSucceeds
  <2>1. Orderable
    BY <1>2, <1>10 DEF Refusable
  <2>2. \A row \in Packaged : Lawful(row)
    BY <1>10, RefusableFacts DEF Refusable
  <2> QED
    BY <1>2, <1>9, <2>1, <2>2
<1> QED
  BY <1>8, <1>10

\* What a restore refuses hangs on the scenario and the package.
LEMMA SameRefusable ==
  UNCHANGED <<scenario, package>> => Refusable' = Refusable /\ Packaged' = Packaged
<1> SUFFICES ASSUME UNCHANGED <<scenario, package>> PROVE Refusable' = Refusable /\ Packaged' = Packaged
  OBVIOUS
<1>1. Packaged' = Packaged
  BY DEF Packaged
<1>2. \A set : Circle(set)' <=> Circle(set)
  BY DEF Circle
<1>3. Torn' <=> Torn
  BY <1>1 DEF Torn, Resolved, HasRow
<1>4. (Forward' <=> Forward) /\ (Unreadable' <=> Unreadable)
  BY <1>1 DEF Forward, Unreadable
<1>5. (Emptied' <=> Emptied) /\ (Colliding' <=> Colliding)
  BY <1>1 DEF Emptied, Colliding, New
<1> QED
  BY <1>1, <1>2, <1>3, <1>4, <1>5 DEF Refusable

\* The restore.
LEMMA RestorePackage == PackageIInv /\ Restore => PackageIInv'
<1> SUFFICES ASSUME PackageIInv, Restore PROVE PackageIInv'
  OBVIOUS
<1> USE DEF PackageIInv, Restore
<1>1. (Refusable' <=> Refusable) /\ Packaged' = Packaged
  BY SameRefusable
<1>2. RestoreSucceeds <=> ~Refusable
  BY RestoredExactly DEF PackageStageInv
<1>3. stage = "packed" /\ Len(package) = Len(TableOrder)
  BY DEF PackageStageInv
<1>4. CASE RestoreSucceeds
  <2>1. stage' = "restored" /\ ~Refusable' /\ restored' = {New(row) : row \in Packaged}
    BY <1>1, <1>2, <1>4
  <2>2. restored' = {New(row)' : row \in Packaged'}
    BY <1>1, <2>1 DEF New
  <2>3. PackageStageInv'
    BY <1>3, <2>1, <2>2 DEF PackageStageInv, FilesMatch
  <2> QED
    BY <2>3, SameSource, SameCsv
<1>5. CASE ~RestoreSucceeds
  <2>1. stage' = "refused" /\ Refusable'
    BY <1>1, <1>2, <1>5
  <2>2. PackageStageInv'
    BY <1>3, <2>1 DEF PackageStageInv, FilesMatch
  <2> QED
    BY <2>2, SameSource, SameCsv
<1> QED
  BY <1>4, <1>5

\* Every step.
LEMMA NextPackage == PackageIInv /\ [PackageNext]_packageVars => PackageIInv'
<1>1. ASSUME PackageIInv, UNCHANGED packageVars PROVE PackageIInv'
  <2> USE <1>1 DEF PackageIInv, packageVars
  <2>1. (Refusable' <=> Refusable) /\ Packaged' = Packaged
    BY SameRefusable
  <2>2. PackageStageInv'
    BY <2>1 DEF PackageStageInv, FilesMatch
  <2> QED
    BY <2>2, SameSource, SameCsv
<1> QED
  BY <1>1, InsertPackage, UpdatePackage, DeletePackage, ReplacePackage, ExportTablePackage,
     ListFilesPackage, ExportFilePackage, ExportFailsPackage, RestorePackage DEF PackageNext

\* For every set of tables and foreign keys among them: the tables are put in
\* order exactly when they have no circle, and a package is refused exactly for
\* the reasons named, collisions of converted values in a UNIQUE column among them.
THEOREM PackagesRestoreExactly == PackageSpec => []RestoresExactly
<1>1. PackageIInv => OrderIsTopological
  <2> SUFFICES ASSUME PackageIInv PROVE OrderIsTopological
    OBVIOUS
  <2>1. scenario \in Scenarios
    BY DEF PackageIInv, PackageStageInv
  <2>2. \A k \in scenario.keys : k = <<k[1], k[2]>>
    BY <2>1, PackageAssumption
  <2>3. \A set : Circle(set) <=> \A t \in set : \E u \in set : u # t /\ <<t, u>> \in scenario.keys
    BY DEF Circle
  <2>4. Orderable <=> ~ \E set \in (SUBSET Tables) \ {{}} : Circle(set)
    BY <2>1, OrderFacts
  <2>5. Orderable => \A k \in scenario.keys :
          k[1] # k[2] => Place(TopologicalOrder, k[2]) < Place(TopologicalOrder, k[1])
    BY <2>1, <2>2, OrderFacts
  <2> QED
    BY <2>3, <2>4, <2>5 DEF OrderIsTopological
<1>2. PackageIInv => RefusedExactlyWhen
  <2> SUFFICES ASSUME PackageIInv PROVE RefusedExactlyWhen
    OBVIOUS
  <2>1. Circular <=> \E set \in (SUBSET Tables) \ {{}} : Circle(set)
    BY OrderFacts DEF PackageIInv, PackageStageInv, Circular
  <2> QED
    BY <2>1 DEF PackageIInv, PackageStageInv, RefusedExactlyWhen, Refusable
<1>3. PackageIInv => RestoresExactly
  BY <1>1, <1>2 DEF RestoresExactly
<1> QED
  BY <1>3, InitPackage, NextPackage, PTL DEF PackageSpec

\* The rows of the organization and those in its package, when nobody wrote.
LEMMA Copies ==
  ASSUME PackageIInv, Len(package) = Len(TableOrder), ~wroteDuring
  PROVE  /\ \A x \in Packaged : \E r \in source : x = [r EXCEPT !.value = Written(r.value)]
         /\ \A r \in source : [r EXCEPT !.value = Written(r.value)] \in Packaged
<1>1. DOMAIN package = 1..Len(TableOrder) /\ \A i \in DOMAIN package : package[i] = CsvOf(TableOrder[i])
  BY DEF PackageIInv, CsvInv
<1>2. ASSUME NEW x \in Packaged
      PROVE  \E r \in source : x = [r EXCEPT !.value = Written(r.value)]
  BY <1>1 DEF Packaged, CsvOf
<1>3. ASSUME NEW r \in source PROVE [r EXCEPT !.value = Written(r.value)] \in Packaged
  <2>1. r.table \in Tables
    BY DEF PackageIInv, SourceInv
  <2>2. PICK i \in 1..Len(TableOrder) : TableOrder[i] = r.table
    BY <2>1, PackageAssumption DEF Tables, Range
  <2>3. [r EXCEPT !.value = Written(r.value)] \in package[i]
    BY <1>1, <2>2 DEF CsvOf
  <2> QED
    BY <1>1, <2>2, <2>3 DEF Packaged
<1> QED
  BY <1>2, <1>3

\* A row of the organization, its copy and what the copy is restored as.
LEMMA CopyFields ==
  ASSUME SourceInv, NEW r \in source, NEW x, x = [r EXCEPT !.value = Written(r.value)]
  PROVE  /\ x.table = r.table /\ x.id = r.id /\ x.ref = r.ref /\ x.value = Written(r.value)
         /\ x.value \notin Refusing =>
              New(x) = [r EXCEPT !.value = Faithful(r.value)]
<1>1. /\ r.table \in Tables /\ r.value \in SourceValues
      /\ \A v : [r EXCEPT !.value = v] =
                  [id |-> r.id, table |-> r.table, ref |-> r.ref, value |-> v]
  BY RowFields DEF SourceInv
<1>2. x = [id |-> r.id, table |-> r.table, ref |-> r.ref, value |-> Written(r.value)]
  BY <1>1
<1>3. New(x) = [id |-> r.id, table |-> r.table, ref |-> r.ref, value |-> Converted(Written(r.value))]
  <2>1. PICK c : c = Converted(x.value)
    OBVIOUS
  <2>2. x.value = Written(r.value)
    BY <1>2
  <2>3. PICK copy : copy = [id |-> r.id, table |-> r.table, ref |-> r.ref, value |-> Written(r.value)]
    OBVIOUS
  <2>4. [copy EXCEPT !.value = c] = [id |-> r.id, table |-> r.table, ref |-> r.ref, value |-> c]
    BY <2>3
  <2>5. copy = x
    BY <1>2, <2>3, Zenon
  <2>6. New(x) = [x EXCEPT !.value = c]
    BY <2>1, Zenon DEF New
  <2> QED
    BY <2>1, <2>2, <2>4, <2>5, <2>6, Zenon
<1>4. ASSUME x.value \notin Refusing PROVE Converted(Written(r.value)) = Faithful(r.value)
  <2>1. Written(r.value) \notin Refusing
    BY <1>2, <1>4
  <2> QED
    BY <1>1, <2>1 DEF SourceValues, PackagedValues, Refusing, Written, Converted, Faithful
<1> QED
  BY <1>1, <1>2, <1>3, <1>4

\* For every organization and every sequence of writes during an export: its
\* package and what is restored from it are faithful.
THEOREM PackagesAlwaysFaithful == PackageSpec => []PackageIsFaithful
<1>1. PackageIInv => PackageTypeOK
  <2> SUFFICES ASSUME PackageIInv PROVE PackageTypeOK
    OBVIOUS
  <2>1. ASSUME NEW r \in Packaged, NEW s \in Packaged, r.table = s.table, r.id = s.id PROVE r = s
    BY <2>1, PackagedOnce DEF PackageIInv
  <2>2. \A r \in Packaged : r.value # "null"
    BY PackagedFields DEF PackageIInv, PackagedValues
  <2> QED
    BY <2>1, <2>2 DEF PackageIInv, PackageStageInv, CsvInv, PackageTypeOK
<1>2. PackageIInv => PackageIsWhole
  <2> SUFFICES ASSUME PackageIInv, Len(package) = Len(TableOrder), ~wroteDuring
               PROVE  /\ {<<r.table, r.id>> : r \in Packaged} = {<<r.table, r.id>> : r \in source}
                      /\ \A row \in Packaged : Resolved(row, Packaged)
    BY DEF PackageIsWhole
  <2>1. \A x \in Packaged : \E r \in source : x.table = r.table /\ x.id = r.id /\ x.ref = r.ref
    BY Copies, CopyFields DEF PackageIInv
  <2>2. \A r \in source : \E x \in Packaged : x.table = r.table /\ x.id = r.id
    BY Copies, CopyFields DEF PackageIInv
  <2>3. {<<r.table, r.id>> : r \in Packaged} = {<<r.table, r.id>> : r \in source}
    BY <2>1, <2>2
  <2>4. \A t, id : HasRow(source, t, id) => HasRow(Packaged, t, id)
    BY <2>2 DEF HasRow
  <2>5. \A row \in Packaged : Resolved(row, Packaged)
    BY <2>1, <2>4 DEF PackageIInv, SourceInv, Resolved
  <2> QED
    BY <2>3, <2>5
<1>3. PackageIInv => RestoredFaithfully
  <2> SUFFICES ASSUME PackageIInv, stage = "restored", ~wroteDuring
               PROVE  restored = {[row EXCEPT !.value = Faithful(row.value)] : row \in source}
    BY DEF RestoredFaithfully
  <2>1. Len(package) = Len(TableOrder) /\ restored = {New(x) : x \in Packaged} /\ ~Unreadable
    BY DEF PackageIInv, PackageStageInv, Refusable
  <2>2. \A x \in Packaged : x.value \notin Refusing
    BY <2>1 DEF Unreadable
  <2>3. ASSUME NEW x \in Packaged
        PROVE  \E r \in source : New(x) = [r EXCEPT !.value = Faithful(r.value)]
    BY <2>1, <2>2, Copies, CopyFields DEF PackageIInv
  <2>4. ASSUME NEW r \in source
        PROVE  \E x \in Packaged : New(x) = [r EXCEPT !.value = Faithful(r.value)]
    BY <2>1, <2>2, Copies, CopyFields DEF PackageIInv
  <2> QED
    BY <2>1, <2>3, <2>4
<1>4. PackageIInv => PackageIsFaithful
  BY <1>1, <1>2, <1>3 DEF PackageIInv, PackageStageInv, PackageIsFaithful
<1> QED
  BY <1>4, InitPackage, NextPackage, PTL DEF PackageSpec
=============================================================================
