------------------------------ MODULE RowLedger ------------------------------
(***************************************************************************)
(* What an import promises, without processes, retries or checkpoints:     *)
(* the rows of the file that can be inserted enter the table once each and *)
(* in file order; a published position covers only rows already in the     *)
(* table; the outcome is decided once, and COMPLETED only at the end of    *)
(* the file.                                                               *)
(***************************************************************************)
EXTENDS Naturals

CONSTANT NumRows

VARIABLES
  bad,        \* the rows that cannot be inserted
  table,      \* row number -> copies of it in the table
  published,  \* the position clients see and a retry resumes from
  outcome     \* "open", then "completed" or "failed"

ledgerVars == <<bad, table, published, outcome>>

Landed(n) == \A r \in 1..n : r \in bad \/ table[r] = 1

Init ==
  /\ bad \in SUBSET (1..NumRows)
  /\ table = [r \in 1..NumRows |-> 0]
  /\ published = 0
  /\ outcome = "open"

Insert(r) ==
  /\ outcome = "open"
  /\ r \notin bad /\ table[r] = 0
  /\ Landed(r - 1)
  /\ table' = [table EXCEPT ![r] = 1]
  /\ UNCHANGED <<bad, published, outcome>>

Publish ==
  /\ outcome = "open"
  /\ published' \in published..NumRows
  /\ Landed(published')
  /\ UNCHANGED <<bad, table, outcome>>

Close ==
  /\ outcome = "open"
  /\ \/ outcome' = "completed" /\ published = NumRows
     \/ outcome' = "failed"
  /\ UNCHANGED <<bad, table, published>>

Next == (\E r \in 1..NumRows : Insert(r)) \/ Publish \/ Close

Spec == Init /\ [][Next]_ledgerVars
=============================================================================
