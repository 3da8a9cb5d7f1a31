------------------------------ MODULE Analytics ------------------------------
(***************************************************************************)
(* One analysis of a table (analytics/operations.py, data.py and           *)
(* profiling.py).  fetch_columns counts the rows, then selects at most     *)
(* RowCap of them; an operation makes one or two such fetches and checks   *)
(* that enough observations are left once the NULLs are dropped.  The      *)
(* table's users may write between any two statements.                     *)
(*                                                                         *)
(* A row keeps what the operations tell apart: its identity, whether its   *)
(* numeric column x holds a value, and the value of its second column y    *)
(* (0 for NULL), which serves as a number, a group or a date.  A fetch is  *)
(* the set of its rows: no SELECT has an ORDER BY, so that neither which   *)
(* rows a LIMIT keeps nor their order says anything.  Operators named X_Y  *)
(* are faulty variants of X that the properties are checked against.       *)
(***************************************************************************)
EXTENDS Naturals, Sequences, FiniteSets

CONSTANTS
  Tables0,    \* the contents a table may have: sets of rows
  Values,     \* what y may be
  RowCap,     \* ANALYTICS_MAX_ROWS
  MaxChanges  \* how often users write during the analysis

\* A row, with what of its columns the operations tell apart.
TableRows == [id : Nat, x : BOOLEAN, y : Values]

ASSUME AnalyticsAssumption ==
  /\ RowCap \in Nat \ {0} /\ MaxChanges \in Nat /\ 0 \in Values
  /\ \A rows \in Tables0 : rows \subseteq TableRows /\ IsFiniteSet(rows)

\* How many non-null values an operation on one numeric column needs.
NumericOps == [sum |-> 1, mean |-> 1, median |-> 1, min |-> 1, max |-> 1, percentiles |-> 1,
               stdev |-> 2, variance |-> 2, outlier_detection |-> 4]
CountingOps == {"count", "distinct_count", "missing", "duplicate_count",
                "frequency_distribution", "profile"}
PairedOps   == {"pearson_correlation", "spearman_correlation", "linear_regression"}
JointOps    == {"chi_square", "anova", "time_series_summary"}
TTests      == {"t_test_columns", "t_test_groups"}
Operations  == DOMAIN NumericOps \cup CountingOps \cup PairedOps \cup JointOps \cup TTests

VARIABLES
  content,   \* the table's rows
  op,        \* the operation asked for
  counted,   \* the COUNT(*) of each fetch
  fetched,   \* the rows of each fetch
  seenAt,    \* history: the rows there were at each SELECT
  raced,     \* history: the fetches between whose two statements users wrote
  changes,   \* how often users wrote
  verdict    \* "running", "invalid" (AnalyticsValidationError), "failed" or "done"

analyticsVars == <<content, op, counted, fetched, seenAt, raced, changes, verdict>>

AnalyticsInit ==
  /\ content \in Tables0 /\ op \in Operations
  /\ counted = <<>> /\ fetched = <<>> /\ seenAt = <<>> /\ raced = {}
  /\ changes = 0 /\ verdict = "running"

(***************************************************************************)
(* Users delete, update and insert rows.                                   *)
(***************************************************************************)
Change ==
  /\ verdict = "running" /\ changes < MaxChanges
  /\ \/ \E row \in content : content' = content \ {row}
     \/ \E row \in content, x \in BOOLEAN, y \in Values :
          content' = (content \ {row}) \cup {[row EXCEPT !.x = x, !.y = y]}
     \/ \E i \in 1..(Cardinality(content) + 1), x \in BOOLEAN, y \in Values :
          /\ \A row \in content : row.id # i
          /\ content' = content \cup {[id |-> i, x |-> x, y |-> y]}
  /\ changes' = changes + 1
  /\ raced' = IF Len(counted) > Len(fetched) THEN raced \cup {Len(counted)} ELSE raced
  /\ UNCHANGED <<op, counted, fetched, seenAt, verdict>>

(***************************************************************************)
(* fetch_columns: two statements.  The paired operations and the t-test    *)
(* fetch twice, everything else once.                                      *)
(***************************************************************************)
Fetches == IF op \in PairedOps \cup TTests THEN 2 ELSE 1

CountRows ==
  /\ verdict = "running" /\ Len(counted) = Len(fetched) /\ Len(fetched) < Fetches
  /\ counted' = Append(counted, Cardinality(content))
  /\ UNCHANGED <<content, op, fetched, seenAt, raced, changes, verdict>>

Lesser(m, n) == IF m < n THEN m ELSE n
Limited == {rows \in SUBSET content : Cardinality(rows) = Lesser(Cardinality(content), RowCap)}

SelectRows ==
  /\ verdict = "running" /\ Len(counted) = Len(fetched) + 1
  /\ \E rows \in Limited : fetched' = Append(fetched, rows)
  /\ seenAt' = Append(seenAt, content)
  /\ UNCHANGED <<content, op, counted, raced, changes, verdict>>

Truncated_ByRows(i) == Cardinality(fetched[i]) > RowCap
Truncated(i) == counted[i] > RowCap

\* What the result is computed from: the grouped t-test drops its first fetch.
Used == IF op = "t_test_groups" THEN {2} ELSE 1..Fetches
ReportsTruncated == \E i \in Used : Truncated(i)

-----------------------------------------------------------------------------
(***************************************************************************)
(* What an operation computes on.                                          *)
(***************************************************************************)
\* The rows in which x, y or both are not NULL.
Xs(rows)    == {row \in rows : row.x}
Ys(rows)    == {row \in rows : row.y # 0}
Joint(rows) == Xs(rows) \cap Ys(rows)

\* x[:n], y[:n]: as many pairs as the shorter column has values, of whichever rows
\* the two SELECTs gave in the same place.
NumPairs(f) == Lesser(Cardinality(Xs(f[1])), Cardinality(Ys(f[2])))

Labels(rows) == {row.y : row \in Joint(rows)}
Group(rows, label) == {row \in Joint(rows) : row.y = label}
Samples(f) == {Group(f[Len(f)], label) : label \in Labels(f[Len(f)])}

Enough(f) ==
  CASE op \in DOMAIN NumericOps -> Cardinality(Xs(f[1])) >= NumericOps[op]
    [] op \in CountingOps       -> TRUE
    [] op \in PairedOps         -> NumPairs(f) >= 3
    [] op = "t_test_columns"    -> Cardinality(Xs(f[1])) >= 2 /\ Cardinality(Ys(f[2])) >= 2
    [] op = "t_test_groups"     ->
         Cardinality(Labels(f[2])) = 2 /\ \A s \in Samples(f) : Cardinality(s) >= 2
    [] op = "anova"             ->
         Cardinality(Labels(f[1])) >= 2 /\ \A s \in Samples(f) : Cardinality(s) >= 2
    [] op = "chi_square"        -> Cardinality(Joint(f[1])) >= 5
    [] op = "time_series_summary" -> Cardinality(Joint(f[1])) >= 2

Compute ==
  /\ verdict = "running" /\ Len(fetched) = Fetches
  /\ verdict' = IF Enough(fetched) THEN "done" ELSE "invalid"
  /\ UNCHANGED <<content, op, counted, fetched, seenAt, raced, changes>>

\* Columns, parameters or values the operation refuses (KeyError, TypeError and
\* ValueError, scipy's among them, turn into a validation error); a statement that fails.
GiveUp ==
  /\ verdict = "running" /\ verdict' \in {"invalid", "failed"}
  /\ UNCHANGED <<content, op, counted, fetched, seenAt, raced, changes>>

AnalyticsNext == Change \/ CountRows \/ SelectRows \/ Compute \/ GiveUp
AnalyticsSpec == AnalyticsInit /\ [][AnalyticsNext]_analyticsVars

\* op_missing counts NULLs, op_distinct_count counts the values of a column
\* with NULL among them, profile_table those without.
MissingCount(rows)  == Cardinality(rows) - Cardinality(Ys(rows))
DistinctCount(rows) == Cardinality({row.y : row \in rows})
ProfileUnique(rows) == Cardinality({row.y : row \in Ys(rows)})

-----------------------------------------------------------------------------
\* fetch_columns never hands on more rows than the cap.
CapHolds ==
  /\ verdict \in {"running", "done", "invalid", "failed"} /\ changes \in 0..MaxChanges
  /\ Len(counted) \in Len(fetched)..(Len(fetched) + 1) /\ Len(fetched) <= Fetches
  /\ \A i \in DOMAIN fetched : Cardinality(fetched[i]) <= RowCap

\* fetch_columns: a result that is not marked truncated was computed from every row the
\* table had when it was read, unless users wrote between the COUNT and the SELECT.
TruncationTold ==
  verdict = "done" /\ ~ReportsTruncated =>
    \A i \in Used : fetched[i] = seenAt[i] \/ i \in raced

\* op_t_test, op_anova: no statistic is computed from a sample of fewer than two
\* observations, a t-test compares exactly two, and a correlation read at least three rows
\* for each of its columns.
SamplesSuffice ==
  verdict = "done" =>
    /\ op \in {"t_test_groups", "anova"} => \A s \in Samples(fetched) : Cardinality(s) >= 2
    /\ op = "t_test_groups" => Cardinality(Samples(fetched)) = 2
    /\ op \in PairedOps => \A i \in Used : Cardinality(fetched[i]) >= 3

\* op_distinct_count, op_missing and profile_table: asked about the same rows,
\* the three agree, once NULL is taken for the value that only the first counts.
CountsAgreeOnNull ==
  \A i \in DOMAIN fetched :
    DistinctCount(fetched[i]) =
      ProfileUnique(fetched[i]) + (IF MissingCount(fetched[i]) > 0 THEN 1 ELSE 0)

\* A result says what it was computed from (fetch_columns, operations.py,
\* profile_table): the four parts above, whatever is written between two
\* statements of the analysis.  Which x goes with which y in a pair is left out:
\* nothing in the code relates the orders of the two SELECTs.
ResultsAreHonest ==
  CapHolds /\ TruncationTold /\ SamplesSuffice /\ CountsAgreeOnNull
=============================================================================
