----------------------------- MODULE MCServices ------------------------------
(***************************************************************************)
(* Small instances of five services that share no state: connected         *)
(* databases, analyses, dashboards, portable packages and authentication.  *)
(* A behaviour exercises one of them, its focus, and leaves the others     *)
(* where they started.                                                     *)
(***************************************************************************)
EXTENDS Connections, Analytics, Dashboards, Package, Authentication

VARIABLE focus

vars == <<focus, connectionVars, analyticsVars, dashboardVars, packageVars, authVars>>

-----------------------------------------------------------------------------
\* Unresolvable, one address of each kind, and a host with a good and a bad one.
MCResolutions == {<<>>, <<"public">>, <<"loopback6">>, <<"private">>, <<"public", "linkLocal">>}

\* Tables of up to two rows, and tables of five and of six in at most two groups,
\* with NULLs or not: as many as the cap, and one more.
RowKinds == <<[x |-> TRUE, y |-> 1], [x |-> TRUE, y |-> 2], [x |-> FALSE, y |-> 1],
              [x |-> TRUE, y |-> 0], [x |-> FALSE, y |-> 0]>>
Numbered(kinds) ==
  {[id |-> i, x |-> RowKinds[kinds[i]].x, y |-> RowKinds[kinds[i]].y] : i \in DOMAIN kinds}
MCTables0 ==
  {{}} \cup {Numbered(<<j, k>>) : j \in 1..5, k \in 1..3}
  \cup {Numbered([i \in 1..n |-> IF i < 3 THEN 1 ELSE k]) : k \in 1..5, n \in {5, 6}}

\* Widgets on one and on two tables, and on a table of another database.
MCWidgetLists == {<<"t1">>, <<"t1", "t2">>, <<"o1">>}

-----------------------------------------------------------------------------
MCTableOrder == <<"a", "b", "c">>
MCDataColumn ==
  [a |-> [type |-> "text", required |-> TRUE, unique |-> TRUE],
   b |-> [type |-> "datetime", required |-> FALSE, unique |-> FALSE],
   c |-> [type |-> "json", required |-> FALSE, unique |-> TRUE]]

SameContent == [f \in FileNames |-> [sum |-> "s1", object |-> "s1"]]
Plain == [keys |-> {}, files |-> SameContent, writes |-> 0]

\* Every way three tables can reference each other; writes to a table that
\* references itself, and to one that references another; and files that differ from
\* each other or from what their objects hold.
MCScenarios ==
  {[Plain EXCEPT !.keys = g] : g \in SUBSET (Tables \X Tables)}
  \cup {[Plain EXCEPT !.keys = {<<"a", "a">>}, !.writes = 2],
         [Plain EXCEPT !.keys = {<<"b", "a">>}, !.writes = 3]}
  \cup {[Plain EXCEPT !.files = f, !.writes = 1] : f \in [FileNames -> Files]}

-----------------------------------------------------------------------------
ConnectionsParked ==
  /\ blocking = TRUE /\ resolution = <<>> /\ serverUp = FALSE /\ hasTable = FALSE /\ moves = 0
  /\ status = "none" /\ saves = <<>> /\ client = [c \in Clients |-> NoCall]

\* One operation for each kind of requirement.
MCOperations ==
  {"mean", "stdev", "outlier_detection", "distinct_count", "pearson_correlation", "chi_square",
   "anova", "time_series_summary", "t_test_columns", "t_test_groups"}

AnalyticsParked ==
  /\ content = {} /\ op = "count" /\ counted = <<>> /\ fetched = <<>>
  /\ seenAt = <<>> /\ raced = {} /\ changes = 0 /\ verdict = "running"

PackageParked ==
  /\ scenario = Plain /\ source = {} /\ files = SameContent /\ package = <<>> /\ listed = <<>>
  /\ gone = {} /\ packed = <<>> /\ writes = 0 /\ wroteDuring = FALSE
  /\ stage = "tables" /\ restored = {}

MCInit ==
  /\ focus \in {"connections", "analytics", "dashboards", "package", "authentication"}
  /\ DashboardsInit
  /\ AuthInit
  /\ IF focus = "connections" THEN ConnectionsInit ELSE ConnectionsParked
  /\ IF focus = "analytics" THEN AnalyticsInit /\ op \in MCOperations ELSE AnalyticsParked
  /\ IF focus = "package" THEN PackageInit ELSE PackageParked

\* A rendering changes nothing that another request looks at: one is enough.  Only for a
\* rendering do the circumstances change twice.
Renderings == {r \in Askers : asks[r].op = "render"}

MCNext ==
  /\ UNCHANGED focus
  /\ \/ /\ focus = "connections" /\ ConnectionsNext
        /\ UNCHANGED <<analyticsVars, dashboardVars, packageVars, authVars>>
     \/ /\ focus = "analytics" /\ AnalyticsNext
        /\ UNCHANGED <<connectionVars, dashboardVars, packageVars, authVars>>
     \/ /\ focus = "dashboards" /\ DashboardsNext
        /\ Cardinality(Renderings') <= 1 /\ (Renderings = {} => Len(log') <= 2)
        /\ UNCHANGED <<connectionVars, analyticsVars, packageVars, authVars>>
     \/ /\ focus = "package" /\ PackageNext
        /\ UNCHANGED <<connectionVars, analyticsVars, dashboardVars, authVars>>
     \/ /\ focus = "authentication" /\ AuthNext
        /\ UNCHANGED <<connectionVars, analyticsVars, dashboardVars, packageVars>>

MCSpec == MCInit /\ [][MCNext]_vars
=============================================================================
