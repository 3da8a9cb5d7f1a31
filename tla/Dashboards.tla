----------------------------- MODULE Dashboards ------------------------------
(***************************************************************************)
(* Dashboards over the tables of one database (analytics/services.py,      *)
(* views.py, models.py).  A dashboard is a name and a list of widgets, one *)
(* table each; it is validated when it is saved and every widget is run,   *)
(* and checked, anew when it is rendered.  Meanwhile permissions, rows and *)
(* columns change, the databases fail, and tables are deleted, physically  *)
(* first and then from the catalog (databases/services.py).                *)
(*                                                                         *)
(* Operators named X_Y are faulty variants of X that the properties are    *)
(* checked against.                                                        *)
(***************************************************************************)
EXTENDS Naturals, Sequences, FiniteSets, SequencesExt

CONSTANTS
  NumBoards,   \* how many dashboards are created
  BoardNames,
  OwnTables,   \* the tables of the dashboards' database
  OtherTables, \* those of another database of the organization
  WidgetLists, \* the lists of widgets users send: sequences of tables
  NumAskers,   \* how many requests are made
  MaxTurns     \* how often the circumstances change

Boards == 1..NumBoards   \* in the order of their creation
Askers == 1..NumAskers   \* in the order they begin

ASSUME DashboardsAssumption ==
  NumBoards \in Nat /\ NumAskers \in Nat /\ MaxTurns \in Nat /\ OwnTables \cap OtherTables = {}

VARIABLES
  boards,     \* Dashboard rows; the empty function where there is none
  entries,    \* tables in the catalog
  physical,   \* tables in the database
  log,        \* the circumstances there have been: one record per change
  asks,       \* the requests: what they loaded, where they stand
  intended,   \* history: what the saved requests asked for
  overlapped  \* history: dashboards two changes of which overlapped

world == <<entries, physical, log>>
dashboardVars == <<boards, world, asks, intended, overlapped>>

NoBoard == [name |-> "", widgets |-> <<>>]
Permissions == {"database.read", "dataset.analyze"}
\* The permissions users hold; the tables whose rows, columns or widget parameters the
\* widget's operation refuses (AnalyticsValidationError), and those on which it raises
\* anything else, as for parameters of the wrong kind or a statement that takes too
\* long; and whether the databases are out of reach.
Moments == [rights : SUBSET Permissions, refuses : SUBSET OwnTables,
            raises : SUBSET OwnTables, down : BOOLEAN]
Turn == Len(log)
Now  == log[Turn]
AskIdle == [op |-> "none", at |-> "idle"]

DashboardsInit ==
  /\ boards = [b \in Boards |-> NoBoard] /\ intended = boards /\ overlapped = {}
  /\ entries = OwnTables \cup OtherTables /\ physical = entries
  /\ log = <<[rights |-> Permissions, refuses |-> {}, raises |-> {}, down |-> FALSE]>>
  /\ asks = [r \in Askers |-> AskIdle]

(***************************************************************************)
(* What happens around the dashboards.  delete_table drops the table, then *)
(* its catalog entry.                                                      *)
(***************************************************************************)
Flip(set, x) == IF x \in set THEN set \ {x} ELSE set \cup {x}
Changed ==
  {[Now EXCEPT !.rights = Flip(@, p)] : p \in Permissions}
  \cup {[Now EXCEPT !.refuses = Flip(@, t)] : t \in OwnTables}
  \cup {[Now EXCEPT !.raises = Flip(@, t)] : t \in OwnTables}
  \cup {[Now EXCEPT !.down = ~@]}

World ==
  /\ Turn <= MaxTurns
  /\ \/ /\ \E moment \in Changed : log' = Append(log, moment)
        /\ UNCHANGED <<entries, physical>>
     \/ /\ \E t \in physical : physical' = physical \ {t}
        /\ log' = Append(log, Now) /\ UNCHANGED entries
     \/ /\ \E t \in entries \ physical : entries' = entries \ {t}
        /\ log' = Append(log, Now) /\ UNCHANGED physical
  /\ UNCHANGED <<boards, asks, intended, overlapped>>

-----------------------------------------------------------------------------
(***************************************************************************)
(* create_dashboard, update_dashboard, delete_dashboard.                   *)
(***************************************************************************)
Begins(r) == asks[r].at = "idle" /\ \A q \in 1..(r - 1) : asks[q].at # "idle"

Changers == {r \in Askers : asks[r].op \in {"create", "update", "delete"}}

Changing(b) == {r \in Changers : asks[r].board = b /\ asks[r].at \in {"check", "save"}}

\* A new dashboard has a new id.
Unused(b) ==
  LET used == {asks[r].board : r \in Changers} IN b \notin used /\ 1..(b - 1) \subseteq used

\* The view loads the dashboard; "" and <<"none">> stand for a field that the
\* request leaves out.
BeginChange(r) ==
  /\ Begins(r)
  /\ \E op \in {"create", "update", "delete"}, b \in Boards,
       name \in BoardNames \cup {""}, list \in WidgetLists \cup {<<"none">>} :
       /\ CASE op = "create" -> Unused(b) /\ name # "" /\ list # <<"none">>
            [] op = "update" -> boards[b] # NoBoard /\ ~(name = "" /\ list = <<"none">>)
            [] op = "delete" -> boards[b] # NoBoard /\ name = "" /\ list = <<"none">>
       /\ asks' = [asks EXCEPT ![r] =
            [op |-> op, at |-> "check", board |-> b, loaded |-> boards[b], name |-> name, list |-> list]]
       /\ overlapped' = IF Changing(b) = {} THEN overlapped ELSE overlapped \cup {b}
  /\ UNCHANGED <<boards, world, intended>>

\* _validate_widgets: every table is in the catalog, as one of this database.
ValidWidgets(list) == list = <<"none">> \/ Range(list) \subseteq entries \cap OwnTables

\* _require_analyze, then _validate_widgets.
Check(r) ==
  /\ asks[r].at = "check"
  /\ asks' = [asks EXCEPT ![r].at =
       IF "dataset.analyze" \in Now.rights /\ ValidWidgets(asks[r].list) THEN "save" ELSE "refused"]
  /\ UNCHANGED <<boards, world, intended, overlapped>>

\* The row is written from the object that was loaded, both columns of it.
Merged_Blank(r) == [name    |-> IF asks[r].name = "" THEN asks[r].loaded.name ELSE asks[r].name,
                    widgets |-> IF asks[r].list = <<"none">> THEN <<>> ELSE asks[r].list]
Merged(r) == [name    |-> IF asks[r].name = "" THEN asks[r].loaded.name ELSE asks[r].name,
              widgets |-> IF asks[r].list = <<"none">> THEN asks[r].loaded.widgets ELSE asks[r].list]

Asked(r, old) == [name    |-> IF asks[r].name = "" THEN old.name ELSE asks[r].name,
                  widgets |-> IF asks[r].list = <<"none">> THEN old.widgets ELSE asks[r].list]

\* unique_dashboard_name_per_database
NameFree(r) == \A b \in Boards \ {asks[r].board} : boards[b].name # Merged(r).name

\* save(update_fields=...) of a row that was deleted meanwhile fails.
SaveBoard(r) ==
  LET b == asks[r].board
      fails == \/ asks[r].op = "update" /\ boards[b] = NoBoard
               \/ asks[r].op # "delete" /\ ~NameFree(r)
  IN  /\ asks[r].at = "save"
      /\ asks' = [asks EXCEPT ![r].at = IF fails THEN "failed" ELSE "saved"]
      /\ IF fails THEN UNCHANGED <<boards, intended>>
         ELSE /\ boards' = [boards EXCEPT ![b] = IF asks[r].op = "delete" THEN NoBoard ELSE Merged(r)]
              /\ intended' = [intended EXCEPT
                   ![b] = IF asks[r].op = "delete" THEN NoBoard ELSE Asked(r, @)]
      /\ UNCHANGED <<world, overlapped>>

-----------------------------------------------------------------------------
(***************************************************************************)
(* render_dashboard: widget after widget, each one looked up, checked and  *)
(* run.  A result keeps when its widget's turn began and ended.            *)
(***************************************************************************)
BeginRender(r) ==
  /\ Begins(r)
  /\ \E b \in Boards :
       /\ boards[b] # NoBoard
       /\ asks' = [asks EXCEPT ![r] =
            [op |-> "render", at |-> "find", list |-> boards[b].widgets, results |-> <<>>,
             from |-> Turn]]
  /\ UNCHANGED <<boards, world, intended, overlapped>>

Rendering(r) == asks[r].op = "render" /\ Len(asks[r].results) < Len(asks[r].list)
CurrentWidget(r) == asks[r].list[Len(asks[r].results) + 1]

\* The widget's result, and on to the next one.
WidgetEnds(r, got) ==
  asks' = [asks EXCEPT
    ![r].results = Append(@, [got |-> got, from |-> asks[r].from, to |-> Turn]),
    ![r].from = Turn, ![r].at = "find"]

\* Http404, AnalyticsPermissionDenied and AnalyticsValidationError are caught per widget;
\* nothing else is.
Refused(r) == WidgetEnds(r, "error")
Aborted(r) == asks' = [asks EXCEPT ![r].at = "aborted", ![r].from = Turn]

\* get_member_table.
FindTable(r) ==
  /\ Rendering(r) /\ asks[r].at = "find"
  /\ IF CurrentWidget(r) \in entries
     THEN asks' = [asks EXCEPT ![r].at = "require"]
     ELSE Refused(r)
  /\ UNCHANGED <<boards, world, intended, overlapped>>

\* _require_read.
MayRead_OncePerRender(r) ==
  "database.read" \in Now.rights \/ \E i \in DOMAIN asks[r].results : asks[r].results[i].got = "data"
MayRead(r) == "database.read" \in Now.rights

RequireRead(r) ==
  /\ asks[r].at = "require"
  /\ IF MayRead(r) THEN asks' = [asks EXCEPT ![r].at = "run"] ELSE Refused(r)
  /\ UNCHANGED <<boards, world, intended, overlapped>>

\* The operation, whose parameters are checked before its query or after it.
RunWidget(r) ==
  LET t == CurrentWidget(r)
  IN  /\ asks[r].at = "run"
      /\ \/ t \in Now.refuses /\ Refused(r)
         \/ t \notin physical \ Now.raises /\ Aborted(r)
         \/ t \in physical \ (Now.refuses \cup Now.raises) /\ WidgetEnds(r, "data")
      /\ UNCHANGED <<boards, world, intended, overlapped>>

\* A query of the lookup, of the permission check or of the operation fails.
LoseRender(r) ==
  /\ Rendering(r) /\ asks[r].at # "aborted" /\ Now.down
  /\ Aborted(r)
  /\ UNCHANGED <<boards, world, intended, overlapped>>

DashboardsNext ==
  \/ World
  \/ \E r \in Askers : BeginChange(r) \/ Check(r) \/ SaveBoard(r)
                       \/ BeginRender(r) \/ FindTable(r) \/ RequireRead(r) \/ RunWidget(r)
                       \/ LoseRender(r)

DashboardsSpec == DashboardsInit /\ [][DashboardsNext]_dashboardVars

-----------------------------------------------------------------------------
\* The shape of the state; unique_dashboard_name_per_database holds across
\* creations and renamings.
DashboardsTypeOK ==
  /\ entries \subseteq OwnTables \cup OtherTables /\ physical \subseteq entries
  /\ \A b \in Boards : boards[b].name \in BoardNames \cup {""}
  /\ \A b, c \in Boards : b # c /\ boards[b] # NoBoard => boards[b].name # boards[c].name

\* _validate_widgets: a dashboard shows tables of its own database only.
WidgetsAreOwn == \A b \in Boards : Range(boards[b].widgets) \subseteq OwnTables

\* update_dashboard: a saved dashboard is what its users asked for, field by
\* field, unless two requests about it overlapped (each writes both columns
\* from the row it loaded, so that one loses the other's).
UpdatesKept == \A b \in Boards : b \in overlapped \/ boards[b] = intended[b]

\* render_dashboard: "a dashboard can never be used to see data a later-revoked
\* grant should now hide": a widget with data held database.read at some moment
\* of its own turn, whatever was revoked before it.
DataWasAllowed ==
  \A r \in Askers : asks[r].op = "render" =>
    \A i \in DOMAIN asks[r].results :
      LET w == asks[r].results[i]
      IN  w.got = "data" => \E k \in w.from..w.to : "database.read" \in log[k].rights

\* render_dashboard: a widget fails alone, for want of its table, or of the permission
\* or of data its operation accepts at some moment of its turn; the whole dashboard
\* fails only over a table that is physically gone while its entry is there, an
\* operation that raises another error, or databases out of reach.
FailuresExplained ==
  \A r \in Askers : asks[r].op = "render" =>
    /\ \A i \in DOMAIN asks[r].results :
         LET w == asks[r].results[i]
             t == asks[r].list[i]
         IN  w.got = "error" =>
               \/ t \notin entries
               \/ \E k \in w.from..w.to : "database.read" \notin log[k].rights \/ t \in log[k].refuses
    /\ asks[r].at = "aborted" =>
         \/ CurrentWidget(r) \notin physical
         \/ CurrentWidget(r) \in log[asks[r].from].raises \/ log[asks[r].from].down

\* Dashboards are kept (create_dashboard, update_dashboard, delete_dashboard):
\* named uniquely, of tables of their database, as their users asked.
BoardsAreKept == DashboardsTypeOK /\ WidgetsAreOwn /\ UpdatesKept

\* A rendered dashboard shows what is allowed when it is rendered, and what
\* it does not show is missing for a reason (render_dashboard).
RendersAreCurrent == DataWasAllowed /\ FailuresExplained
=============================================================================
