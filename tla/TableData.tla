------------------------------ MODULE TableData ------------------------------
(***************************************************************************)
(* The columns, foreign keys and rows of a tenant database                 *)
(* (databases/services.py and rows.py).  A schema request commits its DDL  *)
(* on the tenant connection, then its catalog rows on the control          *)
(* connection, and undoes the DDL by name when the second step fails.      *)
(* A row request reads the table's columns from the catalog, checks its    *)
(* data against them, and then runs one statement against whatever table   *)
(* bears the name.  Requests interleave between any two of these steps.    *)
(*                                                                         *)
(* A table, a column or a row is identified by the request that makes it.  *)
(* A statement is the set of databases it may leave: empty when PostgreSQL *)
(* refuses it.  Operators named X_Y are faulty variants of X that the      *)
(* properties are checked against.                                         *)
(***************************************************************************)
EXTENDS Naturals, FiniteSets

CONSTANTS
  Requests,   \* API requests
  Start,      \* the tables there are at the start: id -> name
  Row0,       \* a row of one of them
  Columns,    \* names a column may be given
  Data,       \* values a client may send, Null among them
  Null,
  Mixes,      \* what meets in one behaviour: kinds of request, how many of
              \* them, the shapes a column may be declared with, the columns
              \* foreign keys are put on and the ON DELETE rules they have
  MaxFaults   \* how many faults the environment may produce

Pk    == "id"
Names == {Start[t] : t \in DOMAIN Start}
Ids   == Requests \cup DOMAIN Start

\* What a column is declared with.
Shapes == [type : {"uuid", "text"}, nullable : BOOLEAN, unique : BOOLEAN, default : Data]

ASSUME TableDataAssumption ==
  /\ Pk \notin Columns /\ Null \in Data /\ Row0 \in Data \ Requests
  /\ Requests \cap DOMAIN Start = {} /\ MaxFaults \in Nat
  /\ \A s, t \in DOMAIN Start : Start[s] = Start[t] => s = t
  /\ \A m \in Mixes : m.shapes \subseteq Shapes

VARIABLES
  db,                   \* tenant: tabs, cols, keys (constraints) and rows
  ctabs, ccols, ckeys,  \* control: DBTable, DBColumn, DBForeignKey rows
  want, pc,             \* each request and where it stands
  unsure,               \* requests whose catalog commit was not acknowledged
  mix, faults

control == <<ctabs, ccols, ckeys>>
vars    == <<db, control, want, pc, unsure, mix, faults>>

NameOf(t)  == IF t \in DOMAIN Start THEN Start[t] ELSE want[t].name
\* schema.name in a statement: whichever table bears the name now.
Named(t)   == {p \in db.tabs : NameOf(p) = NameOf(t)}
Of(set, t) == {x \in set : x.table = t}
NamesOf(set, t) == {c.name : c \in Of(set, t)}
PkOf(t) == [id |-> <<t, Pk>>, table |-> t, name |-> Pk, type |-> "uuid",
            nullable |-> FALSE, unique |-> TRUE, default |-> Null]
ValueAt(row, name) == IF name = Pk THEN row.id ELSE row.val[name]

\* NOT NULL, UNIQUE and FOREIGN KEY hold of every row.
Sound(d) ==
  /\ \A c \in d.cols, row \in d.rows : row.table = c.table =>
       /\ c.nullable \/ ValueAt(row, c.name) # Null
       /\ c.unique => \A other \in Of(d.rows, c.table) \ {row} :
            ValueAt(row, c.name) = Null \/ ValueAt(row, c.name) # ValueAt(other, c.name)
  /\ \A k \in d.keys : \A row \in Of(d.rows, k.table) :
       \/ ValueAt(row, k.col) = Null
       \/ \E target \in Of(d.rows, k.ref) : ValueAt(target, k.refcol) = ValueAt(row, k.col)

-----------------------------------------------------------------------------
PlainColumn(t, n) ==
  [PkOf(t) EXCEPT !.id = <<t, n>>, !.name = n, !.nullable = TRUE, !.unique = FALSE]

\* One table has a row, the others have the columns.
Init ==
  /\ ctabs = DOMAIN Start /\ ckeys = {}
  /\ \E t \in ctabs :
       /\ ccols = {PkOf(s) : s \in ctabs} \cup {PlainColumn(s, n) : s \in ctabs \ {t}, n \in Columns}
       /\ db = [tabs |-> ctabs, cols |-> ccols, keys |-> {},
                rows |-> {[id |-> Row0, table |-> t, val |-> [c \in Columns |-> Null]]}]
  /\ want = [r \in Requests |-> [op |-> "none", table |-> r, name |-> "none"]]
  /\ pc = [r \in Requests |-> "idle"] /\ unsure = {}
  /\ mix \in Mixes /\ faults = 0

Goto(r, stage) == pc' = [pc EXCEPT ![r] = stage]

Ask(r, w, stage) ==
  /\ pc[r] = "idle" /\ w.op \in mix.kinds
  /\ Cardinality({q \in Requests : pc[q] # "idle"}) < mix.requests
  /\ want' = [want EXCEPT ![r] = w]
  /\ Goto(r, stage)
  /\ UNCHANGED <<db, control, unsure, mix, faults>>

(***************************************************************************)
(* Schema requests, as their views load and check them.                    *)
(***************************************************************************)
BeginCreate(r) ==
  \E n \in Names : Ask(r, [op |-> "create", table |-> r, name |-> n], "ddl")

BeginDrop(r) ==
  \E t \in ctabs : Ask(r, [op |-> "drop", table |-> t, name |-> "none"], "ddl")

BeginColumn(r) ==
  \E t \in ctabs, n \in Columns, s \in mix.shapes :
    Ask(r, [op |-> "column", table |-> t, name |-> "none",
            column |-> [id |-> <<r, n>>, table |-> t, name |-> n, type |-> s.type,
                        nullable |-> s.nullable, unique |-> s.unique,
                        default |-> s.default]], "ddl")

MayReference(c, target, onDelete) ==
  /\ target.unique
  /\ c.type = target.type
  /\ ~\E f \in ckeys : f.col = c.id
  /\ onDelete = "set_null" => c.nullable

\* The referenced table and the referenced column are looked up separately.
BeginKey(r) ==
  \E c \in ccols, t \in ctabs, target \in ccols, d \in mix.rules :
    /\ c.name \in mix.keyed /\ MayReference(c, target, d)
    /\ Ask(r, [op |-> "key", table |-> c.table, name |-> "none", column |-> c,
               target |-> target,
               key |-> [col |-> c.id, ref |-> t, refcol |-> target.id, del |-> d]], "ddl")

-----------------------------------------------------------------------------
(***************************************************************************)
(* Statements on the tenant connection.                                    *)
(***************************************************************************)
AddTable(r) ==
  IF Named(r) # {} THEN {}
  ELSE {[db EXCEPT !.tabs = @ \cup {r}, !.cols = @ \cup {PkOf(r)}]}

WithoutTable(p) ==
  [db EXCEPT !.tabs = @ \ {p}, !.cols = @ \ Of(@, p), !.rows = @ \ Of(@, p),
             !.keys = {k \in @ : k.table # p /\ k.ref # p}]

\* Refused while another table's key references the table.
DropTable(t) ==
  {WithoutTable(p) : p \in {q \in Named(t) : \A k \in db.keys : k.ref = q => k.table = q}}

WithColumn(c, p) ==
  [db EXCEPT !.cols = @ \cup {[c EXCEPT !.table = p]},
             !.rows = {IF row.table = p THEN [row EXCEPT !.val[c.name] = c.default] ELSE row
                       : row \in @}]

AddColumn(t, c) ==
  {d \in {WithColumn(c, p) : p \in {q \in Named(t) : c.name \notin NamesOf(db.cols, q)}} : Sound(d)}

\* Takes the column's own constraint along; refused while a key references it.
DropColumn(t, n) ==
  {[db EXCEPT !.cols = {c \in @ : ~(c.table = p /\ c.name = n)},
              !.keys = {k \in @ : ~(k.table = p /\ k.col = n)},
              !.rows = {IF row.table = p THEN [row EXCEPT !.val[n] = Null] ELSE row : row \in @}]
   : p \in {q \in Named(t) : n \in NamesOf(db.cols, q)
                             /\ \A k \in db.keys : ~(k.ref = q /\ k.refcol = n)}}

\* fk_<column id>
ConstraintName(c) == c.id

KeyOn(w, p, q) ==
  [name |-> ConstraintName(w.column), table |-> p, col |-> w.column.name,
   ref |-> q, refcol |-> w.target.name, del |-> w.key.del]

MayConstrain(k) ==
  /\ \E c \in Of(db.cols, k.table), u \in Of(db.cols, k.ref) :
       c.name = k.col /\ u.name = k.refcol /\ u.unique /\ c.type = u.type
  /\ ~\E o \in Of(db.keys, k.table) : o.name = k.name

AddKey(w) ==
  LET candidates == {KeyOn(w, p, q) : p \in Named(w.table), q \in Named(w.key.ref)}
  IN  {d \in {[db EXCEPT !.keys = @ \cup {k}] : k \in {x \in candidates : MayConstrain(x)}} :
         Sound(d)}

DropKey(t, name) ==
  {[db EXCEPT !.keys = @ \ {k}] :
     k \in {x \in db.keys : x.table \in Named(t) /\ x.name = name}}

Statement(r) ==
  CASE want[r].op = "create" -> AddTable(r)
    [] want[r].op = "drop"   -> DropTable(want[r].table)
    [] want[r].op = "column" -> AddColumn(want[r].table, want[r].column)
    [] want[r].op = "key"    -> AddKey(want[r])

(***************************************************************************)
(* The protocol of a schema request: _execute_tenant_ddl, _write_catalog.  *)
(***************************************************************************)
ExecuteDDL(r) ==
  /\ pc[r] = "ddl"
  /\ db' \in Statement(r) /\ Goto(r, "catalog")
  /\ UNCHANGED <<control, want, unsure, mix, faults>>

DDLRefused_Undone(r) ==
  /\ pc[r] = "ddl" /\ Statement(r) = {}
  /\ Goto(r, IF want[r].op = "drop" THEN "failed" ELSE "compensate")
  /\ UNCHANGED <<db, control, want, unsure, mix, faults>>
DDLRefused(r) ==
  /\ pc[r] = "ddl"
  /\ Statement(r) = {} /\ Goto(r, "failed")
  /\ UNCHANGED <<db, control, want, unsure, mix, faults>>

CatalogAccepts(r) ==
  CASE want[r].op = "create" -> \A t \in ctabs : NameOf(t) # want[r].name
    [] want[r].op = "drop"   -> TRUE
    [] want[r].op = "column" ->
         /\ want[r].table \in ctabs
         /\ want[r].column.name \notin NamesOf(ccols, want[r].table)
    [] want[r].op = "key" ->
         /\ {want[r].column, want[r].target} \subseteq ccols /\ want[r].key.ref \in ctabs
         /\ ~\E f \in ckeys : f.col = want[r].key.col

\* Deleting a DBTable row cascades to its columns and to every key that
\* names them or the table.
Uncatalog(t) ==
  /\ ctabs' = ctabs \ {t} /\ ccols' = ccols \ Of(ccols, t)
  /\ ckeys' = {f \in ckeys : f.ref # t /\ \A c \in Of(ccols, t) : c.id \notin {f.col, f.refcol}}

CatalogEntry(r) ==
  \/ /\ want[r].op = "create"
     /\ ctabs' = ctabs \cup {r} /\ ccols' = ccols \cup {PkOf(r)} /\ UNCHANGED ckeys
  \/ want[r].op = "drop" /\ Uncatalog(want[r].table)
  \/ want[r].op = "column" /\ ccols' = ccols \cup {want[r].column} /\ UNCHANGED <<ctabs, ckeys>>
  \/ want[r].op = "key" /\ ckeys' = ckeys \cup {want[r].key} /\ UNCHANGED <<ctabs, ccols>>

WriteCatalog(r) ==
  /\ pc[r] = "catalog"
  /\ CatalogAccepts(r) /\ CatalogEntry(r) /\ Goto(r, "done")
  /\ UNCHANGED <<db, want, unsure, mix, faults>>

\* The transaction is refused by a constraint or fails, or it is committed and
\* the answer is lost; a drop has nothing to compensate with.
CatalogFails(r) ==
  /\ pc[r] = "catalog"
  /\ \/ ~CatalogAccepts(r) /\ UNCHANGED <<control, unsure, faults>>
     \/ /\ faults < MaxFaults /\ faults' = faults + 1
        /\ \/ UNCHANGED <<control, unsure>>
           \/ CatalogAccepts(r) /\ CatalogEntry(r) /\ unsure' = unsure \cup {r}
  /\ Goto(r, IF want[r].op = "drop" THEN "drifted" ELSE "compensate")
  /\ UNCHANGED <<db, want, mix>>

Undo_NotColumns(r) ==
  CASE want[r].op = "create" -> DropTable(r)
    [] want[r].op = "column" -> {db}
    [] want[r].op = "key"    -> DropKey(want[r].table, ConstraintName(want[r].column))
Undo_NotKeys(r) ==
  CASE want[r].op = "create" -> DropTable(r)
    [] want[r].op = "column" -> DropColumn(want[r].table, want[r].column.name)
    [] want[r].op = "key"    -> {db}
Undo(r) ==
  CASE want[r].op = "create" -> DropTable(r)
    [] want[r].op = "column" -> DropColumn(want[r].table, want[r].column.name)
    [] want[r].op = "key"    -> DropKey(want[r].table, ConstraintName(want[r].column))

\* The answer is the error of the catalog write, whether or not the statement
\* is acknowledged.
Compensate(r) ==
  /\ pc[r] = "compensate"
  /\ db' \in Undo(r) /\ Goto(r, "undone")
  /\ UNCHANGED <<control, want, unsure, mix, faults>>

CompensationFails(r) ==
  /\ pc[r] = "compensate"
  /\ \/ Undo(r) = {} /\ UNCHANGED faults
     \/ faults < MaxFaults /\ faults' = faults + 1
  /\ Goto(r, "drifted")
  /\ UNCHANGED <<db, control, want, unsure, mix>>

\* The process dies between two steps, or the DDL was committed and its answer lost.
Killed(r) ==
  /\ pc[r] \in {"catalog", "compensate"}
  /\ faults < MaxFaults /\ faults' = faults + 1
  /\ Goto(r, "drifted")
  /\ UNCHANGED <<db, control, want, unsure, mix>>

-----------------------------------------------------------------------------
(***************************************************************************)
(* Row requests.  seen is the set of columns read from the catalog.        *)
(***************************************************************************)
Validated(d, seen) ==
  /\ DOMAIN d \subseteq {c.name : c \in seen} \ {Pk}
  /\ \A c \in seen : c.name = Pk \/ c.nullable \/ c.name \in DOMAIN d

Payloads == UNION {[names -> Data] : names \in SUBSET (Columns \cup {Pk})}

BeginInsert(r) ==
  \E t \in ctabs, d \in Payloads :
    /\ Validated(d, Of(ccols, t))
    /\ Ask(r, [op |-> "insert", table |-> t, name |-> "none", data |-> d, seen |-> Of(ccols, t)], "sql")

\* An update may leave any column out, but not all of them.
BeginUpdate(r) ==
  \E t \in ctabs, d \in Payloads, row \in db.rows :
    /\ DOMAIN d # {} /\ DOMAIN d \subseteq NamesOf(ccols, t) \ {Pk}
    /\ Ask(r, [op |-> "update", table |-> t, name |-> "none", data |-> d, seen |-> Of(ccols, t),
               row |-> row.id], "sql")

BeginDelete(r) ==
  \E t \in ctabs, row \in db.rows :
    Ask(r, [op |-> "delete", table |-> t, name |-> "none", seen |-> {}, row |-> row.id], "sql")

\* get_row, list_rows, iter_export_rows: the column list is the catalog's.
BeginRead(r) ==
  \E t \in ctabs :
    Ask(r, [op |-> "read", table |-> t, name |-> "none", seen |-> Of(ccols, t)], "sql")

Overlaid(d, base) == [c \in Columns |-> IF c \in DOMAIN d THEN d[c] ELSE base[c]]
DefaultsOf(p) ==
  [n \in Columns |-> IF \E c \in Of(db.cols, p) : c.name = n /\ c.default # Null
                     THEN (CHOOSE c \in Of(db.cols, p) : c.name = n).default ELSE Null]

Cascading(set) ==
  {row \in db.rows : \E k \in db.keys, gone \in set :
     /\ k.del = "cascade" /\ k.table = row.table /\ k.ref = gone.table
     /\ ValueAt(row, k.col) = ValueAt(gone, k.refcol)}
\* What ON DELETE CASCADE takes along.
Doomed(row) ==
  CHOOSE set \in SUBSET db.rows :
    LET closed(s) == row \in s /\ Cascading(s) \subseteq s
    IN  closed(set) /\ \A s \in SUBSET db.rows : closed(s) => set \subseteq s
Detached(row, gone) ==
  [row EXCEPT !.val = [c \in Columns |->
     IF \E k \in db.keys, g \in gone :
          /\ k.del = "set_null" /\ k.table = row.table /\ k.ref = g.table /\ k.col = c
          /\ row.val[c] = ValueAt(g, k.refcol)
     THEN Null ELSE row.val[c]]]

Inserted(w, p, r)  == [db EXCEPT !.rows = @ \cup {[id |-> r, table |-> p, val |-> Overlaid(w.data, DefaultsOf(p))]}]
Updated(w, p, row) == [db EXCEPT !.rows = (@ \ {row}) \cup {[row EXCEPT !.val = Overlaid(w.data, @)]}]
Deleted(row)       == [db EXCEPT !.rows = {Detached(x, Doomed(row)) : x \in @ \ Doomed(row)}]

\* The rows the statement finds under the table's name.
Addressed(w) == {row \in db.rows : row.table \in Named(w.table) /\ row.id = w.row}

Outcome(r) ==
  LET w == want[r]
      reachable == {p \in Named(w.table) : {c.name : c \in w.seen} \subseteq NamesOf(db.cols, p)}
  IN  {d \in CASE w.op = "insert" -> {Inserted(w, p, r) : p \in reachable}
               [] w.op = "update" -> UNION {{Updated(w, p, row) : row \in Addressed(w)} : p \in reachable}
               [] w.op = "delete" -> {Deleted(row) : row \in Addressed(w)}
               [] w.op = "read"   -> {db : p \in reachable}
       : Sound(d)}

RunStatement(r) ==
  /\ pc[r] = "sql"
  /\ db' \in Outcome(r) /\ Goto(r, "done")
  /\ UNCHANGED <<control, want, unsure, mix, faults>>

\* No such row, table or column any more, or a constraint refuses it.
StatementRefused(r) ==
  /\ pc[r] = "sql"
  /\ Outcome(r) = {} /\ Goto(r, "failed")
  /\ UNCHANGED <<db, control, want, unsure, mix, faults>>

-----------------------------------------------------------------------------
SchemaStep(r) ==
  \/ BeginCreate(r) \/ BeginDrop(r) \/ BeginColumn(r) \/ BeginKey(r)
  \/ ExecuteDDL(r) \/ DDLRefused(r) \/ WriteCatalog(r) \/ CatalogFails(r)
  \/ Compensate(r) \/ CompensationFails(r) \/ Killed(r)
RowStep(r) ==
  \/ BeginInsert(r) \/ BeginUpdate(r) \/ BeginDelete(r) \/ BeginRead(r)
  \/ RunStatement(r) \/ StatementRefused(r)

Next == \E r \in Requests : SchemaStep(r) \/ RowStep(r)
Spec == Init /\ [][Next]_vars

-----------------------------------------------------------------------------
ColumnRows ==
  [id : Ids \X (Columns \cup {Pk}), table : Ids, name : Columns \cup {Pk},
   type : {"uuid", "text"}, nullable : BOOLEAN, unique : BOOLEAN, default : Data]

\* The shape of the state; a name belongs to one table and to one column of
\* it, on the tenant side (PostgreSQL) and in the catalog (unique constraints).
TypeOK ==
  /\ db.tabs \subseteq Ids /\ ctabs \subseteq Ids
  /\ db.cols \subseteq ColumnRows /\ ccols \subseteq ColumnRows
  /\ \A s, t \in ctabs : NameOf(s) = NameOf(t) => s = t
  /\ \A c, o \in ccols : c.table = o.table /\ c.name = o.name => c = o
  /\ \A f, g \in ckeys : f.col = g.col => f = g
  /\ faults \in 0..MaxFaults

Unfinished(r) == pc[r] \in {"catalog", "compensate", "drifted"}

\* A column that the compensation of an add_column took: DROP COLUMN is by name,
\* and its request had loaded an earlier table of that name, or it had committed
\* the very column and was told that it had not.
LostToUndo(c) ==
  \E r \in Requests :
    /\ want[r].op = "column" /\ pc[r] = "undone"
    /\ want[r].column.name = c.name /\ NameOf(want[r].table) = NameOf(c.table)
    /\ want[r].table # c.table \/ (r \in unsure /\ want[r].column = c)

\* add_column: every column in the catalog of a table that exists is a column
\* of that table, unless a compensation took it: another request's by name, or its
\* own after a catalog commit that was not acknowledged.
ColumnsBacked ==
  \A c \in ccols : c.table \in db.tabs => c \in db.cols \/ LostToUndo(c)

\* add_column: every column of a catalogued table is in the catalog, unless
\* its request is under way, drifted, or reached a table that had replaced
\* the one it loaded.
ColumnsKnown ==
  \A c \in db.cols : c.table \in ctabs =>
    \/ c \in ccols
    \/ Unfinished(c.id[1]) \/ want[c.id[1]].table # c.table

\* A key that was committed to the catalog without its request knowing, which
\* then dropped the constraint.
Disowned(f) ==
  \E r \in unsure : want[r].op = "key" /\ pc[r] = "undone" /\ want[r].key = f

\* add_foreign_key: a foreign key the catalog shows is enforced between the
\* two tables it names, as long as they exist and the column does, unless its
\* request took the constraint back after a commit that was not acknowledged.
KeysEnforced ==
  \A f \in ckeys : \A c \in ccols :
    c.id = f.col /\ c \in db.cols /\ f.ref \in db.tabs =>
      \/ \E k \in db.keys : k.name = f.col /\ k.table = c.table /\ k.ref = f.ref /\ k.del = f.del
      \/ Disowned(f)

\* A key whose catalog row named a column of a table other than the one it
\* references (nothing checks that they belong together), or that was laid
\* between tables one of which had replaced the one it was meant for.
Misdirected(k) ==
  \E r \in Requests :
    /\ want[r].op = "key" /\ want[r].column.id = k.name
    /\ \/ want[r].key.ref \notin {want[r].target.table} \cap {k.ref}
       \/ want[r].table # k.table

\* add_foreign_key: a constraint PostgreSQL enforces is in the catalog,
\* unless its request is under way or drifted, or the key was misdirected
\* and its catalog row went with a table that only the catalog names.
KeysKnown ==
  \A k \in db.keys : k.table \in ctabs =>
    \/ \E f \in ckeys : f.col = k.name
    \/ \E r \in Requests : want[r].op = "key" /\ want[r].column.id = k.name /\ Unfinished(r)
    \/ Misdirected(k)

\* delete_table: the table a catalogued key of an existing column references
\* exists; or it was deleted before the constraint was laid, and the constraint
\* references a table that had taken its name; or the constraint was taken back
\* after a commit that was not acknowledged.
ReferencedStays ==
  \A f \in ckeys : \A c \in ccols : c.id = f.col /\ c \in db.cols =>
    \/ f.ref \in db.tabs \/ Disowned(f)
    \/ \E k \in db.keys : /\ k.name = f.col /\ k.table = c.table
                          /\ k.ref # f.ref /\ NameOf(k.ref) = NameOf(f.ref)

\* Request q, on a table of the name that r inserts into, has run its DDL.
Meets(q, r, op) ==
  /\ want[q].op = op /\ pc[q] \in {"catalog", "done", "compensate", "undone", "drifted"}
  /\ NameOf(want[q].table) = NameOf(want[r].table)

\* A request was to delete the row or what the row depends on, or to drop the table; or the
\* creation of a table of that name was taken back.
Removed(r) ==
  \/ \E q \in Requests : Meets(q, r, "drop") \/ (Meets(q, r, "create") /\ pc[q] = "undone")
  \/ \E q \in Requests : /\ want[q].op = "delete" /\ pc[q] = "done"
                         /\ \/ want[q].row = r
                            \/ \E k \in Requests : Meets(k, r, "key") /\ want[k].key.del = "cascade"

\* The value r gave column n was updated, detached by ON DELETE SET NULL, or lost with a
\* column that a compensation took.
Rewritten(r, n) ==
  \E q \in Requests :
    \/ want[q].op = "update" /\ pc[q] = "done" /\ want[q].row = r /\ n \in DOMAIN want[q].data
    \/ Meets(q, r, "key") /\ want[q].key.del = "set_null" /\ want[q].column.name = n
    \/ /\ Meets(q, r, "column") /\ pc[q] = "undone" /\ want[q].column.name = n
       /\ want[q].table # want[r].table \/ q \in unsure

\* insert_row: the row of an acknowledged insert is there with the values it was sent,
\* until a request changes or removes it.  No schema request that fails takes acknowledged
\* data along, except with a column it had committed without being told or one of a
\* table that had replaced the one it loaded.
RowsKept ==
  \A r \in Requests : want[r].op = "insert" /\ pc[r] = "done" =>
    \/ \E x \in db.rows :
         /\ x.id = r
         /\ \A n \in DOMAIN want[r].data :
              x.val[n] = want[r].data[n] \/ Rewritten(r, n) \/ x.table # want[r].table
    \/ Removed(r)

\* The columns of the catalog and of the tables agree (add_column, create_table,
\* delete_table): the parts above, under faults and overlapping requests.
ColumnsAgree == TypeOK /\ ColumnsBacked /\ ColumnsKnown

\* So do the foreign keys (add_foreign_key, delete_table).
KeysAgree == KeysEnforced /\ KeysKnown /\ ReferencedStays
=============================================================================
