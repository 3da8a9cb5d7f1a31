------------------------------- MODULE Package -------------------------------
(***************************************************************************)
(* What goes into a portable package and what comes out of it              *)
(* (exports/builder.py, exports/restorer.py).  build_export reads the      *)
(* organization table by table and file by file, each read on its own,     *)
(* while its users go on writing.  restore_package rebuilds the tables and *)
(* their foreign keys, then inserts the rows, one by one, in the order     *)
(* _topological_order gives.  The job around each is ExportJob and         *)
(* RestoreJob; here a restore is one transaction.                          *)
(*                                                                         *)
(* Rows are numbered in the order of their ids and reference each other by *)
(* id; a value stands for its kind.  Operators named X_Y are faulty        *)
(* variants of X that the properties are checked against.                  *)
(***************************************************************************)
EXTENDS Naturals, Sequences, Functions

CONSTANTS
  TableOrder,     \* the tables, in the order of their creation
  DataColumn,     \* each one's data column: its type, is it NOT NULL, is it UNIQUE?
  RowIds,         \* ids a row may have: 1..n
  FileNames,      \* files of a bucket without versioning
  Sums,           \* checksums of file contents
  Scenarios       \* the organizations exported: foreign keys, files, and how often
                  \* its users write meanwhile

Tables == Range(TableOrder)

\* The checksum in a file's row and the one of the content its object holds, which differ
\* when the catalog and the object store have drifted.
Files == [sum : Sums, object : Sums]

ASSUME PackageAssumption ==
  /\ TableOrder \in Seq(Tables)
  /\ \A i, j \in DOMAIN TableOrder : TableOrder[i] = TableOrder[j] => i = j
  /\ DataColumn \in [Tables -> [type : {"text", "datetime", "json"}, required : BOOLEAN, unique : BOOLEAN]]
  /\ RowIds \subseteq Nat \ {0}
  /\ \A s \in Scenarios : /\ s.keys \subseteq Tables \X Tables
                          /\ s.files \in [FileNames -> Files] /\ s.writes \in Nat

VARIABLES
  scenario,   \* keys: pairs of tables; files: at first; writes: a bound
  source,     \* the rows of the organization
  files,      \* its ACTIVE files
  package,    \* table -> rows, for the tables exported so far
  listed,     \* the files as the export listed them
  gone,       \* those whose object has been deleted since
  packed,     \* file name -> content in the package
  writes, wroteDuring,
  stage,      \* where the export, then the restore, stands
  restored    \* the rows of the new organization

packageVars == <<scenario, source, files, package, listed, gone, packed, writes, wroteDuring,
                 stage, restored>>

\* "padded" is "word" between blanks; "long" is over the field limit of Python's csv.
\* "quoted" and "requoted" are JSON strings that hold one and the same JSON text,
\* the second between blanks; "nil" is JSON's null.
ValuesOf(type) ==
  CASE type = "text"     -> {"null", "word", "other", "blank", "padded", "long"}
    [] type = "datetime" -> {"null", "moment"}
    [] type = "json"     -> {"null", "nil", "document", "quoted", "requoted"}

Refs(t)  == {k[2] : k \in {x \in scenario.keys : x[1] = t}}
RowsOfTable(t) ==
  [id : RowIds, table : {t}, ref : [Refs(t) -> RowIds \cup {0}],
   value : ValuesOf(DataColumn[t].type)]

HasRow(set, t, id) == \E row \in set : row.table = t /\ row.id = id
\* Every reference of the row is NULL or finds its row.
Resolved(row, set) == \A t \in DOMAIN row.ref : row.ref[t] = 0 \/ HasRow(set, t, row.ref[t])
\* NOT NULL and UNIQUE.
Allowed(row, set) ==
  /\ row.value # "null" \/ ~DataColumn[row.table].required
  /\ DataColumn[row.table].unique /\ row.value # "null" =>
       \A other \in set : other.table = row.table /\ other.value = row.value => other.id = row.id

-----------------------------------------------------------------------------
PackageInit ==
  /\ scenario \in Scenarios
  /\ source = {} /\ files = scenario.files
  /\ package = <<>> /\ listed = <<>> /\ gone = {} /\ packed = <<>>
  /\ writes = 0 /\ wroteDuring = FALSE
  /\ stage = "tables" /\ restored = {}

(***************************************************************************)
(* The organization's users: rows come and go under the foreign keys, and  *)
(* a file is replaced, which deletes the object it had.                    *)
(***************************************************************************)
Exporting == stage \in {"tables", "files"}

Write ==
  /\ Exporting /\ writes < scenario.writes
  /\ writes' = writes + 1
  /\ wroteDuring' = (wroteDuring \/ package # <<>>)
  /\ UNCHANGED <<scenario, package, listed, packed, stage, restored>>

InsertRow ==
  /\ \E t \in Tables : \E row \in RowsOfTable(t) :
       /\ ~HasRow(source, t, row.id) /\ Allowed(row, source)
       /\ source' = source \cup {row} /\ Resolved(row, source')
  /\ UNCHANGED <<files, gone>> /\ Write

\* A row's references may be set later, which is how rows of tables that
\* reference each other come about.
UpdateRow ==
  /\ \E row \in source : \E new \in RowsOfTable(row.table) :
       /\ new.id = row.id /\ new # row /\ new.value = row.value
       /\ source' = (source \ {row}) \cup {new} /\ Resolved(new, source')
  /\ UNCHANGED <<files, gone>> /\ Write

DeleteRow ==
  /\ \E row \in source :
       /\ source' = source \ {row}
       /\ \A other \in source' : Resolved(other, source')
  /\ UNCHANGED <<files, gone>> /\ Write

ReplaceFile ==
  /\ \E f \in FileNames, s \in Sums :
       /\ files' = [files EXCEPT ![f] = [sum |-> s, object |-> s]]
       /\ gone' = IF stage = "files" THEN gone \cup {f} ELSE gone
  /\ UNCHANGED source /\ Write

-----------------------------------------------------------------------------
(***************************************************************************)
(* build_export.                                                           *)
(***************************************************************************)
\* One query per table, ORDER BY id; a value becomes str(value), NULL "".
Written(v) == IF v \in {"null", "blank"} THEN "" ELSE v

CsvOf(t) ==
  {[row EXCEPT !.value = Written(row.value)] : row \in {r \in source : r.table = t}}

ExportTable ==
  /\ stage = "tables" /\ Len(package) < Len(TableOrder)
  /\ package' = Append(package, CsvOf(TableOrder[Len(package) + 1]))
  /\ UNCHANGED <<scenario, source, files, listed, gone, packed, writes, wroteDuring, stage, restored>>

ListFiles ==
  /\ stage = "tables" /\ Len(package) = Len(TableOrder)
  /\ listed' = files /\ stage' = IF FileNames = {} THEN "packed" ELSE "files"
  /\ UNCHANGED <<scenario, source, files, package, gone, packed, writes, wroteDuring, restored>>

\* content_hash_to_arcname: the content is in the archive, under its checksum.
Archived(f) == \E g \in DOMAIN packed : listed[g].sum = listed[f].sum

\* What content_ref leads to: the archive's entry, or else what the object holds.
ContentRef(f) ==
  IF Archived(f) THEN packed[CHOOSE g \in DOMAIN packed : listed[g].sum = listed[f].sum]
                 ELSE listed[f].object

\* The object is there still, and what was read of it has the digest of the row.
Readable_Trusting(f) == Archived(f) \/ f \notin gone
Readable(f) == Archived(f) \/ (f \notin gone /\ listed[f].object = listed[f].sum)

ExportFile ==
  /\ stage = "files"
  /\ \E f \in FileNames \ DOMAIN packed :
       /\ Readable(f)
       /\ packed' = [g \in DOMAIN packed \cup {f} |-> IF g = f THEN ContentRef(f) ELSE packed[g]]
  /\ stage' = IF DOMAIN packed' = FileNames THEN "packed" ELSE "files"
  /\ UNCHANGED <<scenario, source, files, package, listed, gone, writes, wroteDuring, restored>>

ExportFails ==
  /\ stage = "files"
  /\ \E f \in FileNames \ DOMAIN packed : ~Readable(f)
  /\ stage' = "failed"
  /\ UNCHANGED <<scenario, source, files, package, listed, gone, packed, writes, wroteDuring, restored>>

-----------------------------------------------------------------------------
(***************************************************************************)
(* _topological_order: passes over the tables that remain, until a pass    *)
(* resolves none of them.                                                  *)
(***************************************************************************)
Deps(t) == Refs(t) \ {t}

Visit(t, resolved) ==
  IF t \notin Range(resolved) /\ Deps(t) \subseteq Range(resolved)
  THEN Append(resolved, t) ELSE resolved

Pass(resolved) ==
  LET seen[i \in 0..Len(TableOrder)] ==
        IF i = 0 THEN resolved ELSE Visit(TableOrder[i], seen[i - 1])
  IN  seen[Len(TableOrder)]

TopologicalOrder ==
  LET after[n \in 0..Len(TableOrder)] == IF n = 0 THEN <<>> ELSE Pass(after[n - 1])
  IN  after[Len(TableOrder)]

Orderable == Len(TopologicalOrder) = Len(TableOrder)

(***************************************************************************)
(* _restore_rows: csv.reader splits the text, _convert_value strips and    *)
(* parses each value, one INSERT per row.  A datetime column is a          *)
(* TIMESTAMPTZ, whose text ends in a UTC offset that no DATETIME_FORMATS   *)
(* accepts.  A parsed JSON document is no parameter of a JSONB column,     *)
(* but for a string, which is taken as the JSON text it holds (an empty    *)
(* list, which psycopg writes '{}', goes the same way), and null, which    *)
(* becomes NULL.                                                           *)
(***************************************************************************)
Refusing == {"long", "moment", "document"}

Converted(text) ==
  CASE text \in {"", "nil"} -> "null"
    [] text = "padded" -> "word"
    [] text \in {"quoted", "requoted"} -> "unquoted"
    [] text \in Refusing -> "error"
    [] OTHER -> text

Packaged == UNION {package[i] : i \in DOMAIN package}

\* Rows go in table by table, and those of a table in the order of its CSV.
Place(order, t) == CHOOSE i \in DOMAIN order : order[i] = t
Before_Descending(order, r, s) ==
  \/ Place(order, r.table) < Place(order, s.table)
  \/ r.table = s.table /\ r.id > s.id
Before(order, r, s) ==
  \/ Place(order, r.table) < Place(order, s.table)
  \/ r.table = s.table /\ r.id < s.id

New(row) == [row EXCEPT !.value = Converted(row.value)]

\* The INSERT of a row succeeds when those before it did.
Inserts(order, row) ==
  LET earlier == {New(r) : r \in {x \in Packaged : Before(order, x, row)}}
  IN  /\ New(row).value # "error" /\ Allowed(New(row), earlier)
      /\ Resolved(New(row), earlier \cup {New(row)})

\* The first failure is final, and rolls everything back.
RestoreSucceeds ==
  LET order == TopologicalOrder
  IN  Len(order) = Len(TableOrder) /\ \A row \in Packaged : Inserts(order, row)

Restore ==
  /\ stage = "packed"
  /\ IF RestoreSucceeds
     THEN stage' = "restored" /\ restored' = {New(row) : row \in Packaged}
     ELSE stage' = "refused" /\ UNCHANGED restored
  /\ UNCHANGED <<scenario, source, files, package, listed, gone, packed, writes, wroteDuring>>

PackageNext ==
  \/ InsertRow \/ UpdateRow \/ DeleteRow \/ ReplaceFile
  \/ ExportTable \/ ListFiles \/ ExportFile \/ ExportFails \/ Restore

PackageSpec == PackageInit /\ [][PackageNext]_packageVars

-----------------------------------------------------------------------------
\* The shape of the state; in a package a NULL is an empty text and no two
\* rows of a table have one id.
PackageTypeOK ==
  /\ writes \in 0..scenario.writes /\ wroteDuring \in BOOLEAN
  /\ stage \in {"tables", "files", "packed", "failed", "restored", "refused"}
  /\ Len(package) <= Len(TableOrder)
  /\ \A r, s \in Packaged : r.table = s.table /\ r.id = s.id => r = s
  /\ \A r \in Packaged : r.value # "null"
  /\ files \in [FileNames -> Files] /\ DOMAIN packed \subseteq FileNames

\* _topological_order puts every referenced table before the ones that
\* reference it, and it fails exactly when tables reference each other in a
\* circle (a reference of a table to itself is none).
OrderIsTopological ==
  stage = "packed" =>
  LET order == TopologicalOrder
      circular == \E set \in (SUBSET Tables) \ {{}} :
                    \A t \in set : \E u \in set : u # t /\ <<t, u>> \in scenario.keys
  IN  /\ Orderable <=> ~circular
      /\ Orderable => \A k \in scenario.keys : k[1] # k[2] => Place(order, k[2]) < Place(order, k[1])

\* build_export: a package of an organization nobody wrote to meanwhile has
\* every row, and every reference in it finds its row.
PackageIsWhole ==
  Len(package) = Len(TableOrder) /\ ~wroteDuring =>
    /\ {<<r.table, r.id>> : r \in Packaged} = {<<r.table, r.id>> : r \in source}
    /\ \A row \in Packaged : Resolved(row, Packaged)

Circular == ~Orderable
Torn     == \E row \in Packaged : ~Resolved(row, Packaged)
\* A reference to a row of the same table that comes later in it.
Forward  == \E row \in Packaged : \E t \in DOMAIN row.ref : t = row.table /\ row.ref[t] > row.id
Unreadable == \E row \in Packaged : row.value \in Refusing
\* Nothing for a column that must have something.
Emptied  == \E row \in Packaged : New(row).value = "null" /\ DataColumn[row.table].required
\* Two values of a UNIQUE column that were different and are not once they are converted.
Colliding ==
  \E r, s \in Packaged :
    /\ r.table = s.table /\ r.id # s.id /\ DataColumn[r.table].unique
    /\ New(r).value = New(s).value /\ New(r).value # "null"

\* restore_package: a package is refused exactly when its tables are
\* circular, a row references a missing or a later row of its own table, a
\* value is a datetime, a JSON document that is neither null nor a string of JSON
\* text, or too long for a field of the CSV, a value of a NOT NULL column is
\* blank or JSON's null, or two values of a UNIQUE column are the same once
\* they are converted.
RefusedExactlyWhen ==
  /\ stage = "refused" => Circular \/ Torn \/ Forward \/ Unreadable \/ Emptied \/ Colliding
  /\ stage = "restored" => ~(Circular \/ Torn \/ Forward \/ Unreadable \/ Emptied \/ Colliding)

Faithful(v) ==
  CASE v \in {"blank", "nil"} -> "null"
    [] v = "padded" -> "word"
    [] v \in {"quoted", "requoted"} -> "unquoted"
    [] OTHER -> v

\* restore_package: when nobody wrote meanwhile, the restored rows are the
\* source's, references and all, except that surrounding blanks are lost, a blank
\* text and JSON's null are NULL, and a JSON string that holds JSON text is the
\* document it holds.
RestoredFaithfully ==
  stage = "restored" /\ ~wroteDuring =>
    restored = {[row EXCEPT !.value = Faithful(row.value)] : row \in source}

\* _export_bucket: every file in the package has the content its recorded
\* checksum names, also when several files share one archive entry, and when an
\* object is not what its row says.
FilesMatch == \A f \in DOMAIN packed : packed[f] = listed[f].sum

\* restore_package, _topological_order: which packages are restored, exactly.
RestoresExactly == OrderIsTopological /\ RefusedExactlyWhen

\* build_export and restore_package: what a package and a restored organization
\* contain, row by row and file by file.
PackageIsFaithful ==
  PackageTypeOK /\ PackageIsWhole /\ RestoredFaithfully /\ FilesMatch
=============================================================================
