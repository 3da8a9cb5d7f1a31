---------------------------- MODULE SchemaCatalog ----------------------------
(***************************************************************************)
(* Creating and dropping tenant databases and tables                       *)
(* (databases/services.py).  The catalog rows live on the "default"        *)
(* connection, the PostgreSQL schemas and tables on the "tenant"           *)
(* connection, and no transaction spans both: a request executes and       *)
(* commits its DDL first, then its catalog transaction, and a creation     *)
(* whose catalog transaction fails drops, by name, what it created.        *)
(* Requests of several workers interleave at every such step; what a       *)
(* request loaded when it began may be stale at any later one.             *)
(*                                                                         *)
(* A database or table is identified by the request that creates it (its   *)
(* UUID is drawn there).  Operators named X_Y are faulty variants of X     *)
(* that the properties are checked against.                                *)
(***************************************************************************)
EXTENDS Naturals

CONSTANTS
  Requests,      \* API requests
  Names,         \* names of tables, and of databases in their project
  Db0, Table0,   \* a database and its table that exist at the start
  Faults         \* which faults the environment may produce

FaultKinds ==
  { "tenant",     \* a statement on the tenant connection fails
    "ambiguous",  \* it fails after the server committed it
    "control",    \* a transaction on the control database fails
    "unacknowledged",  \* it fails after the server committed it
    "crash",      \* the process dies between two steps
    "overlap" }   \* a table is deleted by more than one request

ASSUME CatalogAssumption ==
  /\ Db0 \notin Requests /\ Table0 \notin Requests /\ Db0 # Table0
  /\ Names # {} /\ Faults \subseteq FaultKinds

Ids    == Requests \cup {Db0, Table0}
Tables == [id : Ids, db : Ids, name : Names]

VARIABLES
  schemas,    \* tenant: the databases whose schema exists
  physical,   \* tenant: the tables that exist
  dbRows,     \* control: the TenantDatabase rows
  tableRows,  \* control: the DBTable rows
  want,       \* what each request is to do, as it loaded it
  seen,       \* the child rows a database deletion has collected
  unsure,     \* history: requests told that their committed catalog write failed
  pc          \* where each request stands

vars == <<schemas, physical, dbRows, tableRows, want, seen, unsure, pc>>

Creations == {"createDb", "createTable"}
Deletions == {"deleteTable", "deleteDb"}

At(tables, d, n) == {t \in tables : t.db = d /\ t.name = n}
In(tables, d)    == {t \in tables : t.db = d}
Target(r)        == [id |-> want[r].id, db |-> want[r].db, name |-> want[r].name]

GoTo(r, stage) == pc' = [pc EXCEPT ![r] = stage]

-----------------------------------------------------------------------------
Init ==
  \E n \in Names :
    LET table == [id |-> Table0, db |-> Db0, name |-> n]
    IN  /\ schemas = {Db0} /\ dbRows = {[id |-> Db0, name |-> n]}
        /\ physical = {table} /\ tableRows = {table}
        /\ want = [r \in Requests |-> [op |-> "createDb", id |-> r, db |-> r, name |-> n]]
        /\ seen = [r \in Requests |-> {}] /\ unsure = {}
        /\ pc = [r \in Requests |-> "idle"]

(***************************************************************************)
(* A request arrives; the view loads the row it is about.                  *)
(***************************************************************************)
DeletesOf(id) ==
  {r \in Requests : want[r].op = "deleteTable" /\ want[r].id = id /\ pc[r] # "idle"}

Begin(r) ==
  /\ pc[r] = "idle"
  /\ \E w \in [op : Creations \cup Deletions, id : Ids, db : Ids, name : Names] :
       /\ \/ w.op = "createDb" /\ w.id = r /\ w.db = r
          \/ w.op = "createTable" /\ w.id = r /\ \E d \in dbRows : d.id = w.db
          \/ /\ w.op = "deleteTable"
             /\ [id |-> w.id, db |-> w.db, name |-> w.name] \in tableRows
             /\ "overlap" \in Faults \/ DeletesOf(w.id) = {}
          \/ w.op = "deleteDb" /\ w.id = w.db /\ [id |-> w.id, name |-> w.name] \in dbRows
       /\ want' = [want EXCEPT ![r] = w]
  /\ GoTo(r, "ddl")
  /\ UNCHANGED <<schemas, physical, dbRows, tableRows, seen, unsure>>

-----------------------------------------------------------------------------
(***************************************************************************)
(* _execute_tenant_ddl.                                                    *)
(***************************************************************************)
DDLApplies_IfNotExists(r) ==
  CASE want[r].op = "createDb"    -> r \notin schemas
    [] want[r].op = "createTable" -> want[r].db \in schemas
    [] want[r].op = "deleteTable" -> At(physical, want[r].db, want[r].name) # {}
    [] want[r].op = "deleteDb"    -> want[r].db \in schemas
DDLApplies(r) ==
  CASE want[r].op = "createDb"    -> r \notin schemas
    [] want[r].op = "createTable" ->
         want[r].db \in schemas /\ At(physical, want[r].db, want[r].name) = {}
    [] want[r].op = "deleteTable" -> At(physical, want[r].db, want[r].name) # {}
    [] want[r].op = "deleteDb"    -> want[r].db \in schemas

CreateObject(r) ==
  \/ /\ want[r].op = "createDb"
     /\ schemas' = schemas \cup {r} /\ UNCHANGED physical
  \/ /\ want[r].op = "createTable"
     /\ physical' = physical \cup {Target(r)} /\ UNCHANGED schemas

DropTableNamed_Late(r) ==
  /\ want[r].op \in {"createTable", "deleteTable"}
  /\ physical' = IF pc[r] = "ddl" THEN physical
                 ELSE physical \ At(physical, want[r].db, want[r].name)
  /\ UNCHANGED schemas
\* DROP TABLE schema.name: whichever table has that name.
DropTableNamed(r) ==
  /\ want[r].op \in {"createTable", "deleteTable"}
  /\ physical' = physical \ At(physical, want[r].db, want[r].name)
  /\ UNCHANGED schemas

\* DROP SCHEMA ... CASCADE.
DropSchema(r) ==
  /\ want[r].op \in {"createDb", "deleteDb"}
  /\ schemas' = schemas \ {want[r].db}
  /\ physical' = physical \ In(physical, want[r].db)

ApplyDDL(r) ==
  \/ CreateObject(r)
  \/ want[r].op \in Deletions /\ (DropTableNamed(r) \/ DropSchema(r))

AfterDDL(r) == IF want[r].op = "deleteDb" THEN "collect" ELSE "catalog"

ExecuteDDL(r) ==
  /\ pc[r] = "ddl" /\ DDLApplies(r)
  /\ ApplyDDL(r)
  /\ \/ GoTo(r, AfterDDL(r))
     \/ "ambiguous" \in Faults /\ GoTo(r, "drifted")
  /\ UNCHANGED <<dbRows, tableRows, want, seen, unsure>>

\* PostgreSQL refuses it (the object exists, or does not), or fails.
DDLFails(r) ==
  /\ pc[r] = "ddl"
  /\ ~DDLApplies(r) \/ "tenant" \in Faults
  /\ GoTo(r, "failed")
  /\ UNCHANGED <<schemas, physical, dbRows, tableRows, want, seen, unsure>>

-----------------------------------------------------------------------------
(***************************************************************************)
(* The catalog transaction.  Deleting a database row first collects the    *)
(* rows that cascade from it; a row inserted since then makes the foreign  *)
(* key fail at commit.                                                     *)
(***************************************************************************)
Collect(r) ==
  /\ pc[r] = "collect"
  /\ seen' = [seen EXCEPT ![r] = In(tableRows, want[r].db)]
  /\ GoTo(r, "catalog")
  /\ UNCHANGED <<schemas, physical, dbRows, tableRows, want, unsure>>

\* Unique constraints and foreign keys of the catalog.
CatalogAccepts_NoParent(r) ==
  CASE want[r].op = "createDb"    -> \A d \in dbRows : d.name # want[r].name
    [] want[r].op = "createTable" -> At(tableRows, want[r].db, want[r].name) = {}
    [] want[r].op = "deleteTable" -> TRUE
    [] want[r].op = "deleteDb"    -> In(tableRows, want[r].db) \subseteq seen[r]
CatalogAccepts(r) ==
  CASE want[r].op = "createDb"    -> \A d \in dbRows : d.name # want[r].name
    [] want[r].op = "createTable" ->
         /\ \E d \in dbRows : d.id = want[r].db
         /\ At(tableRows, want[r].db, want[r].name) = {}
    [] want[r].op = "deleteTable" -> TRUE
    [] want[r].op = "deleteDb"    -> In(tableRows, want[r].db) \subseteq seen[r]

ApplyCatalog(r) ==
  \/ /\ want[r].op = "createDb"
     /\ dbRows' = dbRows \cup {[id |-> r, name |-> want[r].name]}
     /\ UNCHANGED tableRows
  \/ /\ want[r].op = "createTable"
     /\ tableRows' = tableRows \cup {Target(r)}
     /\ UNCHANGED dbRows
  \/ /\ want[r].op = "deleteTable"
     /\ tableRows' = {t \in tableRows : t.id # want[r].id}
     /\ UNCHANGED dbRows
  \/ /\ want[r].op = "deleteDb"
     /\ dbRows' = {d \in dbRows : d.id # want[r].db}
     /\ tableRows' = tableRows \ In(tableRows, want[r].db)

WriteCatalog(r) ==
  /\ pc[r] = "catalog" /\ CatalogAccepts(r)
  /\ ApplyCatalog(r)
  /\ GoTo(r, "done")
  /\ UNCHANGED <<schemas, physical, want, seen, unsure>>

\* Only creations have a compensating statement.
AfterCatalogError_NoUndo(r) == IF want[r].op \in Creations THEN "failed" ELSE "drifted"
AfterCatalogError(r) == IF want[r].op \in Creations THEN "undo" ELSE "drifted"

CatalogFails_Recreate(r) ==
  /\ "control" \in Faults /\ pc[r] \in {"collect", "catalog"}
  /\ physical' = IF want[r].op = "deleteTable" THEN physical \cup {Target(r)} ELSE physical
  /\ GoTo(r, AfterCatalogError(r))
  /\ UNCHANGED <<schemas, dbRows, tableRows, want, seen, unsure>>
CatalogFails(r) ==
  /\ pc[r] \in {"collect", "catalog"}
  /\ \/ /\ "control" \in Faults \/ (pc[r] = "catalog" /\ ~CatalogAccepts(r))
        /\ UNCHANGED <<dbRows, tableRows, unsure>>
     \/ /\ "unacknowledged" \in Faults /\ pc[r] = "catalog" /\ CatalogAccepts(r)
        /\ ApplyCatalog(r) /\ unsure' = unsure \cup {r}
  /\ GoTo(r, AfterCatalogError(r))
  /\ UNCHANGED <<schemas, physical, want, seen>>

\* The compensating DROP.  When it finds nothing to drop it fails, which is
\* logged; the request answers the same error.
Undo(r) ==
  /\ pc[r] = "undo"
  /\ DropTableNamed(r) \/ DropSchema(r)
  /\ GoTo(r, "failed")
  /\ UNCHANGED <<dbRows, tableRows, want, seen, unsure>>

UndoFails(r) ==
  /\ pc[r] = "undo"
  /\ \/ "tenant" \in Faults /\ UNCHANGED <<schemas, physical>>
     \/ "ambiguous" \in Faults /\ (DropTableNamed(r) \/ DropSchema(r))
  /\ GoTo(r, "drifted")
  /\ UNCHANGED <<dbRows, tableRows, want, seen, unsure>>

\* The process dies after its DDL and before its request is answered.
Crash(r) ==
  /\ "crash" \in Faults
  /\ pc[r] \in {"collect", "catalog", "undo"}
  /\ GoTo(r, "drifted")
  /\ UNCHANGED <<schemas, physical, dbRows, tableRows, want, seen, unsure>>

AllEnded == \A r \in Requests : pc[r] \in {"done", "failed", "drifted"}
Ended == AllEnded /\ UNCHANGED vars

Next ==
  \/ \E r \in Requests :
       \/ Begin(r) \/ ExecuteDDL(r) \/ DDLFails(r)
       \/ Collect(r) \/ WriteCatalog(r) \/ CatalogFails(r)
       \/ Undo(r) \/ UndoFails(r) \/ Crash(r)
  \/ Ended

Spec == Init /\ [][Next]_vars

-----------------------------------------------------------------------------
(***************************************************************************)
(* Properties.                                                             *)
(***************************************************************************)

\* The values each variable takes; only database deletions collect.
TypeOK ==
  /\ schemas \in SUBSET Ids /\ physical \in SUBSET Tables
  /\ dbRows \in SUBSET [id : Ids, name : Names] /\ tableRows \in SUBSET Tables
  /\ want \in [Requests -> [op : Creations \cup Deletions, id : Ids, db : Ids,
                            name : Names]]
  /\ seen \in [Requests -> SUBSET Tables]
  /\ unsure \in SUBSET Requests
  /\ pc \in [Requests -> {"idle", "ddl", "collect", "catalog", "undo",
                          "done", "failed", "drifted"}]
  /\ \A r \in Requests : pc[r] = "collect" => want[r].op = "deleteDb"

\* A request stands between its two stores, or was cut off there.
Between(r) == pc[r] \in {"collect", "catalog", "undo", "drifted"}

\* A deletion of t, or of its database, stands between its two stores.
BeingDeleted(r, t) ==
  /\ Between(r)
  /\ \/ want[r].op = "deleteTable" /\ want[r].id = t.id
     \/ want[r].op = "deleteDb" /\ want[r].db = t.db

\* Two requests delete one table that has, or had, the name of t.
DroppedTwice(q, r, t) ==
  \A s \in {q, r} : /\ want[s].op = "deleteTable" /\ want[s].id = want[q].id
                    /\ want[s].db = t.db /\ want[s].name = t.name

\* Request r created t, or its database, and was told that its committed catalog
\* write failed; or created an earlier table of the same name.  Its compensating
\* DROP names them, and what has taken their place.
Disowned(r, t) ==
  /\ r \in unsure
  /\ \/ want[r].op = "createTable" /\ want[r].db = t.db /\ want[r].name = t.name
     \/ want[r].op = "createDb" /\ r = t.db

\* A table or schema that exists without a catalog row belongs to a creation
\* that is still under way, or that died or whose compensating DROP failed
\* (_write_catalog): nothing else leaves orphans, however requests interleave.
OrphansAccounted ==
  /\ \A t \in physical \ tableRows : t.id \in Requests /\ Between(t.id)
  /\ \A d \in schemas : (\E row \in dbRows : row.id = d)
                        \/ (d \in Requests /\ Between(d))

\* A creation answered with an error has left no schema and no table behind, and
\* no row either (_write_catalog's compensation), unless its catalog write was
\* committed and not acknowledged: the compensation then drops what that row names.
FailedCreationLeavesNothing ==
  \A r \in Requests : pc[r] = "failed" /\ want[r].op \in Creations =>
    /\ r \notin schemas
    /\ \A t \in physical : t.id # r
    /\ r \notin unsure => /\ \A t \in tableRows : t.id # r
                          /\ \A d \in dbRows : d.id # r

\* A database row without its schema has a deletion under way or cut off
\* (delete_tenant_database drops first and has nothing to compensate with), or was
\* compensated for although it had been committed.
MissingSchemaAccounted ==
  \A d \in dbRows :
    \/ d.id \in schemas \cup unsure
    \/ \E r \in Requests : want[r].op = "deleteDb" /\ want[r].db = d.id /\ Between(r)

\* A table row without its table has a deletion of that table, or of its
\* database, under way or cut off; or two requests deleted one earlier table of
\* its name, and the later DROP hit it (delete_table drops by name); or the
\* compensation of a creation that was committed hit it (_write_catalog).
MissingTableAccounted ==
  \A t \in tableRows : t \notin physical =>
    \/ \E r \in Requests : BeingDeleted(r, t) \/ Disowned(r, t)
    \/ \E q, r \in Requests : q # r /\ DroppedTwice(q, r, t)

\* The tables users can work with are those that exist in both stores.
Registry == INSTANCE TableRegistry WITH
  usable <- tableRows \cap physical,
  spent <- {Table0} \cup
           {r \in Requests : (pc[r] = "done" \/ r \in unsure) /\ want[r].op = "createTable"}

\* Under every fault the two stores together implement the registry: a usable
\* table is published once and, once gone, never reappears.
ImplementsRegistry == Registry!Spec
=============================================================================
