------------------------- MODULE SchemaCatalogProofs -------------------------
(***************************************************************************)
(* Proofs about SchemaCatalog, for every set of requests, names and faults. *)
(***************************************************************************)
EXTENDS SchemaCatalog, TLAPS

\* A creation whose rows are committed, whether it was told so or not.
Recorded(r) == r \in Requests /\ (pc[r] = "done" \/ r \in unsure)

\* The catalog transaction commits, acknowledged or not, or fails.
Commits(r) ==
  /\ pc[r] = "catalog" /\ CatalogAccepts(r)
  /\ ApplyCatalog(r)
  /\ \/ GoTo(r, "done") /\ unsure' = unsure
     \/ GoTo(r, AfterCatalogError(r)) /\ unsure' = unsure \cup {r}
  /\ UNCHANGED <<schemas, physical, want, seen>>
Breaks(r) ==
  /\ pc[r] \in {"collect", "catalog"}
  /\ GoTo(r, AfterCatalogError(r))
  /\ UNCHANGED <<schemas, physical, dbRows, tableRows, want, seen, unsure>>

\* The compensating DROP takes effect, acknowledged or not, or fails.
Drops(r) ==
  /\ pc[r] = "undo"
  /\ DropTableNamed(r) \/ DropSchema(r)
  /\ GoTo(r, "failed") \/ GoTo(r, "drifted")
  /\ UNCHANGED <<dbRows, tableRows, want, seen, unsure>>
Drifts(r) ==
  /\ pc[r] = "undo"
  /\ GoTo(r, "drifted")
  /\ UNCHANGED <<schemas, physical, dbRows, tableRows, want, seen, unsure>>

\* What the steps of the catalog transaction and of the compensation come to.
LEMMA Outcomes ==
  ASSUME NEW r \in Requests
  PROVE  /\ WriteCatalog(r) => Commits(r)
         /\ CatalogFails(r) => Commits(r) \/ Breaks(r)
         /\ Undo(r) => Drops(r)
         /\ UndoFails(r) => Drops(r) \/ Drifts(r)
BY DEF WriteCatalog, CatalogFails, Undo, UndoFails, Commits, Breaks, Drops, Drifts

\* What a request that has begun loaded.
WantInv ==
  \A r \in Requests :
    /\ want[r].op \in Creations => want[r].id = r
    /\ want[r].op \in {"createDb", "deleteDb"} => want[r].id = want[r].db
    /\ want[r].op = "deleteTable" =>
         \/ want[r].id = Table0
         \/ Recorded(want[r].id) /\ want[want[r].id].op = "createTable"
    /\ want[r].op = "deleteDb" =>
         \/ want[r].db = Db0
         \/ Recorded(want[r].db) /\ want[want[r].db].op = "createDb"
    /\ pc[r] \in {"idle", "undo"} => want[r].op \in Creations
    /\ r \in unsure => pc[r] \in {"undo", "failed", "drifted"}

\* Tables and rows carry what their creator asked for.
TableInv ==
  /\ \A t \in physical \cup tableRows : t.id # Table0 =>
       /\ t.id \in Requests /\ want[t.id].op = "createTable" /\ t = Target(t.id)
       /\ pc[t.id] \notin {"idle", "ddl"}
  /\ \A t \in physical : t.id # Table0 => pc[t.id] # "failed"
  /\ \A t \in tableRows : t.id # Table0 => Recorded(t.id)
  /\ \A t, u \in physical \cup tableRows : t.id = u.id => t = u
  /\ \A r \in Requests : want[r].op = "deleteTable" =>
       \A t \in physical \cup tableRows : t.id = want[r].id => t = Target(r)

SchemaInv ==
  /\ \A d \in schemas : d # Db0 =>
       /\ d \in Requests /\ want[d].op = "createDb"
       /\ pc[d] \notin {"idle", "ddl", "failed"}
  /\ \A d \in dbRows : d.id # Db0 =>
       Recorded(d.id) /\ want[d.id].op = "createDb"
  /\ \A t \in physical : t.db \in schemas

\* What the DDL of a request leaves true while the request stands between.
BetweenInv ==
  \A r \in Requests : Between(r) =>
    /\ want[r].op = "createDb" /\ pc[r] = "catalog" => r \in schemas
    /\ want[r].op = "deleteDb" => want[r].db \notin schemas
    /\ want[r].op = "deleteTable" => \A t \in physical : t.id # want[r].id

IInv ==
  /\ TypeOK /\ WantInv /\ TableInv /\ SchemaInv /\ BetweenInv
  /\ OrphansAccounted /\ MissingSchemaAccounted

-----------------------------------------------------------------------------

\* PostgreSQL refuses the DDL.
LEMMA DDLFailsIInv ==
  ASSUME IInv, NEW r \in Requests, DDLFails(r)
  PROVE  IInv'
<1> USE CatalogAssumption DEF IInv, DDLFails, GoTo
<1>1. TypeOK'
  BY DEF TypeOK
<1>2. WantInv'
  BY DEF WantInv, Recorded, TypeOK
<1>3. TableInv'
  BY DEF TableInv, WantInv, Recorded, Target, TypeOK
<1>4. SchemaInv'
  BY DEF SchemaInv, WantInv, Recorded, TypeOK
<1>5. BetweenInv'
  BY DEF BetweenInv, Between, TypeOK
<1>6. OrphansAccounted'
  BY DEF OrphansAccounted, Between, TypeOK
<1>7. MissingSchemaAccounted'
  BY DEF MissingSchemaAccounted, Between, TypeOK
<1> QED
  BY <1>1, <1>2, <1>3, <1>4, <1>5, <1>6, <1>7

\* The cascade is collected.
LEMMA CollectIInv ==
  ASSUME IInv, NEW r \in Requests, Collect(r)
  PROVE  IInv'
<1> USE CatalogAssumption DEF IInv, Collect, GoTo, In
<1>1. TypeOK'
  BY DEF TypeOK
<1>2. WantInv'
  BY DEF WantInv, Recorded, TypeOK
<1>3. TableInv'
  BY DEF TableInv, WantInv, Recorded, Target, TypeOK
<1>4. SchemaInv'
  BY DEF SchemaInv, WantInv, Recorded, TypeOK
<1>5. BetweenInv'
  BY DEF BetweenInv, Between, TypeOK
<1>6. OrphansAccounted'
  BY DEF OrphansAccounted, Between, TypeOK
<1>7. MissingSchemaAccounted'
  BY DEF MissingSchemaAccounted, Between, TypeOK
<1> QED
  BY <1>1, <1>2, <1>3, <1>4, <1>5, <1>6, <1>7

\* The catalog transaction fails.
LEMMA BreaksIInv ==
  ASSUME IInv, NEW r \in Requests, Breaks(r)
  PROVE  IInv'
<1> USE CatalogAssumption DEF IInv, Breaks, GoTo, AfterCatalogError, Creations, Deletions
<1>1. TypeOK'
  BY DEF TypeOK
<1>2. WantInv'
  BY DEF WantInv, Recorded, TypeOK
<1>3. TableInv'
  BY DEF TableInv, WantInv, Recorded, Target, TypeOK
<1>4. SchemaInv'
  BY DEF SchemaInv, WantInv, Recorded, TypeOK
<1>5. BetweenInv'
  BY DEF BetweenInv, Between, TypeOK
<1>6. OrphansAccounted'
  BY DEF OrphansAccounted, Between, TypeOK
<1>7. MissingSchemaAccounted'
  BY DEF MissingSchemaAccounted, Between, TypeOK
<1> QED
  BY <1>1, <1>2, <1>3, <1>4, <1>5, <1>6, <1>7

\* The compensating DROP fails.
LEMMA DriftsIInv ==
  ASSUME IInv, NEW r \in Requests, Drifts(r)
  PROVE  IInv'
<1> USE CatalogAssumption DEF IInv, Drifts, GoTo
<1>1. TypeOK'
  BY DEF TypeOK
<1>2. WantInv'
  BY DEF WantInv, Recorded, TypeOK
<1>3. TableInv'
  BY DEF TableInv, WantInv, Recorded, Target, TypeOK
<1>4. SchemaInv'
  BY DEF SchemaInv, WantInv, Recorded, TypeOK
<1>5. BetweenInv'
  BY DEF BetweenInv, Between, TypeOK
<1>6. OrphansAccounted'
  BY DEF OrphansAccounted, Between, TypeOK
<1>7. MissingSchemaAccounted'
  BY DEF MissingSchemaAccounted, Between, TypeOK
<1> QED
  BY <1>1, <1>2, <1>3, <1>4, <1>5, <1>6, <1>7

\* The process dies between its two stores.
LEMMA CrashIInv ==
  ASSUME IInv, NEW r \in Requests, Crash(r)
  PROVE  IInv'
<1> USE CatalogAssumption DEF IInv, Crash, GoTo
<1>1. TypeOK'
  BY DEF TypeOK
<1>2. WantInv'
  BY DEF WantInv, Recorded, TypeOK
<1>3. TableInv'
  BY DEF TableInv, WantInv, Recorded, Target, TypeOK
<1>4. SchemaInv'
  BY DEF SchemaInv, WantInv, Recorded, TypeOK
<1>5. BetweenInv'
  BY DEF BetweenInv, Between, TypeOK
<1>6. OrphansAccounted'
  BY DEF OrphansAccounted, Between, TypeOK
<1>7. MissingSchemaAccounted'
  BY DEF MissingSchemaAccounted, Between, TypeOK
<1> QED
  BY <1>1, <1>2, <1>3, <1>4, <1>5, <1>6, <1>7

\* The compensating DROP.
LEMMA DropsIInv ==
  ASSUME IInv, NEW r \in Requests, Drops(r)
  PROVE  IInv'
<1> USE CatalogAssumption DEF IInv, GoTo
<1>1. /\ pc[r] = "undo" /\ pc' = [pc EXCEPT ![r] = pc'[r]]
      /\ pc'[r] \in {"failed", "drifted"}
      /\ \A q \in Requests : q # r => pc'[q] = pc[q]
      /\ UNCHANGED <<dbRows, tableRows, want, seen, unsure>>
      /\ physical' \subseteq physical /\ schemas' \subseteq schemas
  BY DEF Drops, TypeOK, DropTableNamed, DropSchema
<1>2. \/ /\ want[r].op = "createTable" /\ schemas' = schemas
         /\ physical' = physical \ At(physical, want[r].db, want[r].name)
      \/ /\ want[r].op = "createDb" /\ schemas' = schemas \ {r}
         /\ physical' = physical \ In(physical, r)
  BY <1>1 DEF Drops, WantInv, Creations, DropTableNamed, DropSchema
<1>3. \A t \in physical' : t.id # r
  <2> SUFFICES ASSUME NEW t \in physical', t.id = r PROVE FALSE
    OBVIOUS
  <2>1. want[r].op = "createTable" /\ t = Target(r)
    BY <1>1 DEF TableInv
  <2>2. t.db = want[r].db /\ t.name = want[r].name
    BY <2>1 DEF Target
  <2> QED
    BY <1>1, <1>2, <2>1, <2>2 DEF At
<1>4. r \notin schemas' /\ \A d \in dbRows : d.id = r => r \in unsure
  BY <1>1, <1>2 DEF SchemaInv, Recorded
<1>5. TypeOK' /\ WantInv'
  BY <1>1 DEF TypeOK, WantInv, Recorded
<1>6. TableInv'
  BY <1>1, <1>3 DEF TableInv, Target, Recorded
<1>7. SchemaInv'
  BY <1>1, <1>2, <1>4 DEF SchemaInv, In, Recorded
<1>8. BetweenInv'
  BY <1>1, <1>2 DEF BetweenInv, Between
<1>9. OrphansAccounted'
  BY <1>1, <1>3, <1>4 DEF OrphansAccounted, Between
<1>10. MissingSchemaAccounted'
  <2> SUFFICES ASSUME NEW d \in dbRows, d.id \notin schemas' \cup unsure
               PROVE  \E q \in Requests :
                        want[q].op = "deleteDb" /\ want[q].db = d.id /\ Between(q)'
    BY <1>1 DEF MissingSchemaAccounted
  <2>1. d.id \notin schemas
    BY <1>2, <1>4
  <2>2. PICK q \in Requests : want[q].op = "deleteDb" /\ want[q].db = d.id /\ Between(q)
    BY <2>1 DEF MissingSchemaAccounted
  <2> QED
    BY <1>1, <1>2, <2>2 DEF Between
<1> QED
  BY <1>5, <1>6, <1>7, <1>8, <1>9, <1>10

\* A request arrives.
LEMMA BeginIInv ==
  ASSUME IInv, NEW r \in Requests, Begin(r)
  PROVE  IInv'
<1> USE CatalogAssumption DEF IInv
<1>1. PICK w \in [op : Creations \cup Deletions, id : Ids, db : Ids, name : Names] :
        /\ \/ w.op = "createDb" /\ w.id = r /\ w.db = r
           \/ w.op = "createTable" /\ w.id = r /\ \E d \in dbRows : d.id = w.db
           \/ /\ w.op = "deleteTable"
              /\ [id |-> w.id, db |-> w.db, name |-> w.name] \in tableRows
           \/ w.op = "deleteDb" /\ w.id = w.db /\ [id |-> w.id, name |-> w.name] \in dbRows
        /\ want' = [want EXCEPT ![r] = w]
  BY DEF Begin
<1>2. /\ pc[r] = "idle" /\ pc'[r] = "ddl" /\ want'[r] = w
      /\ \A q \in Requests : q # r => pc'[q] = pc[q] /\ want'[q] = want[q]
      /\ UNCHANGED <<schemas, physical, dbRows, tableRows, seen, unsure>>
  BY <1>1 DEF Begin, GoTo, TypeOK
<1>3. /\ \A t \in physical \cup tableRows : t.id # r
      /\ r \notin schemas /\ \A d \in dbRows : d.id # r
  BY <1>2 DEF TableInv, SchemaInv, WantInv, Recorded
<1>4. TypeOK'
  BY <1>1, <1>2 DEF Begin, GoTo, TypeOK
<1>5. \A q \in Requests : q # r => Target(q)' = Target(q) /\ (Between(q)' <=> Between(q))
  BY <1>2 DEF Target, Between
<1>6. WantInv'
  <2>1. ASSUME NEW q \in Requests, q # r PROVE
          /\ want[q].op = "deleteTable" => want[q].id # r
          /\ want[q].op = "deleteDb" => want[q].db # r
    BY <1>2, <2>1 DEF WantInv, Recorded
  <2>2. w.op = "deleteTable" => w.id = Table0 \/
          (Recorded(w.id) /\ w.id # r /\ want[w.id].op = "createTable")
    BY <1>1, <1>3 DEF TableInv
  <2>3. w.op = "deleteDb" => w.db = Db0 \/
          (Recorded(w.db) /\ w.db # r /\ want[w.db].op = "createDb")
    BY <1>1, <1>3 DEF SchemaInv
  <2> QED
    BY <1>1, <1>2, <2>1, <2>2, <2>3 DEF WantInv, Creations, Recorded
<1>7. TableInv'
  <2>1. w.op = "deleteTable" => \A t \in physical \cup tableRows : t.id = w.id => t = Target(r)'
    BY <1>1, <1>2 DEF TableInv, Target
  <2> QED
    BY <1>2, <1>3, <1>5, <2>1 DEF TableInv, Recorded
<1>8. SchemaInv'
  BY <1>2, <1>3 DEF SchemaInv, Recorded
<1>9. BetweenInv'
  BY <1>2, <1>5 DEF BetweenInv, Between
<1>10. OrphansAccounted'
  BY <1>2, <1>3, <1>5 DEF OrphansAccounted
<1>11. MissingSchemaAccounted'
  BY <1>2, <1>5 DEF MissingSchemaAccounted, Between
<1> QED
  BY <1>4, <1>6, <1>7, <1>8, <1>9, <1>10, <1>11

\* A schema or table is created.
LEMMA CreateObjectIInv ==
  ASSUME IInv, NEW r \in Requests, ExecuteDDL(r), want[r].op \in Creations
  PROVE  IInv'
<1> USE CatalogAssumption DEF IInv
<1>1. /\ pc[r] = "ddl" /\ pc'[r] \in {"catalog", "drifted"}
      /\ pc' = [pc EXCEPT ![r] = pc'[r]]
      /\ \A q \in Requests : q # r => pc'[q] = pc[q]
      /\ UNCHANGED <<dbRows, tableRows, want, seen, unsure>>
  BY DEF ExecuteDDL, GoTo, AfterDDL, TypeOK, Creations
<1>2. \/ /\ want[r].op = "createTable" /\ want[r].db \in schemas
         /\ schemas' = schemas /\ physical' = physical \cup {Target(r)}
      \/ /\ want[r].op = "createDb"
         /\ schemas' = schemas \cup {r} /\ physical' = physical
  BY DEF ExecuteDDL, ApplyDDL, CreateObject, DDLApplies, Creations, Deletions
<1>3. want[r].id = r /\ Target(r).id = r /\ Target(r).db = want[r].db
  BY DEF WantInv, Target
<1>4. /\ \A t \in physical \cup tableRows : t.id # r
      /\ r \notin schemas /\ \A d \in dbRows : d.id # r
  BY <1>1 DEF TableInv, SchemaInv, WantInv, Recorded
<1>5. \A q \in Requests : Target(q)' = Target(q)
  BY <1>1 DEF Target
<1>6. TypeOK'
  BY <1>1, <1>2, <1>3 DEF TypeOK, Target, Tables, Ids
<1>7. WantInv'
  BY <1>1 DEF WantInv, Recorded
<1>8. TableInv'
  <2>1. \A q \in Requests : want[q].op = "deleteTable" => want[q].id # r
    BY <1>1 DEF WantInv, Recorded
  <2> QED
    BY <1>1, <1>2, <1>3, <1>4, <1>5, <2>1 DEF TableInv, Recorded
<1>9. SchemaInv'
  BY <1>1, <1>2, <1>3 DEF SchemaInv, Recorded
<1>10. BetweenInv'
  <2>1. \A q \in Requests : /\ want[q].op = "deleteTable" => want[q].id # r
                            /\ want[q].op = "deleteDb" => want[q].db # r
    BY <1>1 DEF WantInv, Recorded
  <2> QED
    BY <1>1, <1>2, <1>3, <2>1 DEF BetweenInv, Between, Creations
<1>11. OrphansAccounted'
  BY <1>1, <1>2, <1>3 DEF OrphansAccounted, Between
<1>12. MissingSchemaAccounted'
  BY <1>1, <1>2 DEF MissingSchemaAccounted, Between
<1> QED
  BY <1>6, <1>7, <1>8, <1>9, <1>10, <1>11, <1>12

\* A schema or table is dropped.
LEMMA DropObjectIInv ==
  ASSUME IInv, NEW r \in Requests, ExecuteDDL(r), want[r].op \in Deletions
  PROVE  IInv'
<1> USE CatalogAssumption DEF IInv
<1>1. /\ pc[r] = "ddl" /\ pc'[r] \in {"collect", "catalog", "drifted"}
      /\ pc' = [pc EXCEPT ![r] = pc'[r]]
      /\ \A q \in Requests : q # r => pc'[q] = pc[q]
      /\ UNCHANGED <<dbRows, tableRows, want, seen, unsure>>
  BY DEF ExecuteDDL, GoTo, AfterDDL, TypeOK
<1>2. \/ /\ want[r].op = "deleteTable" /\ schemas' = schemas
         /\ physical' = physical \ At(physical, want[r].db, want[r].name)
      \/ /\ want[r].op = "deleteDb" /\ schemas' = schemas \ {want[r].db}
         /\ physical' = physical \ In(physical, want[r].db)
  BY DEF ExecuteDDL, ApplyDDL, CreateObject, DropTableNamed, DropSchema, Deletions
<1>3. physical' \subseteq physical /\ schemas' \subseteq schemas
  BY <1>2
<1>4. /\ \A q \in Requests : Target(q)' = Target(q)
      /\ \A q \in Requests : Between(q) => Between(q)'
      /\ Between(r)' /\ \A t \in physical \cup tableRows : t.id # r
  BY <1>1 DEF Target, Between, TableInv
<1>5. TypeOK'
  <2>1. pc'[r] = "collect" => want[r].op = "deleteDb"
    BY DEF ExecuteDDL, GoTo, AfterDDL, TypeOK
  <2> QED
    BY <1>1, <1>3, <2>1 DEF TypeOK
<1>6. WantInv'
  BY <1>1 DEF WantInv, Recorded
<1>7. TableInv'
  BY <1>1, <1>3, <1>4 DEF TableInv, Recorded
<1>8. SchemaInv'
  BY <1>1, <1>2 DEF SchemaInv, In, WantInv, Recorded
<1>9. BetweenInv'
  <2>1. want[r].op = "deleteTable" => \A t \in physical' : t.id # want[r].id
    <3> SUFFICES ASSUME want[r].op = "deleteTable", NEW t \in physical',
                        t.id = want[r].id PROVE FALSE
      OBVIOUS
    <3>1. t = Target(r) /\ t.db = want[r].db /\ t.name = want[r].name
      BY <1>3 DEF TableInv, Target
    <3> QED
      BY <1>2, <3>1 DEF At
  <2>2. \A q \in Requests :
          want[q].op = "createDb" /\ pc[q] = "catalog"
            /\ want[r].op = "deleteDb" => want[r].db # q
    BY DEF WantInv, Recorded
  <2> QED
    BY <1>1, <1>2, <1>3, <2>1, <2>2 DEF BetweenInv, Between, Deletions
<1>10. OrphansAccounted'
  BY <1>1, <1>3, <1>4 DEF OrphansAccounted
<1>11. MissingSchemaAccounted'
  BY <1>1, <1>2, <1>4 DEF MissingSchemaAccounted
<1> QED
  BY <1>5, <1>6, <1>7, <1>8, <1>9, <1>10, <1>11

LEMMA ExecuteDDLIInv ==
  ASSUME IInv, NEW r \in Requests, ExecuteDDL(r)
  PROVE  IInv'
BY CreateObjectIInv, DropObjectIInv DEF IInv, TypeOK

\* The catalog transaction commits.
LEMMA CommitsIInv ==
  ASSUME IInv, NEW r \in Requests, Commits(r)
  PROVE  IInv'
<1> USE CatalogAssumption DEF IInv
<1>1. /\ pc[r] = "catalog" /\ pc' = [pc EXCEPT ![r] = pc'[r]]
      /\ \/ pc'[r] = "done" /\ unsure' = unsure
         \/ /\ pc'[r] = IF want[r].op \in Creations THEN "undo" ELSE "drifted"
            /\ unsure' = unsure \cup {r}
      /\ \A q \in Requests : q # r => pc'[q] = pc[q]
      /\ UNCHANGED <<schemas, physical, want, seen>>
  BY DEF Commits, GoTo, AfterCatalogError, TypeOK
<1>0. Recorded(r)' /\ r \notin unsure /\ \A q : Recorded(q) => Recorded(q)'
  BY <1>1 DEF Recorded, WantInv
<1>2. \/ /\ want[r].op = "createDb" /\ tableRows' = tableRows
         /\ dbRows' = dbRows \cup {[id |-> r, name |-> want[r].name]}
      \/ /\ want[r].op = "createTable" /\ dbRows' = dbRows
         /\ tableRows' = tableRows \cup {Target(r)}
      \/ /\ want[r].op = "deleteTable" /\ dbRows' = dbRows
         /\ tableRows' = {t \in tableRows : t.id # want[r].id}
      \/ /\ want[r].op = "deleteDb"
         /\ dbRows' = {d \in dbRows : d.id # want[r].db}
         /\ tableRows' = tableRows \ In(tableRows, want[r].db)
  BY DEF Commits, ApplyCatalog
<1>3. /\ want[r].op \in Creations => want[r].id = r
      /\ want[r].op = "createDb" => want[r].db = r
      /\ Target(r).id = want[r].id /\ Target(r) \in Tables
  BY DEF WantInv, Target, TypeOK, Creations, Tables
<1>4. /\ \A q \in Requests : Target(q)' = Target(q)
      /\ \A q \in Requests : q # r => (Between(q)' <=> Between(q))
      /\ Between(r)
  BY <1>1 DEF Target, Between
<1>5. \A t \in physical \cup tableRows : want[r].op \in Creations /\ t.id = r =>
        want[r].op = "createTable" /\ t = Target(r)
  BY DEF TableInv
<1>6. TypeOK'
  BY <1>1, <1>2, <1>3 DEF TypeOK, Ids
<1>7. WantInv'
  BY <1>0, <1>1 DEF WantInv, Creations, Deletions
<1>8. TableInv'
  <2>1. \A t \in tableRows' : t \in tableRows \/
          (t = Target(r) /\ t.id = r /\ want[r].op = "createTable")
    BY <1>2, <1>3 DEF Creations
  <2>2. \A t \in physical \cup tableRows' : t.id # Table0 =>
          /\ t.id \in Requests /\ want[t.id].op = "createTable" /\ t = Target(t.id)
          /\ pc[t.id] \notin {"idle", "ddl"}
    BY <1>1, <2>1 DEF TableInv
  <2>3. \A t \in tableRows' : t.id # Table0 => Recorded(t.id)'
    BY <1>0, <2>1 DEF TableInv
  <2>4. \A t, u \in physical \cup tableRows' : t.id = u.id => t = u
    BY <1>5, <2>1 DEF TableInv, Creations
  <2>5. \A q \in Requests : want[q].op = "deleteTable" =>
          \A t \in physical \cup tableRows' : t.id = want[q].id => t = Target(q)
    BY <1>1, <2>1 DEF TableInv, WantInv, Recorded
  <2> QED
    BY <1>1, <1>4, <2>2, <2>3, <2>4, <2>5 DEF TableInv
<1>9. SchemaInv'
  <2>1. \A d \in dbRows' : d \in dbRows \/ (d.id = r /\ want[r].op = "createDb")
    BY <1>2
  <2> QED
    BY <1>0, <1>1, <2>1 DEF SchemaInv
<1>10. BetweenInv'
  BY <1>1, <1>4 DEF BetweenInv
<1>11. OrphansAccounted'
  <2>1. ASSUME NEW t \in physical, t \notin tableRows'
        PROVE  t.id \in Requests /\ Between(t.id)'
    <3>1. t \notin tableRows
      <4> SUFFICES ASSUME t \in tableRows PROVE FALSE
        OBVIOUS
      <4>1. CASE want[r].op = "deleteTable"
        BY <1>2, <1>4, <2>1, <4>1 DEF BetweenInv
      <4>2. CASE want[r].op = "deleteDb"
        BY <1>2, <1>4, <2>1, <4>2 DEF BetweenInv, SchemaInv, In
      <4> QED
        BY <1>2, <2>1, <4>1, <4>2
    <3>2. t.id \in Requests /\ Between(t.id)
      BY <3>1 DEF OrphansAccounted
    <3>3. t.id # r
      <4> SUFFICES ASSUME t.id = r PROVE FALSE
        OBVIOUS
      <4>1. want[r].op = "createTable" /\ t = Target(r)
        BY <3>2 DEF TableInv
      <4> QED
        BY <1>2, <2>1, <4>1
    <3> QED
      BY <1>4, <3>2, <3>3
  <2>2. ASSUME NEW d \in schemas
        PROVE  (\E row \in dbRows' : row.id = d) \/ (d \in Requests /\ Between(d)')
    <3>1. CASE d = r
      <4>1. want[r].op = "createDb"
        BY <2>2, <3>1 DEF SchemaInv
      <4>2. [id |-> r, name |-> want[r].name] \in dbRows'
        BY <1>2, <4>1
      <4> QED
        BY <3>1, <4>2
    <3>2. CASE d # r /\ \E row \in dbRows : row.id = d
      BY <1>2, <1>4, <2>2, <3>2 DEF BetweenInv
    <3> QED
      BY <1>4, <2>2, <3>1, <3>2 DEF OrphansAccounted
  <2> QED
    BY <1>1, <2>1, <2>2 DEF OrphansAccounted
<1>12. MissingSchemaAccounted'
  <2> SUFFICES ASSUME NEW d \in dbRows', d.id \notin schemas \cup unsure'
               PROVE  \E q \in Requests :
                        want[q].op = "deleteDb" /\ want[q].db = d.id /\ Between(q)'
    BY <1>1 DEF MissingSchemaAccounted
  <2>1. d \in dbRows
    BY <1>1, <1>2, <1>4 DEF BetweenInv
  <2>2. PICK q \in Requests : want[q].op = "deleteDb" /\ want[q].db = d.id /\ Between(q)
    BY <1>1, <2>1 DEF MissingSchemaAccounted
  <2>3. q # r
    BY <1>2, <2>2
  <2> QED
    BY <1>4, <2>2, <2>3
<1> QED
  BY <1>6, <1>7, <1>8, <1>9, <1>10, <1>11, <1>12

LEMMA InitIInv == Init => IInv
<1> SUFFICES ASSUME Init PROVE IInv
  OBVIOUS
<1> USE CatalogAssumption
<1>1. PICK n \in Names :
        /\ schemas = {Db0} /\ dbRows = {[id |-> Db0, name |-> n]}
        /\ physical = {[id |-> Table0, db |-> Db0, name |-> n]} /\ tableRows = physical
        /\ want = [r \in Requests |-> [op |-> "createDb", id |-> r, db |-> r, name |-> n]]
        /\ seen = [r \in Requests |-> {}]
        /\ pc = [r \in Requests |-> "idle"] /\ unsure = {}
  BY DEF Init
<1>2. TypeOK
  BY <1>1 DEF TypeOK, Ids, Tables, Creations, Deletions
<1>3. WantInv /\ BetweenInv
  BY <1>1 DEF WantInv, BetweenInv, Between, Creations
<1>5. TableInv /\ SchemaInv
  BY <1>1 DEF TableInv, SchemaInv
<1>4. OrphansAccounted /\ MissingSchemaAccounted
  BY <1>1 DEF OrphansAccounted, MissingSchemaAccounted
<1> QED
  BY <1>2, <1>3, <1>4, <1>5 DEF IInv

\* Every step, and stuttering.
LEMMA NextIInv ==
  ASSUME IInv, [Next]_vars
  PROVE  IInv'
<1>1. CASE UNCHANGED vars
  BY <1>1 DEF vars, IInv, TypeOK, WantInv, TableInv, SchemaInv, BetweenInv, Between,
              OrphansAccounted, MissingSchemaAccounted, Target, Recorded
<1>2. ASSUME NEW r \in Requests,
             \/ Begin(r) \/ ExecuteDDL(r) \/ DDLFails(r)
             \/ Collect(r) \/ WriteCatalog(r) \/ CatalogFails(r)
             \/ Undo(r) \/ UndoFails(r) \/ Crash(r)
      PROVE  IInv'
  BY <1>2, BeginIInv, ExecuteDDLIInv, DDLFailsIInv, CollectIInv, CrashIInv,
     Outcomes, CommitsIInv, BreaksIInv, DropsIInv, DriftsIInv
<1> QED
  BY <1>1, <1>2 DEF Next, Ended

-----------------------------------------------------------------------------
\* The inductive invariant holds of every reachable state.
THEOREM Invariant == Spec => []IInv
<1>1. Init => IInv
  BY InitIInv
<1>2. IInv /\ [Next]_vars => IInv'
  BY NextIInv
<1> QED
  BY <1>1, <1>2, PTL DEF Spec

\* Type correctness.
THEOREM TypeCorrect == Spec => []TypeOK
<1>1. IInv => TypeOK
  BY DEF IInv
<1> QED
  BY <1>1, Invariant, PTL

\* Orphan schemas and tables come only from creations that are under way or
\* were cut off between their two stores.
THEOREM OrphansAreAccounted == Spec => []OrphansAccounted
<1>1. IInv => OrphansAccounted
  BY DEF IInv
<1> QED
  BY <1>1, Invariant, PTL

\* A creation that answers an error leaves nothing behind.
THEOREM FailedCreationIsClean == Spec => []FailedCreationLeavesNothing
<1>1. IInv => FailedCreationLeavesNothing
  BY CatalogAssumption
  DEF IInv, FailedCreationLeavesNothing, TableInv, SchemaInv, Recorded, Creations
<1> QED
  BY <1>1, Invariant, PTL

\* A database row without a schema is the trace of a deletion under way or
\* cut off.
THEOREM MissingSchemasAreAccounted == Spec => []MissingSchemaAccounted
<1>1. IInv => MissingSchemaAccounted
  BY DEF IInv
<1> QED
  BY <1>1, Invariant, PTL

-----------------------------------------------------------------------------
(***************************************************************************)
(* Refinement: every step publishes, loses or retires usable tables.       *)
(***************************************************************************)
Usable == tableRows \cap physical
Spent  == {Table0} \cup
          {r \in Requests : (pc[r] = "done" \/ r \in unsure) /\ want[r].op = "createTable"}

\* A step that finishes no creation and adds no usable table only retires.
LEMMA RetireStep ==
  ASSUME Usable' \subseteq Usable, Spent' = Spent
  PROVE  Registry!Next
BY DEF Usable, Spent, Registry!Next, Registry!Retire

LEMMA RegistryStep ==
  ASSUME IInv, [Next]_vars
  PROVE  [Registry!Next]_(Registry!registryVars)
<1> USE CatalogAssumption
<1>1. ASSUME NEW r \in Requests, Begin(r) PROVE Registry!Next
  <2>1. Usable' = Usable
    BY <1>1 DEF Begin, Usable
  <2>2. /\ pc[r] = "idle" /\ pc'[r] = "ddl"
        /\ \A q \in Requests : q # r => pc'[q] = pc[q] /\ want'[q] = want[q]
    BY <1>1 DEF Begin, GoTo, IInv, TypeOK
  <2>3. r \notin unsure /\ unsure' = unsure
    BY <1>1, <2>2 DEF Begin, IInv, WantInv
  <2>4. Spent' = Spent
    BY <2>2, <2>3 DEF Spent
  <2> QED
    BY <2>1, <2>4, RetireStep
<1>2. ASSUME NEW r \in Requests, pc[r] # "done", pc'[r] # "done", want' = want, unsure' = unsure,
             pc' = [pc EXCEPT ![r] = pc'[r]], Usable' \subseteq Usable
      PROVE  Registry!Next
  <2>1. Spent' = Spent
    BY <1>2 DEF Spent, IInv, TypeOK
  <2> QED
    BY <1>2, <2>1, RetireStep
<1>3. ASSUME NEW r \in Requests, DDLFails(r) \/ Collect(r) \/ Breaks(r)
                                 \/ Drifts(r) \/ Crash(r)
      PROVE  Registry!Next
  <2>1. /\ pc[r] # "done" /\ pc'[r] # "done" /\ want' = want /\ unsure' = unsure
        /\ pc' = [pc EXCEPT ![r] = pc'[r]] /\ UNCHANGED <<physical, tableRows>>
    BY <1>3 DEF DDLFails, Collect, Breaks, Drifts, Crash, GoTo,
                AfterCatalogError, IInv, TypeOK
  <2> QED
    BY <1>2, <2>1 DEF Usable
<1>4. ASSUME NEW r \in Requests, Drops(r) PROVE Registry!Next
  <2>1. /\ pc[r] # "done" /\ pc'[r] # "done" /\ want' = want /\ unsure' = unsure
        /\ pc' = [pc EXCEPT ![r] = pc'[r]] /\ tableRows' = tableRows
        /\ physical' \subseteq physical
    BY <1>4 DEF Drops, GoTo, DropTableNamed, DropSchema, IInv, TypeOK
  <2> QED
    BY <1>2, <2>1 DEF Usable
<1>5. ASSUME NEW r \in Requests, ExecuteDDL(r) PROVE Registry!Next
  <2>1. /\ pc[r] = "ddl" /\ pc'[r] # "done" /\ want' = want /\ unsure' = unsure
        /\ pc' = [pc EXCEPT ![r] = pc'[r]] /\ tableRows' = tableRows
    BY <1>5 DEF ExecuteDDL, GoTo, AfterDDL, IInv, TypeOK
  <2>2. physical' \subseteq physical \cup {Target(r)}
    BY <1>5 DEF ExecuteDDL, ApplyDDL, CreateObject, DropTableNamed, DropSchema
  <2>3. want[r].op \in Creations => Target(r) \notin tableRows
    BY <2>1, CatalogAssumption DEF IInv, TableInv, WantInv, Target, Recorded, Ids
  <2>4. want[r].op \in Deletions => physical' \subseteq physical
    BY <1>5 DEF ExecuteDDL, ApplyDDL, CreateObject, DropTableNamed, DropSchema, Deletions
  <2>5. Usable' \subseteq Usable
    BY <2>1, <2>2, <2>3, <2>4 DEF Usable, IInv, TypeOK
  <2> QED
    BY <1>2, <2>1, <2>5
<1>6. ASSUME NEW r \in Requests, Commits(r) PROVE Registry!Next
  <2>1. /\ pc[r] = "catalog" /\ r \notin unsure /\ UNCHANGED <<physical, want>>
        /\ \/ pc'[r] = "done" /\ unsure' = unsure
           \/ pc'[r] # "done" /\ unsure' = unsure \cup {r}
        /\ \A q \in Requests : q # r => pc'[q] = pc[q]
    BY <1>6 DEF Commits, GoTo, AfterCatalogError, IInv, TypeOK, WantInv
  <2>2. CASE want[r].op # "createTable"
    <3>1. Spent' = Spent
      BY <2>1, <2>2 DEF Spent
    <3>2. Usable' \subseteq Usable
      BY <1>6, <2>1, <2>2 DEF Commits, ApplyCatalog, Usable
    <3> QED
      BY <3>1, <3>2, RetireStep
  <2>3. CASE want[r].op = "createTable"
    <3>1. /\ tableRows' = tableRows \cup {Target(r)}
          /\ At(tableRows, want[r].db, want[r].name) = {}
      BY <1>6, <2>3 DEF Commits, ApplyCatalog, CatalogAccepts
    <3>2. /\ Target(r) \in Tables /\ Target(r).id = r
          /\ Target(r).db = want[r].db /\ Target(r).name = want[r].name
      BY <2>3 DEF Target, IInv, TypeOK, WantInv, Tables, Creations
    <3>3. Spent' = Spent \cup {r} /\ r \notin Spent
      BY <2>1, <2>3 DEF Spent
    <3>4. CASE Target(r) \in physical
      <4>1. Usable' = Usable \cup {Target(r)}
        BY <2>1, <3>1, <3>4 DEF Usable
      <4>2. \A u \in Usable : <<u.db, u.name>> # <<Target(r).db, Target(r).name>>
        BY <3>1, <3>2 DEF Usable, At
      <4>3. \E t \in Tables : Registry!Publish(t)
        BY <3>2, <3>3, <4>1, <4>2 DEF Usable, Spent, Registry!Publish
      <4> QED
        BY <4>3 DEF Registry!Next
    <3>5. CASE Target(r) \notin physical
      <4>1. Usable' = Usable
        BY <2>1, <3>1, <3>5 DEF Usable
      <4>2. \E t \in Tables : Registry!Lose(t)
        BY <3>2, <3>3, <4>1 DEF Usable, Spent, Registry!Lose
      <4> QED
        BY <4>2 DEF Registry!Next
    <3> QED
      BY <3>4, <3>5
  <2> QED
    BY <2>2, <2>3
<1>7. CASE UNCHANGED vars
  BY <1>7 DEF vars, Registry!registryVars
<1> QED
  BY <1>1, <1>3, <1>4, <1>5, <1>6, <1>7, Outcomes DEF Next, Ended

LEMMA RegistryInit == Init => Registry!Init
<1> SUFFICES ASSUME Init PROVE Registry!Init
  OBVIOUS
<1>1. PICK n \in Names :
        /\ physical = {[id |-> Table0, db |-> Db0, name |-> n]} /\ tableRows = physical
        /\ pc = [r \in Requests |-> "idle"] /\ unsure = {}
  BY DEF Init
<1> QED
  BY <1>1 DEF Registry!Init, Tables, Ids

\* However requests interleave and whatever fails, the two stores implement
\* the registry of usable tables.
THEOREM Refinement == Spec => ImplementsRegistry
<1>1. Init => Registry!Init
  BY RegistryInit
<1>2. IInv /\ [Next]_vars => [Registry!Next]_(Registry!registryVars)
  BY RegistryStep
<1> QED
  BY <1>1, <1>2, Invariant, PTL DEF Spec, ImplementsRegistry, Registry!Spec

-----------------------------------------------------------------------------
(***************************************************************************)
(* A DROP TABLE hits the table its request is about, except at a name under *)
(* which two requests deleted one table, or a committed creation was       *)
(* compensated for: they may find there a table created since, or drop it  *)
(* from under the request creating it.                                     *)
(***************************************************************************)

\* A database that rows and requests refer to has been created.
Created(d) == d = Db0 \/ Recorded(d)

\* Two requests delete one table, which has or had name n in database d, or a
\* creation of a table of that name, or of d, was compensated for though committed.
Doubtful(d, n) ==
  \/ \E q, r \in Requests : q # r /\ DroppedTwice(q, r, [db |-> d, name |-> n])
  \/ \E r \in Requests : Disowned(r, [db |-> d, name |-> n])

\* Every table row without its table is accounted for by a deletion or a compensation.
MissingInv ==
  \A t \in tableRows : t \in physical
    \/ \E r \in Requests : BeingDeleted(r, t)
    \/ Doubtful(t.db, t.name)

NameInv ==
  /\ \A t, u \in physical : t.db = u.db /\ t.name = u.name => t = u
  /\ \A t \in tableRows : Created(t.db)
  /\ \A r \in Requests : pc[r] # "idle" =>
       /\ want[r].op \in {"createTable", "deleteTable"} => Created(want[r].db)
       /\ want[r].op = "createTable" /\ pc[r] \in {"catalog", "undo"} =>
            \/ Target(r) \in physical \/ want[r].db \notin schemas
            \/ Doubtful(want[r].db, want[r].name)
       /\ want[r].op = "deleteTable" /\ pc[r] = "ddl" =>
            \/ Target(r) \in tableRows \/ want[r].db \notin schemas
            \/ Doubtful(want[r].db, want[r].name)
  /\ MissingInv

\* A part of NameInv.
OneName == \A t, u \in physical : t.db = u.db /\ t.name = u.name => t = u

\* Two requests about one table are two about its name.
LEMMA TwiceOne ==
  ASSUME IInv, NEW q \in Requests, NEW r \in Requests, q # r,
         want[q].op = "deleteTable", want[r].op = "deleteTable", want[q].id = want[r].id,
         Target(r) \in tableRows
  PROVE  Doubtful(want[r].db, want[r].name)
<1>1. Target(r).id = want[q].id
  BY DEF Target
<1>2. Target(r) = Target(q)
  BY <1>1 DEF IInv, TableInv
<1>3. want[q].db = want[r].db /\ want[q].name = want[r].name
  BY <1>2 DEF Target
<1>4. DroppedTwice(r, q, [db |-> want[r].db, name |-> want[r].name])
  BY <1>3 DEF DroppedTwice
<1> QED
  BY <1>4 DEF Doubtful

\* A request that has begun goes on wanting what it did.
LEMMA DoubtStays ==
  ASSUME IInv, NEW r0 \in Requests, pc[r0] = "idle", unsure' = unsure,
         \A q \in Requests : q # r0 => want'[q] = want[q],
         NEW d, NEW n, Doubtful(d, n)
  PROVE  Doubtful(d, n)'
<1>1. ASSUME NEW q \in Requests, NEW r \in Requests, q # r,
             DroppedTwice(q, r, [db |-> d, name |-> n])
      PROVE  Doubtful(d, n)'
  <2>1. want[q].op = "deleteTable" /\ want[r].op = "deleteTable"
    BY <1>1 DEF DroppedTwice
  <2>2. pc[q] # "idle" /\ pc[r] # "idle"
    BY <2>1 DEF IInv, WantInv, Creations
  <2>3. want'[q] = want[q] /\ want'[r] = want[r]
    BY <2>2
  <2>4. DroppedTwice(q, r, [db |-> d, name |-> n])'
    BY <1>1, <2>3 DEF DroppedTwice
  <2> QED
    BY <1>1, <2>4 DEF Doubtful
<1>2. ASSUME NEW r \in Requests, Disowned(r, [db |-> d, name |-> n])
      PROVE  Doubtful(d, n)'
  <2>1. pc[r] # "idle"
    BY <1>2 DEF Disowned, IInv, WantInv
  <2>2. want'[r] = want[r]
    BY <2>1
  <2>3. Disowned(r, [db |-> d, name |-> n])'
    BY <1>2, <2>2 DEF Disowned
  <2> QED
    BY <2>3 DEF Doubtful
<1> QED
  BY <1>1, <1>2 DEF Doubtful

\* A DROP TABLE that finds a table finds its own, but for such a name.
LEMMA DropHits ==
  ASSUME IInv, NameInv, NEW r \in Requests,
         \/ want[r].op = "deleteTable" /\ pc[r] = "ddl"
         \/ want[r].op = "createTable" /\ pc[r] = "undo",
         NEW t \in physical, t.db = want[r].db, t.name = want[r].name
  PROVE  t.id = want[r].id \/ Doubtful(t.db, t.name)
<1> SUFFICES ASSUME ~Doubtful(t.db, t.name) PROVE t.id = want[r].id
  OBVIOUS
<1>1. want[r].db \in schemas
  BY DEF IInv, SchemaInv
<1>2. CASE want[r].op = "createTable"
  <2>1. Target(r) \in physical
    BY <1>1, <1>2 DEF NameInv
  <2> QED
    BY <2>1 DEF NameInv, Target
<1>3. CASE want[r].op = "deleteTable"
  <2>1. pc[r] = "ddl" /\ Target(r) \in tableRows
    BY <1>1, <1>3 DEF NameInv
  <2>2. Target(r) \in physical
    <3> SUFFICES ASSUME Target(r) \notin physical PROVE FALSE
      OBVIOUS
    <3>0. Target(r).id = want[r].id /\ Target(r).db = t.db /\ Target(r).name = t.name
      BY DEF Target
    <3>1. PICK q \in Requests : Between(q) /\
            \/ want[q].op = "deleteTable" /\ want[q].id = want[r].id
            \/ want[q].op = "deleteDb" /\ want[q].db = want[r].db
      BY <2>1, <3>0 DEF NameInv, MissingInv, BeingDeleted
    <3>2. CASE want[q].op = "deleteTable"
      <4>1. q # r
        BY <2>1, <3>1 DEF Between
      <4> QED
        BY <1>3, <2>1, <3>1, <3>2, <4>1, TwiceOne
    <3>3. CASE want[q].op = "deleteDb"
      BY <1>1, <3>1, <3>3 DEF IInv, BetweenInv
    <3> QED
      BY <3>1, <3>2, <3>3
  <2> QED
    BY <2>2 DEF NameInv, Target
<1> QED
  BY <1>2, <1>3

\* A request begins.
LEMMA BeginName ==
  ASSUME IInv, NameInv, NEW r \in Requests, Begin(r)
  PROVE  NameInv'
<1> USE CatalogAssumption DEF NameInv
<1>1. PICK w \in [op : Creations \cup Deletions, id : Ids, db : Ids, name : Names] :
        /\ \/ w.op = "createDb" /\ w.id = r /\ w.db = r
           \/ w.op = "createTable" /\ w.id = r /\ \E d \in dbRows : d.id = w.db
           \/ /\ w.op = "deleteTable"
              /\ [id |-> w.id, db |-> w.db, name |-> w.name] \in tableRows
           \/ w.op = "deleteDb" /\ w.id = w.db
        /\ want' = [want EXCEPT ![r] = w]
  BY DEF Begin
<1>2. /\ pc[r] = "idle" /\ pc'[r] = "ddl" /\ want'[r] = w
      /\ \A q \in Requests : q # r => pc'[q] = pc[q] /\ want'[q] = want[q]
      /\ UNCHANGED <<schemas, physical, dbRows, tableRows, seen, unsure>>
  BY <1>1 DEF Begin, GoTo, IInv, TypeOK
<1>3. \A q \in Requests : q # r => Target(q)' = Target(q) /\ (Between(q)' <=> Between(q))
  BY <1>2 DEF Target, Between
<1>4. \A d : Created(d) => Created(d)'
  BY <1>2 DEF Created, Recorded
<1>5. \A d, n : Doubtful(d, n) => Doubtful(d, n)'
  <2> SUFFICES ASSUME NEW d, NEW n, Doubtful(d, n) PROVE Doubtful(d, n)'
    OBVIOUS
  <2>1. \A q \in Requests : q # r => want'[q] = want[q]
    BY <1>2
  <2> QED
    BY <1>2, <2>1, DoubtStays
<1>6. w.op \in {"createTable", "deleteTable"} => Created(w.db)
  BY <1>1 DEF IInv, SchemaInv, Created
<1>7. w.op = "deleteTable" => Target(r)' \in tableRows
  BY <1>1, <1>2 DEF Target
<1>8. MissingInv'
  BY <1>2, <1>3, <1>5 DEF MissingInv, BeingDeleted, Between
<1> QED
  BY <1>2, <1>3, <1>4, <1>5, <1>6, <1>7, <1>8

\* Steps that only move one request, never into its catalog stage nor out of
\* the stages between the stores while it is a deletion.
LEMMA MoveName ==
  ASSUME IInv, NameInv, NEW r \in Requests, pc[r] \notin {"idle", "done"},
         DDLFails(r) \/ Collect(r) \/ Breaks(r) \/ Drifts(r) \/ Crash(r)
  PROVE  NameInv'
<1> USE DEF NameInv
<1>1. /\ pc' = [pc EXCEPT ![r] = pc'[r]] /\ pc'[r] # "idle" /\ pc'[r] # "ddl"
      /\ UNCHANGED <<schemas, physical, dbRows, tableRows, want, unsure>>
      /\ pc'[r] = "catalog" => pc[r] = "collect"
      /\ pc'[r] = "undo" => pc[r] \in {"catalog", "collect"}
      /\ Between(r) /\ want[r].op \in Deletions => Between(r)'
      /\ pc[r] = "collect" => want[r].op = "deleteDb"
      /\ pc[r] \in {"idle", "undo"} => want[r].op \in Creations
      /\ pc'[r] = "undo" => want[r].op \in Creations
  BY DEF DDLFails, Collect, Breaks, Drifts, Crash, GoTo, AfterCatalogError,
         Between, IInv, TypeOK, WantInv, Creations, Deletions
<1>2. \A q \in Requests : q # r => pc'[q] = pc[q]
  BY <1>1 DEF IInv, TypeOK
<1>3. /\ \A q \in Requests : Target(q)' = Target(q)
      /\ \A q \in Requests : want[q].op \in Deletions /\ Between(q) => Between(q)'
      /\ \A d, n : Doubtful(d, n) => Doubtful(d, n)'
  BY <1>1, <1>2 DEF Target, Between, Doubtful, Disowned, DroppedTwice
<1>4. \A d : Created(d) => Created(d)'
  BY <1>1, <1>2 DEF Created, Recorded
<1>5. MissingInv'
  BY <1>1, <1>3 DEF MissingInv, BeingDeleted, Deletions
<1>6. \A q \in Requests : want[q].op = "createTable" /\ pc'[q] \in {"catalog", "undo"} =>
        \/ Target(q) \in physical \/ want[q].db \notin schemas
        \/ Doubtful(want[q].db, want[q].name)
  BY <1>1, <1>2
<1>7. \A q \in Requests : want[q].op = "deleteTable" /\ pc'[q] = "ddl" => pc[q] = "ddl"
  BY <1>1, <1>2
<1>8. \A q \in Requests : pc'[q] # "idle" => pc[q] # "idle"
  BY <1>1, <1>2
<1> QED
  BY <1>1, <1>3, <1>4, <1>5, <1>6, <1>7, <1>8

\* A schema or table is created.
LEMMA CreateName ==
  ASSUME IInv, NameInv, NEW r \in Requests, ExecuteDDL(r), want[r].op \in Creations
  PROVE  NameInv'
<1> USE CatalogAssumption DEF NameInv
<1>1. /\ pc[r] = "ddl" /\ pc'[r] \in {"catalog", "drifted"}
      /\ \A q \in Requests : q # r => pc'[q] = pc[q]
      /\ UNCHANGED <<dbRows, tableRows, want, seen, unsure>>
  BY DEF ExecuteDDL, GoTo, AfterDDL, IInv, TypeOK, Creations
<1>2. \/ /\ want[r].op = "createTable" /\ want[r].db \in schemas
         /\ At(physical, want[r].db, want[r].name) = {}
         /\ schemas' = schemas /\ physical' = physical \cup {Target(r)}
      \/ /\ want[r].op = "createDb"
         /\ schemas' = schemas \cup {r} /\ physical' = physical
  BY DEF ExecuteDDL, ApplyDDL, CreateObject, DDLApplies, Creations, Deletions
<1>3. /\ \A q \in Requests : Target(q)' = Target(q)
      /\ \A q \in Requests : Between(q) => Between(q)'
      /\ \A d : Created(d) => Created(d)'
      /\ \A d, n : Doubtful(d, n) => Doubtful(d, n)'
  BY <1>1 DEF Target, Between, Created, Recorded, Doubtful, Disowned, DroppedTwice
<1>4. OneName'
  BY <1>2 DEF OneName, At, Target
<1>5. \A d : Created(d) /\ d \notin schemas => d \notin schemas'
  BY <1>1, <1>2 DEF Created, Recorded, IInv, WantInv
<1>6. MissingInv'
  BY <1>1, <1>2, <1>3 DEF MissingInv, BeingDeleted
<1>7. ASSUME NEW q \in Requests, want[q].op = "createTable", pc'[q] \in {"catalog", "undo"}
      PROVE  \/ Target(q) \in physical' \/ want[q].db \notin schemas'
             \/ Doubtful(want[q].db, want[q].name)
  <2>1. CASE q = r
    BY <1>2, <1>7, <2>1
  <2>2. CASE q # r
    BY <1>1, <1>2, <1>5, <1>7, <2>2
  <2> QED
    BY <2>1, <2>2
<1>8. ASSUME NEW q \in Requests, want[q].op = "deleteTable", pc'[q] = "ddl"
      PROVE  \/ Target(q) \in tableRows \/ want[q].db \notin schemas'
             \/ Doubtful(want[q].db, want[q].name)
  BY <1>1, <1>5, <1>8
<1> QED
  BY <1>1, <1>3, <1>4, <1>6, <1>7, <1>8 DEF OneName

\* Something is dropped, by a deletion or by a compensation.
LEMMA DropName ==
  ASSUME IInv, NameInv, NEW r \in Requests,
         (ExecuteDDL(r) /\ want[r].op \in Deletions) \/ Drops(r)
  PROVE  NameInv'
<1> USE CatalogAssumption DEF NameInv
<1>1. /\ \/ /\ want[r].op \in Deletions /\ pc[r] = "ddl"
            /\ pc'[r] \in {"collect", "catalog", "drifted"}
         \/ want[r].op \in Creations /\ pc[r] = "undo" /\ pc'[r] \in {"failed", "drifted"}
      /\ \A q \in Requests : q # r => pc'[q] = pc[q]
      /\ UNCHANGED <<dbRows, tableRows, want, seen, unsure>>
  BY DEF ExecuteDDL, Drops, GoTo, AfterDDL, IInv, TypeOK, WantInv
<1>2. \/ /\ want[r].op \in {"createTable", "deleteTable"} /\ schemas' = schemas
         /\ physical' = physical \ At(physical, want[r].db, want[r].name)
      \/ /\ want[r].op \in {"createDb", "deleteDb"} /\ schemas' = schemas \ {want[r].db}
         /\ physical' = physical \ In(physical, want[r].db)
  BY DEF ExecuteDDL, Drops, ApplyDDL, CreateObject, DropTableNamed, DropSchema,
         Creations, Deletions
<1>3. /\ \A q \in Requests : Target(q)' = Target(q)
      /\ \A q \in Requests : want[q].op \in Deletions /\ Between(q) => Between(q)'
      /\ want[r].op \in Deletions => Between(r)'
      /\ \A d : Created(d) => Created(d)'
      /\ \A d, n : Doubtful(d, n) => Doubtful(d, n)'
  BY <1>1 DEF Target, Between, Created, Recorded, Deletions, Creations, Doubtful, Disowned,
              DroppedTwice
<1>4. physical' \subseteq physical /\ schemas' \subseteq schemas
  BY <1>2
<1>5. \A t \in physical \ physical' :
        \/ want[r].op \in {"createTable", "deleteTable"} /\ t.id = want[r].id
        \/ Doubtful(t.db, t.name)
        \/ want[r].op \in {"createDb", "deleteDb"} /\ t.db = want[r].db
                                                  /\ t.db \notin schemas'
  BY <1>1, <1>2, DropHits DEF At, In, Creations, Deletions
<1>6. MissingInv'
  <2> SUFFICES ASSUME NEW t \in tableRows, t \notin physical', ~Doubtful(t.db, t.name)
               PROVE  \E q \in Requests : Between(q)' /\
                        \/ want[q].op = "deleteTable" /\ want[q].id = t.id
                        \/ want[q].op = "deleteDb" /\ want[q].db = t.db
    BY <1>1, <1>3 DEF MissingInv, BeingDeleted
  <2>1. CASE t \notin physical
    <3>1. PICK q \in Requests : Between(q) /\
                        \/ want[q].op = "deleteTable" /\ want[q].id = t.id
                        \/ want[q].op = "deleteDb" /\ want[q].db = t.db
      BY <2>1 DEF MissingInv, BeingDeleted
    <3> QED
      BY <1>3, <3>1 DEF Deletions
  <2>2. CASE t \in physical
    <3>1. want[r].op \in Deletions
      <4> SUFFICES ASSUME want[r].op \in Creations PROVE FALSE
        BY DEF IInv, TypeOK
      <4>1. pc[r] = "undo" /\ want[r].id = r
        BY <1>1 DEF IInv, WantInv, Creations, Deletions
      <4>2. CASE want[r].op = "createTable"
        <5>1. t.id = r /\ r \in unsure
          BY <1>5, <2>2, <4>1, <4>2, CatalogAssumption DEF IInv, TableInv, Recorded
        <5>2. t = Target(r)
          BY <2>2, <5>1, CatalogAssumption DEF IInv, TableInv
        <5>3. t.db = want[r].db /\ t.name = want[r].name
          BY <5>2 DEF Target
        <5> QED
          BY <4>2, <5>1, <5>3 DEF Doubtful, Disowned
      <4>3. CASE want[r].op = "createDb"
        <5>1. t.db = r /\ Created(t.db)
          BY <1>5, <2>2, <4>1, <4>3 DEF IInv, WantInv
        <5> QED
          BY <4>1, <4>3, <5>1, CatalogAssumption DEF Created, Recorded, Doubtful, Disowned
      <4> QED
        BY <4>2, <4>3 DEF Creations
    <3> QED
      BY <1>3, <1>5, <2>2, <3>1 DEF Deletions
  <2> QED
    BY <2>1, <2>2
<1>7. ASSUME NEW q \in Requests, want[q].op = "createTable", pc'[q] \in {"catalog", "undo"}
      PROVE  \/ Target(q) \in physical' \/ want[q].db \notin schemas'
             \/ Doubtful(want[q].db, want[q].name)
  <2>1. q # r /\ pc[q] = pc'[q]
    BY <1>1, <1>7 DEF Deletions
  <2>2. Target(q).id = q /\ Target(q).db = want[q].db /\ Target(q).name = want[q].name
    BY <1>7 DEF Target, IInv, WantInv, Creations
  <2>3. Target(q) \in physical =>
          \/ Target(q) \in physical' \/ want[q].db \notin schemas'
          \/ Doubtful(want[q].db, want[q].name)
    <3>1. want[r].op = "deleteTable" => want[r].id # q \/ Doubtful(want[q].db, want[q].name)
      BY <1>7, <2>1 DEF IInv, WantInv, Recorded, Doubtful, Disowned
    <3>2. want[r].op = "createTable" => want[r].id # q
      BY <2>1 DEF IInv, WantInv, Creations
    <3> QED
      BY <1>5, <2>2, <3>1, <3>2
  <2> QED
    BY <1>4, <1>7, <2>1, <2>3
<1>8. ASSUME NEW q \in Requests, want[q].op = "deleteTable", pc'[q] = "ddl"
      PROVE  \/ Target(q) \in tableRows \/ want[q].db \notin schemas'
             \/ Doubtful(want[q].db, want[q].name)
  BY <1>1, <1>4, <1>8
<1> QED
  BY <1>1, <1>3, <1>4, <1>6, <1>7, <1>8 DEF Creations, Deletions

\* The catalog transaction commits.
LEMMA CommitsName ==
  ASSUME IInv, NameInv, NEW r \in Requests, Commits(r)
  PROVE  NameInv'
<1> USE CatalogAssumption DEF NameInv
<1>1. /\ pc[r] = "catalog" /\ pc'[r] \in {"done", "undo", "drifted"}
      /\ unsure \subseteq unsure' /\ (pc'[r] = "undo" => want[r].op \in Creations)
      /\ \A q \in Requests : q # r => pc'[q] = pc[q]
      /\ UNCHANGED <<schemas, physical, want, seen>>
  BY DEF Commits, GoTo, AfterCatalogError, IInv, TypeOK
<1>2. \/ want[r].op = "createDb" /\ tableRows' = tableRows
      \/ /\ want[r].op = "createTable" /\ \E d \in dbRows : d.id = want[r].db
         /\ tableRows' = tableRows \cup {Target(r)}
      \/ /\ want[r].op = "deleteTable"
         /\ tableRows' = {t \in tableRows : t.id # want[r].id}
      \/ /\ want[r].op = "deleteDb"
         /\ tableRows' = tableRows \ In(tableRows, want[r].db)
  BY DEF Commits, ApplyCatalog, CatalogAccepts
<1>3. /\ \A q \in Requests : Target(q)' = Target(q)
      /\ \A q \in Requests : q # r => (Between(q)' <=> Between(q))
      /\ Between(r)
      /\ \A d : Created(d) => Created(d)'
      /\ \A d, n : Doubtful(d, n) => Doubtful(d, n)'
      /\ Target(r).db = want[r].db /\ Target(r).id = want[r].id
  BY <1>1 DEF Target, Between, Created, Recorded, Doubtful, Disowned, DroppedTwice
<1>4. \A t \in tableRows' : Created(t.db)'
  BY <1>1, <1>2, <1>3
<1>5. MissingInv'
  <2> SUFFICES ASSUME NEW t \in tableRows', t \notin physical, ~Doubtful(t.db, t.name)
               PROVE  \E q \in Requests : q # r /\ Between(q) /\
                        \/ want[q].op = "deleteTable" /\ want[q].id = t.id
                        \/ want[q].op = "deleteDb" /\ want[q].db = t.db
    BY <1>1, <1>3 DEF MissingInv, BeingDeleted
  <2>1. CASE t \in tableRows
    <3>1. PICK q \in Requests : Between(q) /\
                        \/ want[q].op = "deleteTable" /\ want[q].id = t.id
                        \/ want[q].op = "deleteDb" /\ want[q].db = t.db
      BY <2>1 DEF MissingInv, BeingDeleted
    <3>2. q # r
      BY <1>2, <2>1, <3>1 DEF In
    <3> QED
      BY <3>1, <3>2
  <2>2. CASE t \notin tableRows
    <3>1. /\ t = Target(r) /\ want[r].op = "createTable"
          /\ \E d \in dbRows : d.id = want[r].db
      BY <1>2, <2>2
    <3>2. t.db = want[r].db /\ t.name = want[r].name
      BY <3>1 DEF Target
    <3>3. want[r].db \notin schemas
      BY <1>1, <3>1, <3>2
    <3>5. want[r].db \notin unsure
      BY <3>1, <3>2, CatalogAssumption, <2>2
      DEF IInv, SchemaInv, TypeOK, Doubtful, Disowned
    <3>4. PICK q \in Requests : want[q].op = "deleteDb" /\ want[q].db = want[r].db
                                /\ Between(q)
      BY <3>1, <3>3, <3>5 DEF IInv, MissingSchemaAccounted
    <3> QED
      BY <1>3, <3>1, <3>4
  <2> QED
    BY <2>1, <2>2
<1>6. ASSUME NEW q \in Requests, want[q].op = "deleteTable", pc'[q] = "ddl"
      PROVE  \/ Target(q) \in tableRows' \/ want[q].db \notin schemas
             \/ Doubtful(want[q].db, want[q].name)
  <2>1. q # r /\ pc[q] = "ddl"
    BY <1>1, <1>6
  <2>2. CASE Target(q) \in tableRows
    <3>1. want[r].op = "deleteTable" /\ Target(q).id = want[r].id =>
            Doubtful(want[q].db, want[q].name)
      BY <1>6, <2>1, <2>2, TwiceOne DEF Target
    <3>2. want[r].op = "deleteDb" /\ Target(q).db = want[r].db => want[q].db \notin schemas
      BY <1>3 DEF Target, IInv, BetweenInv
    <3> QED
      BY <1>2, <2>2, <3>1, <3>2 DEF In
  <2> QED
    BY <1>6, <2>1, <2>2
<1>7. \A q \in Requests : want[q].op = "createTable" /\ pc'[q] \in {"catalog", "undo"} =>
        \/ Target(q) \in physical \/ want[q].db \notin schemas
        \/ Doubtful(want[q].db, want[q].name)
  BY <1>1
<1>8. \A q \in Requests : pc'[q] # "idle" => pc[q] # "idle"
  BY <1>1
<1> QED
  BY <1>1, <1>3, <1>4, <1>5, <1>6, <1>7, <1>8

LEMMA InitName == Init => NameInv
<1> SUFFICES ASSUME Init PROVE NameInv
  OBVIOUS
<1>1. PICK n \in Names :
        /\ physical = {[id |-> Table0, db |-> Db0, name |-> n]} /\ tableRows = physical
        /\ want = [r \in Requests |-> [op |-> "createDb", id |-> r, db |-> r, name |-> n]]
        /\ pc = [r \in Requests |-> "idle"] /\ unsure = {}
  BY DEF Init
<1> QED
  BY <1>1 DEF NameInv, Created, MissingInv, BeingDeleted

LEMMA NextName ==
  ASSUME IInv, NameInv, [Next]_vars
  PROVE  NameInv'
<1>1. CASE UNCHANGED vars
  BY <1>1 DEF vars, NameInv, Created, Recorded, MissingInv, BeingDeleted, Between, Target, Doubtful,
              Disowned, DroppedTwice
<1>2. ASSUME NEW r \in Requests,
             DDLFails(r) \/ Collect(r) \/ Breaks(r) \/ Drifts(r) \/ Crash(r)
      PROVE  NameInv'
  <2>1. pc[r] \notin {"idle", "done"}
    BY <1>2 DEF DDLFails, Collect, Breaks, Drifts, Crash
  <2> QED
    BY <1>2, <2>1, MoveName
<1>3. ASSUME NEW r \in Requests, ExecuteDDL(r) PROVE NameInv'
  <2>1. want[r].op \in Creations \/ want[r].op \in Deletions
    BY DEF IInv, TypeOK
  <2> QED
    BY <1>3, <2>1, CreateName, DropName
<1>4. ASSUME NEW r \in Requests, Begin(r) \/ Commits(r) \/ Drops(r) PROVE NameInv'
  BY <1>4, BeginName, CommitsName, DropName
<1> QED
  BY <1>1, <1>2, <1>3, <1>4, Outcomes DEF Next, Ended

\* A table row without its table is the trace of a deletion under way or cut
\* off, or bears a name under which two requests deleted one table, however
\* requests interleave and whatever fails (delete_table).
THEOREM MissingTablesAreAccounted == Spec => []MissingTableAccounted
<1>1. Init => NameInv
  BY InitName
<1>2. IInv /\ NameInv /\ [Next]_vars => NameInv'
  BY NextName
<1>3. NameInv => MissingTableAccounted
  BY DEF NameInv, MissingInv, MissingTableAccounted, Doubtful, Disowned, DroppedTwice
<1> QED
  BY <1>1, <1>2, <1>3, Invariant, PTL DEF Spec
=============================================================================
