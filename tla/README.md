# Intra-Cloud Engine: a verification development of the backend

TLA+ models of the backend of `src/apps/backend` (Django, Celery, two
PostgreSQL clusters, an S3-compatible object store), the TLC configurations
that check them on small instances, and TLAPS proofs of what matters most for
every instance.

The backend's hard part is one recurring situation: **an operation changes
several stores that no transaction spans**. There are three of them: the
*control* database (Django's `default` connection: catalog, jobs, files,
members), the *tenant* cluster (`tenant` connection: the users' schemas, tables
and rows) and the *object store*. An operation commits to them one after the
other, any of the commits may fail, fail after taking effect, or be the last
thing the process does, and other requests run in between. Celery adds retries
of half-done work. Each module is one such operation or family of operations,
with every commit as a step of its own. The other hard part is **state that is
loaded, checked and used later**: sessions, credentials, shares, dashboards,
connections and columns change between a request's SELECT and its UPDATE.

## 1. Inventory

| Component | State it keeps | Operations | Interacts with |
|---|---|---|---|
| CSV import jobs (`imports/`) | `ImportJob`, `ImportJobError` rows; rows in a tenant table | start, run, checkpoint, retry | file storage (reads the CSV), schema builder (target table), Celery |
| Schema builder (`databases/services.py`) | `TenantDatabase`, `DBTable`, `DBColumn`, constraints in control; schemas and tables in tenant | create/delete database and table, add column, add foreign key | row layer, imports, restore |
| Row layer (`databases/rows.py`, `values.py`) | tenant rows | list, insert, update, delete | imports, restore, analytics |
| Connected databases (`databases/connections.py`, `connectors.py`) | connection rows with encrypted secrets | create, test, schema, rows, delete | external servers |
| File storage (`storage/`) | `FileObject`, `FileVersion`, `Bucket`, `Folder` rows; objects | upload, new version, PATCH, delete, restore, download | object store, scanner; imports, exports |
| Portable export (`exports/`) | `ExportJob` row, package object | start, run, download, retry | reads everything of an organization |
| Portable restore (`exports/`) | `RestoreJob` row, staged package, new organization | stage, run, retry | writes all three stores |
| Permissions, roles (`permissions/`) | role assignments, resource grants | assign, grant, revoke, decide | every view |
| Sharing (`sharing/`) | `ShareGrant` rows fanned out to resource grants | create, revoke | permissions |
| Organizations (`organizations/`) | organizations, memberships, teams | create, add member, assign role, join and leave teams | permissions |
| Accounts, MFA (`accounts/`) | users, TOTP secrets, sessions | register, log in, verify, enroll, confirm, disable, log out | |
| Applications (`applications/`) | service accounts, credentials | register, issue, use, rotate, revoke, grant | permissions |
| Backups (`system/backups.py`) | `BackupRecord` rows, files on disk | back up, verify | all three stores, external tools |
| Audit (`audit/`) | append-only events | record | called by every operation |
| Analytics (`analytics/operations.py`, `data.py`, `profiling.py`) | none | 21 operations and a profile | row layer |
| Dashboards (`analytics/services.py`) | `Dashboard` rows | create, update, delete, render | analytics, permissions, schema builder |
| Workspaces, throttling, middleware | containers; none | create, list | |
| Frontend, Control Center, installer | no server state | | API; host |

What is hard to test, by component, is the `hazards` list of `PROJECT.json`,
each at its line. In short:

* **imports**: a row is committed on one connection and the progress that makes
  a retry skip it on another, later; the counters, the errors and the retry
  count are all carried across attempts.
* **schema builder**: DDL first, catalog second, compensation *by name*; what a
  request loaded is stale by the time it drops something.
* **files**: the object is put before the row names it and deleted after the
  row stopped naming it; a PATCH writes back fields it never changed.
* **exports and restores**: the job row, the package and the restored
  organization are changed by an attempt that is retried as a whole.
* **packages**: read table by table while users write; what a live database
  allows (circular tables, forward references, timestamps) need not restore.
* **sharing, roles, teams**: long sequences of legal calls: shares that overlap,
  expire, and are revoked for a team whose members have changed.
* **accounts, credentials**: a code checked against a secret loaded earlier; a
  session saved by two logins; a credential rotated twice, or after revocation.
* **backups**: steps outside the handler that records failures; listings that
  are stale when their objects are read; verifications that share a name.
* **connections, dashboards, analyses**: results that are saved or shown after
  the world they describe has changed.

What makes each component correct:

* import: no acceptable row is skipped, published counters describe a prefix of
  the file, errors are stored once, a final status is truthful and is reached;
* schema builder: what exists in one store only is accounted for by a request
  in flight or cut off, and users only ever see tables published once;
* files: rows and versions name objects that exist, acknowledged content of a
  versioned bucket stays reachable, unreferenced objects are accounted for;
* export: a COMPLETED export's package matches its recorded checksum;
* restore: an organization in the catalog is complete, job statuses are
  truthful, retries do not restore twice, jobs end; a package is refused for a
  known reason only, and what is restored is what was exported;
* columns, keys, rows: the two stores agree on them, an acknowledged row keeps its
  values until somebody changes it;
* access: authority traces to its origin, shares and revocations reach whom
  they should;
* accounts, credentials: no session gets past an enabled second factor, no
  revoked credential comes back;
* backups: a successful one is complete and on disk, verification leaves no
  trace, bad news is explained, records end;
* connections, analyses, dashboards: what is shown is what was tested, fetched
  or allowed, as of a moment that can be named.

## 2. Modules

| Module | Models | Kind |
|---|---|---|
| `ImportJob` | `start_import`, `run_import`, `_checkpoint`, `run_import_task` | detailed |
| `RowLedger` | what an import promises: exactly-once, in file order | abstract |
| `ImportJobProofs` | inductive invariant and refinement of `ImportJob` | proofs |
| `SchemaCatalog` | creation and deletion of databases and tables, interleaved | detailed |
| `TableRegistry` | what users see: tables published once, never resurrected | abstract |
| `SchemaCatalogProofs` | inductive invariants and refinement of `SchemaCatalog` | proofs |
| `FileStore` | upload, version, PATCH, delete, restore, download, interleaved | detailed |
| `FileArchive` | what a versioned bucket promises: an append-only archive | abstract |
| `FileStoreProofs` | inductive invariants and refinement of `FileStore` | proofs |
| `RestoreJob` | staging, `run_restore`, `restore_package`, retries | detailed |
| `RestorePromise` | what users see of a restore: one organization, whole, then COMPLETED | abstract |
| `ExportJob` | `start_export`, `run_export`, retries, a racing download | detailed |
| `TableData` | columns, foreign keys and rows of tables that come and go | detailed |
| `Access` | roles, memberships, teams, applications, shares and their grants | detailed |
| `Authentication` | sessions, second factor, service credentials | detailed |
| `Backups` | backups and verifications against a bucket in use | detailed |
| `Connections` | the life of a connected external database | detailed |
| `Analytics` | what an analysis fetches, drops and requires | detailed |
| `Dashboards` | dashboards changed and rendered in a changing world | detailed |
| `Package` | what goes into a package and what comes out of it | detailed |
| `RestoreJobProofs`, `ExportProofs` | inductive invariants of `RestoreJob` (with its refinement), and of `ExportJob` and `Package` | proofs |
| `AccessProofs`, `BackupsProofs` | inductive invariants of `Access` and `Backups` | proofs |
| `ServicesProofs` | inductive invariants of `Authentication`, `Connections`, `Analytics`, `Dashboards` and `TableData` | proofs |
| `MC*` | instances for TLC; `MCServices` holds `Authentication` and the last four side by side | model checking |

Conventions: `pc` says where a handler or task stands between two commits; one
action per commit, call to a store or branch; `X_Y` is a faulty variant of `X`,
used to see that a property notices the bug. `Faults` names what the environment may
do; the system's own reactions to a fault (handlers, compensations, retries) are
never optional.

### ImportJob

`copies[r]` counts the rows in the tenant table, `job` is the `ImportJob` row,
`errors` its `ImportJobError` rows, `run` the locals of `run_import`
(`imported`, `rejected`, `last_completed_row`, `pending_errors`). `bad` is the
set of rows that conversion or a constraint rejects whatever is in the table,
`unique` that of the rows with a value for a UNIQUE column, both chosen at the
start. A `unique` row that an attempt committed and did not checkpoint is rejected
by the next one; `again` is the history of these. The fault `"ambiguous"` is a row
that is committed while its client sees an error, `"unacknowledged"` the same of a
statement on the control database: a checkpoint, its `bulk_create`, or the
COMPLETED save.
`ImportRow`/`RejectRow` are one iteration of the loop; `SaveProgress` and
`SaveErrors` are the two statements of `_checkpoint`, called from three places;
`CheckpointFails` sends the loop to the handler, which checkpoints again.
`Start` reloads the counters from the job row, which is what makes a retry
resume. `RetryReportsExc` distinguishes what Celery does when `retry` is given
`exc=` (TRUE: that exception is raised) from the contract that the comments in
the tasks assume (FALSE: `MaxRetriesExceededError`). Every run uses TRUE; the
theorems hold for both.

### SchemaCatalog

`schemas`, `physical` are the tenant cluster; `dbRows`, `tableRows` the
catalog. A request goes `idle -> ddl -> [collect ->] catalog -> done`, with
`failed` (answered with an error), `undo` (the compensating DROP) and `drifted`
(cut off between the stores: crash, failed compensation, failed catalog
deletion). A table is identified by the request that creates it, so the model
can tell a table from a later one of the same name, which the code's DROP
cannot. `Collect` is Django's collection of cascading rows before the DELETE.
A catalog write may fail without effect, or be committed and raise all the same:
the request goes to `undo` either way, and drops what it made although its row is
there. `unsure` is the history of the second case.

### FileStore

`stored` is the set of object keys, `rows` and `versions` the two tables,
`held[r]` the row as request `r` loaded it. `NewRow` is the difference that
matters between the operations: all but PATCH name the fields they update.
Constraints of the tables (`unique_active_filename_per_folder`, the unique
`FileVersion.object_key`) are `NameFree` and `VersionIsNew`. Requests for one file
interleave as they like. `reverted[f]` is the history of the keys a PATCH took out
of the row of `f` by writing back an earlier one.

### RestoreJob and ExportJob

An attempt is identified by its number. `orgs`, `schemas` and `objects` hold
the attempts whose work is committed in the control database, the tenant
cluster and the object store. `Connection` is the order in which the two nested
`atomic` blocks of `restore_package` commit. `occurred` records which kinds of
fault have occurred so far, so that a property can say what it rests on ("while
the object store answers"), in one run that has them all.

`RestorePromise` is the restore without stores, workers or retries: an
organization appears once, whole; COMPLETED follows it and is final; FAILED is
said only while there is none, and may be taken back by a retry. In the mapping
an organization is whole when its schemas are committed, and every status but
COMPLETED and FAILED is "open". A worker that cannot save its verdict breaks the
promise (a retry of a restore that committed, in an old status), so `PromiseKept`
asks for it as long as the control database answers and acknowledges, whatever
happens to the object store, the tenant cluster and the worker.

### TableData

`db` is the tenant side (`tabs`, `cols`, `keys`, `rows`), `ctabs`, `ccols`,
`ckeys` the catalog. As in `SchemaCatalog` an object is identified by the
request that creates it, so the model knows when a statement that names a table
reaches another one of that name. A schema request loads (`Begin...`), executes
its DDL, writes the catalog, and compensates when that fails; a row request
validates against the catalog's columns and then runs its statement, which
PostgreSQL's constraints (`Sound`) may refuse. A catalog write may take effect and
raise, as in `SchemaCatalog` (`unsure`). The column of a foreign key may be any
column, the primary key included, as nothing in the code forbids it. `Mixes`
bounds which operations meet in one behaviour, and on which columns keys are laid
(`keyed`), so that each combination can have enough requests.

### Access

`roles`, `grants` and `shares` are the three tables authority rests on,
`members` says which team, if any, a member of an organization belongs to.
`HasPermission` is the decision every view makes. Creation of a share and its
revocation are taken apart where the code is not one transaction: revocation
finds the principal's users, deletes their grants and marks the share, and may
be cut off in between. Who granted what, and who was reached by a revocation,
are history.

### Authentication

A request of a browser loads the user's row first and saves some of its columns
later. `Saved`, `Upgraded` and `Waiting` are what Django's session does on
`set_expiry`, `login` and a waiting second factor. Secrets are numbers, a code
is a secret and a period, and `VerifyTotp` is the window. A caller loads a
credential, and uses, rotates or revokes it later.

### Backups

A record goes from RUNNING to a status it may never reach: `Seal` and
`SaveRecord` are outside the handler, and so are `os.makedirs` before the file is
made and `os.path.getsize` after it (`OutsideFails`). The object backup reads its listing page
by page (`NextPage` continues after the last key) and its objects one by one,
while users put and delete. A verification restores into a database or a
prefix named after the record, compares, cleans up and saves its verdict; two
of them, of the same record too, may overlap. CREATE DATABASE and the put of a
scratch object may take effect and raise (`Unanswered`), after which no cleanup
knows of them. `met` records which records met a
deletion or another verification, `hurt` which faults.

### Connections, Analytics, Dashboards, Package

`Connections`: `CheckHost` resolves and checks the host, `Dial` is the driver
resolving it again; the outside may change between any two steps.
`Analytics`: one analysis, its one or two `fetch_columns` of two statements
each, and what is left once NULLs are dropped. Tables are sets: the SELECT has no
ORDER BY, so what it returns is any subset of the size of the LIMIT, and users
insert and delete rows in between (`seenAt` is when each fetch selected, `raced`
which fetches met a write between COUNT and SELECT). `Dashboards`: changes are
load, check, save; a rendering goes widget by widget through lookup, permission
and query. `log` is the sequence of circumstances: the permissions users hold, the
tables whose operations refuse their data or parameters (`AnalyticsValidationError`,
caught per widget), those on which they raise anything else (not caught), and
whether the databases are out of reach. `Package`: `build_export` reads table by
table and file by file, and each file's object has a content of its own, which the
builder compares with the checksum on record (`Readable`, `Archived`); `Restore`
applies what `TopologicalOrder`, `Converted`, `Inserts` (does a row find the rows
it references, are its values allowed beside those inserted before?) and
`RestoreSucceeds` say of the result.

## 3. Runs

| Run | Instance | Shows |
|---|---|---|
| `import_faults` | 5 rows, checkpoint every 2, 2 retries, all faults, unacknowledged saves among them | no row skipped, counters exact, copies bounded by attempts, recorded progress kept, and final statuses but for an unacknowledged one |
| `import_ledger` | the same, control database answers and commits are acknowledged, fair | the job implements `RowLedger`; every rejection explained; jobs end |
| `import_exhausted` | 3 rows, tenant fault | *violation*: a job that has used up its retries stays RUNNING |
| `catalog_faults` | 4 requests, 2 names, all faults, unacknowledged commits among them, symmetric | orphans, missing tables and refused creations accounted for; implements `TableRegistry` |
| `tabledata` | 2 tables, 3 or 4 requests, 1 fault, symmetric | catalog and tenant agree on columns and keys, acknowledged rows are kept |
| `files_versioned` | 3 requests in every overlap, folder and root, all faults | implements `FileArchive`; nothing is lost, but at most the latest content of a file is out of reach |
| `files_unversioned` | 3 requests in every overlap, folder and root, all faults | a row names a deleted object only where a PATCH revived its key; misses and orphans accounted for |
| `restore_faults` | 2 retries, all faults, fair | catalog backed by schemas, statuses truthful, at most one organization, `RestorePromise` kept, jobs end |
| `export_faults` | 2 retries, all faults, a client, fair | package matches its checksum, downloads are whole, exports end |
| `access` | 3 users, 2 organizations, 2 shares, 6 requests | authority is traceable, shares and revocations reach whom they should |
| `backups` | 2 records, 2 verifications, 2 keys, 1 fault, fair | archives complete, verification clean but for named leftovers, bad news explained, records end |
| `services` | five services side by side, one per behaviour | see below |

`services` has nine properties. *Connections*: every address that is dialled was
checked unless the name changed in between (`DialsWereChecked`); the status is
true and a deleted connection stays deleted (`StatusIsTrue`). *Analytics*: caps,
truncation marks, samples and counts (`ResultsAreHonest`). *Dashboards*:
`BoardsAreKept` and `RendersAreCurrent`. *Package*: `RestoresExactly` says which
packages are refused, over every graph of three tables, and `PackageIsFaithful`
what one contains and restores. *Authentication*: `LoginsAreSound`,
`RevokedStaysRevoked`.

Several properties are conjunctions of named parts, each with a comment of its
own (`StoresAgree`, `AuthorityIsSound`, `ColumnsAgree`, ...): the parts are the
statements to read, the conjunction is what a run lists.

**Exceptions are part of the properties.** Where the code does not guarantee
what one would like, the property says what it guarantees, with each exception
named and as narrow as TLC allows: `DroppedTwice`, `Disowned` (both in
`SchemaCatalog` and in `TableData`), `unsure`, `LostToUndo`, `Misdirected`,
`Revived`, `crossed`, `overlapped`, `raced`, `met`. Section 5 lists them as behaviours.

**Bounds.** A row's fate in an import depends on its position relative to
checkpoints only: five rows and chunks of two put rows inside, at the end of and
after the last full chunk, and two retries let an attempt resume one that itself
resumed. The code's import allows three retries and its chunk is 1000; the
theorems hold for every value. `MaxStoredErrors` is 3, above a chunk, as in the
code (1000 each). Four schema requests are enough for a creation, two deletions
of its predecessor and one bystander, which is the smallest history in which a
DROP hits the wrong table and something else can then happen. In `tabledata`,
four requests create, drop and extend tables or lay keys among them, and three
of each other mix meet (with four, a key can reach a table that replaced the
one it was meant for and outlive its catalog row); one fault suffices, because
each request has one catalog write to lose. Three
file requests let two overwrites race while a third loads either result.
Restore runs use 2 retries where the code has 1, to see what a second retry
would find. Six requests in `access` are an organization, a member, a role or
team, two shares and a revocation. In `backups` two keys and pages of one make
every object a page boundary. `services` uses three requests per connection and
dashboard; a rendering changes nothing another request looks at, so there is at
most one, and only for it do the circumstances change twice (`Renderings`).
Analyses are ten operations, one for each kind of requirement (`MCOperations`; the
theorem is about all), on tables of up to two rows in every shape and of five and
six rows, as many as the cap and one more, in at most two groups. Packages are
every graph on three tables with two row ids and no write, two of the graphs with
up to two and three writes, which is what it takes to fill, tear and reorder them,
and every combination of checksums on record and in the store of two files.
Authentication has five requests of two browsers, enough to enroll, confirm and
log in again, or to overlap a confirmation with a second enrollment. Runs with
symmetry check safety only.

**Fairness.** `FairSpec` asks for weak fairness of the request that creates and
sends a job and of the worker's steps taken together: a live Celery worker
takes what is queued and executes a task until it returns. In `Backups` it is
weak fairness of each task that has begun, since each has a worker of its own.
No fault is ever forced, and no fairness is asked of clients. `WorkerKilled` and
a failed publish make `task = "lost"`: the queue acknowledges on delivery and
nothing requeues, so the liveness properties except these. They also except a
job that has used up its retries without a final status, which Celery's
`retry(exc=...)` leads to (`import_exhausted`, and the same in
`exports/tasks.py`); that the retries *are* used up, and are not repeated for
ever, is what they show.

## 4. Proofs

TLAPS checks these for every value of the constants: any number of rows,
requests, retries and names, any set of faults.

**`ImportJobProofs`.** `IInv` adds to `TypeOK` what makes the properties
inductive. The heart is that the locals describe the prefix the loop has
settled (`run.imported` and `run.rejected` count, up to `run.last`, the rows
outside and inside `bad` and `again`), that the job row describes a shorter
prefix, and that `run.pending` holds rejected rows after the last stored ones;
copies of a row are bounded by the attempts that can have passed it, and by one
for a `unique` row. A COMPLETED job has a live task only after a save that was not
acknowledged, which is the one exception of `ProgressKept`. The bare properties are
not inductive because nothing in them relates the locals to the job row between
the two statements of a checkpoint. `PrefixCount`, `PrefixStep` and
`PrefixStable` are the lemmas on counting that every step needs. From `IInv`
follow `TypeCorrect`, `NoRowIsSkipped`, `CountersAgree`, `ErrorsAreStoredOnce`,
`CopiesAreBounded`, `CompletedIsComplete` and `ProgressKept`. `ExplainInv` says that a rejected row
the loop has passed is stored or pending, and that no row pending in the loop is
older than the last checkpoint, so the cap on pending errors is never reached
there (`CapNotReached`). It gives `RejectionsExplained`, which assumes that
`"control"` and `"unacknowledged"` are not in `Faults` and that a chunk is no longer
than the cap, as in the code, where both are 1000: a failed statement or a larger
chunk loses errors. `Refinement` (the job implements `RowLedger`) assumes `Quiet`:
none of `"control"`, `"unacknowledged"` and `"ambiguous"` is in `Faults`; section 5
says why the assumption is needed.

**`SchemaCatalogProofs`.** `IInv` says where a request's objects can be at each
stage (a creation in `catalog` or `undo` owns what it created or has had it
dropped, a failed one owns nothing, nothing but a creation's own objects lacks
a row). By what they do to the two stores, the four outcomes of a statement are a
commit, a break, a drop or a drift (`Outcomes`), so that each is argued once. It
yields `TypeCorrect`, `OrphansAreAccounted`, `FailedCreationIsClean`,
`MissingSchemasAreAccounted` and the `Refinement` to `TableRegistry`, all
without restricting `Faults`. `MissingTablesAreAccounted` needs a second
invariant, and no restriction either: `NameInv` says, name by name, that every
DROP TABLE hits the table its request is about, *unless the name is doubtful*: two
requests deleted one table of it (`DroppedTwice`), or a creation that was committed
has been compensated for (`Disowned`). These exceptions are cases of
`MissingTableAccounted` itself; they never go away again (`DoubtStays`), two
overlapping deletions are the only way into the first (`TwiceOne`), and outside of
them a DROP finds its own table (`DropHits`).

**`FileStoreProofs`.** A key is named by rows and versions only once the upload
that drew it has saved, and only for the file of that upload (`KeyInv`); so a
key about to be saved is new, and the object a version upload deletes is no
other file's. This `IInv` yields `TypeCorrect` and `ChecksumsCorrect`. The other
theorems need to know what becomes of a content that a row has named, under every
overlap: it is current, or a PATCH took it out (`reverted`), or a version upload
replaced it (`Gone`: it is a version, or in an unversioned bucket that upload
holds its key). `LineInv` says that a file's contents form a line: of those
current or taken out at most one has not been replaced, the latest; a key that a
request holds, or has saved, is one of the file's. The reason is the unique
`FileVersion.object_key`, which refuses the second of two uploads that replace the
same content; without versions nothing refuses it, and the line is claimed only
where no two uploads hold the same key. `NothingIsLostHolds` and
`ArchiveImplemented` follow: a versioned bucket implements `FileArchive`, whose
`Write` is the save of an upload and whose `Show` that of a PATCH. `StoreInv` is
about the objects: a key that a request holds is stored, or was dropped by a
version upload that held it too; and the row of an upload about to drop its old
object names another one, unless a PATCH has put the old key back. It gives
`NothingDanglesHolds`, and with `LineInv` `ObjectsAlwaysAccounted`. None of these
theorems restricts faults or overlaps.

**`RestoreJobProofs`.** What an attempt has committed is known from where the
task stands (`StageInv`); while the control database answers, whoever has
committed is on the way to COMPLETED or the task is over (`QuietInv`); while the
object store answers, an organization and its staged package meet only until the
`finally` clause, so no later attempt gets past the fetch (`StagedInv`). These are
what the bare properties lack: nothing in them excludes a retry that starts next
to an organization already committed. `FirstInv` says of organizations what
`QuietInv` says of schemas, so that each of the two databases is reason enough for
there to be one organization. `StoresAlwaysAgree` and `AtMostOneOrganization`
follow, for any number of retries and every set of faults.

The same invariant gives the refinement. `NotYet`: while the control database
answers, a step before the commit, or a retry, finds no organization and a status
that is not COMPLETED. Then each action is a step of `RestorePromise` or a stutter
(`PromiseStep`): the second commit of `restore_package` is its `Appear`, the last
save of `run_restore` its `Succeed`, the handler its `Fail`, the next attempt its
`TryAgain`. `PromiseIsKept` states it for every set of faults, as long as the
control database has answered; `Refinement` as `Spec => Promise!Spec` where the
faults leave that database out.

**`ExportProofs`.** A retried attempt writes over the package of an earlier one,
so `StageInv` says that a package is put only while the job is RUNNING, and
`QuietInv` that a COMPLETED job is not run again, and a download was loaded from
the job as it still is, as long as the control database answers and acknowledges.
`PackagesAlwaysMatch` follows without restricting `Faults`.

Its second part is about `Package`. `_topological_order` is a recursion, a visit
within a pass within the passes, and the induction theorems of the library cannot
be used (they take an operator). But a recursion over `0..N` needs only a set: the
numbers at which a claim fails have a least one (`Steps`), which also shows that
the recursive functions are what their definitions say (`Recursion`). With it,
`PassFacts` and `PassesFacts` follow the order as it grows: no table appears twice
or before one it references, and a pass that adds nothing means that every table
left references one that is left. `PackagesRestoreExactly` is what comes out: an
order is found exactly when no tables reference each other in a circle, and a
package is restored exactly when none of `Circular`, `Torn`, `Forward`,
`Unreadable`, `Emptied` and `Colliding` is against it: an INSERT that is refused
beside the rows before it names one of the six (`RefusableFacts`), and a row none
of them concerns is inserted (`RestoredExactly`). `PackageIInv` (the source's rows
are whole, what is packaged was copied from it, it still is what was copied when
nobody wrote, and each file packed has the digest it was listed with)
gives `PackagesAlwaysFaithful`. Both hold for every set of tables, foreign keys,
rows and files.

**`AccessProofs`.** Roles and memberships only grow (`AuthorityGrows`, an action
property), so whatever authority a role, a grant or a share was created under
still holds. `GrantInv` says that a grant made for a share lies within what
revoking that share deletes; without it a grant might outlive its share. With
`ShareInv` (a share was begun by somebody who may share, for members) it makes
`AuthorityIsSound`, `RevocationReaches` and `ShareHonoured` inductive.
`MarkersAssumption` keeps the model's markers (no user, no team, the platform)
apart from real users, teams and organizations.

**`BackupsProofs`.** `ListInv` is the argument about paging: a key that existed
all the time is archived, on the page at hand, or after the last key listed; it
needs the smallest and largest of a set of keys (`MinIn` and the lemmas around
it). `TraceInv` says that a database or scratch key of a record belongs to a
verification at work, or to a record one of whose calls failed or went
unacknowledged, `VerdictInv` and `OverlapInv` that a verification failed
for a reason. Scratch keys are distinct for each record and key, as the prefixes
of the code are. `BackupsAlwaysSound`, `VerificationAlwaysClean` and
`BadNewsAlwaysAccounted` follow for every number of records, keys, pages,
verifications and faults.

**`ServicesProofs`** holds five arguments about parts that share no state.

* *Authentication.* A request may hold a copy of the user's row as it once was:
  `ReqOK` says that a factor confirmed since then was confirmed after the request
  began, and `SessOK` the same of a session, which is what makes `LoginsAreSound`
  inductive. The action property `RevokedStaysRevoked` needs that a caller holds
  a credential that was issued (`CallInv`) and that what is not issued yet is not
  revoked (`CredInv`). Assumed: the marker `Nobody` is no user.
* *Connections.* `KnownOK` ties what a request has found out to the number of
  changes outside since it looked; `StatusInv` says that the status is the verdict
  of the test saved last. `DialsAlwaysChecked` and `StatusAlwaysTrue` follow.
* *Analytics.* `FetchInv` says that every fetch so far has all the rows there were
  at its SELECT, unless its COUNT exceeded the cap or somebody wrote between the
  two; that nothing exceeds the cap (`CapHolds`) and that no result is given below
  the sample its operation requires (`SamplesSuffice`) are part of the invariant.
  What the counts say of NULL follows from lemmas on finite sets of rows. Nothing
  is said of which rows a pair is made of. `ResultsAlwaysHonest` holds for every
  table, cap, operation and number of writes during the analysis.
* *Dashboards.* `OverlapInv` says that without overlap the one request about to
  change a dashboard has loaded what it is; `RenderOK` gives every result so far
  its reason among the circumstances of its own turn: the permission for data
  (`Held`), what stood in the way for an error (`Spoiled`), and what breaks a
  rendering (`Breaks`). `BoardsAlwaysKept` and `RendersAlwaysCurrent` follow.
* *TableData.* Statements name objects, and names are reused, so `TablesIInv` is
  about the two at once. A table that was catalogued is in the catalog as long as
  it exists, and a name belongs to one table on either side (`TablesInv`); a
  column in the database is an original one or was carried there by a request, to
  the table it had loaded or to one of the same name (`TenantColsInv`); at most
  one request at a time has laid a constraint on a column, and that constraint is
  in place (`EnforcedInv`). A request whose catalog write went unacknowledged may
  own a row while it drops the object, which each part excepts by name.
  `ColumnsAlwaysAgree` and `KeysAlwaysAgree` follow for every number of tables,
  requests and faults. Trying to prove `KeysAgree` showed that two of its exceptions were too narrow
  (section 5); TLC found the counterexample to one with four requests, which is
  why `tabledata` now lets four meet.

**How long jobs take.** That something ends has two halves: no step can be taken
for ever, and a step that can be taken is taken. The second is fairness, and TLC's;
the first is proved. A measure starts at a number that the constants fix, every
step takes at least one from it, and it is 0 only when the job is over; jobs that
are over are settled, but for the exceptions of the liveness properties.
`ImportsAreBounded`: `(MaxRetries + 1) * (4 * NumRows + 16)` steps, the loop having
at most four per row, checkpoints included. `RestoresAreBounded`:
`18 + 11 * MaxRetries`. `ExportsAreBounded`: `9 + 6 * MaxRetries` of the export's
own, downloads come and go beside it. For `BackupsAreBounded` the measure is not
obvious: a listing goes on after the last key it has listed, but users add keys
while it runs, and so do verifications, whose scratch keys a backup may archive and
a later verification copy once more. `Cap[n]` is the largest key there can be when
`n` backups have succeeded, `CapInv` says that nothing is beyond it (what a backup
that has succeeded holds was listed before it succeeded, and stays below the cap
before), and `2 * Top + 6` and `2 * Top + 10` bound the steps of a backup and of a
verification, `Top` being the last cap.

**Only model-checked.** Liveness under fairness: `JobEnds`, `RestoreEnds`,
`ExportEnds` and `BackupsEnd` rest on ENABLED, which the prover does not support.
`RowsKept`, that an acknowledged row keeps its values whatever schema requests fail
beside it, is checked for three requests in every mix that has rows and not proved:
it would take an invariant on each row's values under every constraint. Every other
property of a passing run is a theorem, the refinements and action properties
included. The disagreement is a counterexample. The type invariants and
`ErrorsOnce`, `CompletedMeansAll`, `MissingSchemaAccounted` and `ChecksumsMatch`
are proved and no longer need a run.

## 5. Known disagreements and exceptions

One run is expected to find a violation and is listed under `findings`:
`import_exhausted`. The models show these as well; each is either an exception
in a property or the reason for an assumption.

*Imports.* `docs/api/API.md:229` says that a retried job "resumes rather than
re-importing already-committed rows"; when a checkpoint fails after rows were
committed (`imports/services.py:240`) they are inserted again: `CopiesBounded`
is what holds, and `ImplementsLedger` assumes that the control database answers.
Where such a row has a UNIQUE value the retry cannot insert it: it counts as
rejected and gets an error, although it is in the table (`again`). A COMPLETED save
that took effect and was not acknowledged (`imports/services.py:245`) is retried,
so that the job is RUNNING once more. Errors whose insertion went unacknowledged
are stored twice.
The cap on stored errors applies to each chunk (`imports/services.py:221`), not
to the job (`docs/architecture/DATA_MODEL.md:199`).

*Schema builder.* `docs/architecture/DATA_MODEL.md:158-160` describes the
catalog as a mirror of the tenant schema; a second deletion of a table that
overlaps the first drops a new table of the same name
(`databases/services.py:401`, `DroppedTwice`). A catalog commit that took effect
and was not acknowledged is compensated for (`databases/services.py:65-78`): its
row stays, and the schema, table, column or key it describes is dropped (`unsure`,
`Disowned`, `LostToUndo`). A compensating DROP COLUMN may
take the column of a table that replaced the one it was meant for
(`databases/services.py:292`, `LostToUndo`). `add_foreign_key` never checks that
the referenced column belongs to the referenced table
(`databases/services.py:333`), and its constraint may be laid between tables one
of which replaced the one it was meant for: such a key can outlive its row in
the catalog (`Misdirected`). Of a referenced table that was deleted before the
constraint was laid, the constraint may reference the successor in name
(`ReferencedStays`). `insert_row` demands NOT NULL
columns even where they have a default.

*Files.* `docs/api/API.md:122` says that PATCH "renames/moves"; it saves every
field of the row it loaded (`storage/views.py:193`), so it undoes a deletion or
a new version saved in between. In a versioned bucket the file then shows an
earlier content, and its latest is neither current nor a version until somebody
uploads again (`NothingIsLost` bounds this to the latest of a file); in an
unversioned bucket the row then names a deleted object (`Revived`). Two overlapping version uploads of an unversioned file leave
an object nobody deletes (`ReplacedTwice`). In the root of a bucket `folder` is
NULL and active names need not be unique (`NameFree`).

*Exports and restores.* The comment at `exports/tasks.py:29-31` allows one retry
"for a transient failure"; the staged package is gone by then
(`exports/services.py:190`), so the retry cannot succeed, overwrites FAILED with
VALIDATING and ends there. The two transactions of a restore commit one after
the other, so schemas can remain without an organization (`SchemasAccounted`). A
COMPLETED save that fails after a committed restore leads to a FAILED job whose
organization exists (the premise of `FailedMeansNothing`). A package is refused
when it holds a timestamp (the exported text carries an offset that
`DATETIME_FORMATS` does not accept), a JSON document that is neither null nor a
string of JSON text, a text longer than a field of Python's CSV reader (131072
characters), two texts of a UNIQUE column that are the same once stripped, a blank
where NULL is not allowed, a row that references a later row of its own table, or
tables that reference each other in a circle through nullable columns, which the
comment at `exports/restorer.py:314` takes for corruption. A blank text comes back
as NULL, a padded one stripped, JSON's null as NULL, and a JSON string that holds
JSON text as the document it holds. The export reads without a snapshot, so it can
be torn by a writer.

*Access.* Two shares of a resource to one user produce one grant, with the
earlier expiry, and revoking either removes it; a user who left the team before
the revocation keeps the grant. These are the exceptions of `ShareHonoured` and
`RevocationReaches`.

*Accounts.* A confirmation that overlaps a second enrollment enables a secret
whose code was never shown (`crossed`); enrolling needs no code even when a
factor is enabled, and turns it off; a session opened with a second factor keeps
the 300-second expiry of its waiting time. Rotating a revoked credential, or one
credential twice at once, adds a valid one (`applications/services.py`); no
property is stated about it, since nothing in the code limits how many credentials
an application has.

*Backups.* `os.makedirs`, `os.path.getsize`, encryption and the last save are
outside the handler, so the record stays RUNNING where the docstring says "Never
raises"; a CREATE DATABASE or a scratch put that takes effect and raises leaves a
database or an object that no cleanup removes (`backups.py:422-430`, `501-502`); an
object deleted during
the listing, or removed by another verification's cleanup, fails the whole
backup; overlapping verifications of one backup can condemn a good one; a failed
backup leaves its plaintext file.

*Connections, analyses, dashboards.* The host is resolved twice (`raced`);
overlapping tests save in either order. The correlations and the regression
fetch each column with a SELECT of its own that has no ORDER BY
(`analytics/data.py:53`), and drop NULLs column by column: nothing makes the two
values of a pair come from one row, and no property claims it. `distinct_count`
counts NULL as a value, the profile does not; the grouped t-test reports the
truncation of its second fetch only. `render_dashboard` says that a widget whose table was
deleted "fails individually"; between the DROP and the catalog deletion of
`delete_table` the whole rendering fails, and so it does when an operation raises
anything but a validation error (a statement timeout, parameters of the wrong kind,
which nothing checks when the dashboard is saved). Of two overlapping updates of a
dashboard one loses the other's field (`overlapped`).

## 6. Limits and what is not modelled

* Values are abstracted to what the properties distinguish: a row is accepted
  or rejected, an object is identified by its key, a text is blank, padded or a
  word. Parsing, paging, statistics, hashing and encryption are left out.
* A transaction on one database is atomic; PostgreSQL's isolation below that
  (a constraint conflict decided at commit) is modelled where the code depends
  on it (`CatalogAccepts`, `VersionIsNew`, `Sound`).
* The file an import reads does not change between its attempts (a hazard
  listed without a property).
* Buckets and folders are not created or deleted in `FileStore`; the scanner is
  a choice of clean or not. A browser has one request at a time; users are
  never deactivated; no caller sets a credential's expiry, as in the code.
* Nobody but the job writes to the table an import fills. Which values of a column
  two analyses put side by side is not modelled, only how many.
* A restored organization's memberships and role assignments (`granted_by` is
  NULL there) are not followed into `Access`.
* `docs` describe an external-sharing switch; the code stores it and nothing
  reads it, so `Access` leaves it out.

Not modelled, and why: audit (one insert per event, part of the jobs' modules
where it can fail them), workspaces (creation only), the encryption wrappers,
throttling, middleware and health (no state), settings, migrations and
serializers (declarations), frontend, Control Center and installer (no state the
server relies on; side effects on a host).

## 7. Plan

The models cover the planned components. Every safety invariant, action property
and refinement that a run checks is a theorem, except `RowsKept`; what fairness is
not needed for in the liveness properties is one too. What is left: a proof of
`RowsKept`; the enabledness that connects the bounds on steps to the liveness
properties, once a prover supports it; an abstract specification for `Access`
(authority only by grant), with `AuthorityIsSound` as the invariant its refinement
rests on; and buckets and folders that come and go in `FileStore`.
