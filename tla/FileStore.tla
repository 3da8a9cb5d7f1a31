------------------------------ MODULE FileStore ------------------------------
(***************************************************************************)
(* Files of one bucket (storage/services.py, storage/views.py): the        *)
(* FileObject and FileVersion rows of the control database and the objects *)
(* of the object store.  A request loads a row, works on that copy, and    *)
(* saves some or all of its fields later; a put and a delete of an object  *)
(* are separate calls, before and after that save.  Requests interleave    *)
(* at every one of these steps.                                            *)
(*                                                                         *)
(* Every upload draws a fresh object key, so a key is identified by the    *)
(* request that puts it, and a file by the request that uploads it first.  *)
(* A place is a folder and a display name.  Operators named X_Y are faulty *)
(* variants of X that the properties are checked against.                  *)
(***************************************************************************)
EXTENDS Naturals

CONSTANTS
  Requests,     \* API requests
  File0,        \* a file that exists at the start, with its object
  Places,       \* (folder, display_filename) pairs
  RootPlaces,   \* those whose folder is NULL, the root of the bucket
  Versioning,   \* the bucket's versioning_enabled, fixed at its creation
  Faults        \* which faults the environment may produce

FaultKinds ==
  { "storage",          \* a call to the object store fails
    "unacknowledged",   \* a call to either store fails after taking effect
    "control",          \* a transaction on the control database fails
    "crash" }           \* the process dies between two steps

ASSUME FileStoreAssumption ==
  /\ File0 \notin Requests /\ Places # {} /\ RootPlaces \subseteq Places
  /\ Versioning \in BOOLEAN /\ Faults \subseteq FaultKinds

Files == Requests \cup {File0}
Keys  == Files

VARIABLES
  stored,     \* the keys in the object store
  rows,       \* the FileObject rows; status "none" where there is none
  versions,   \* the FileVersion rows
  reverted,   \* history: file -> the keys that a PATCH took out of its row
  want,       \* what each request is to do
  held,       \* the row as each request loaded it
  pc          \* where each request stands

vars == <<stored, rows, versions, reverted, want, held, pc>>

Statuses == {"none", "active", "deleted", "quarantined"}
Row == [status : Statuses, key : Keys, sum : Keys, place : Places]

Exists(f) == rows[f].status # "none"
Referenced == {rows[f].key : f \in {g \in Files : Exists(g)}} \cup {v.key : v \in versions}

\* Operations that put an object of their own.
Writes(r) == want[r].op \in {"upload", "version"}

GoTo(r, stage) == pc' = [pc EXCEPT ![r] = stage]

-----------------------------------------------------------------------------
Init ==
  \E p \in Places :
    LET row(f) == [status |-> IF f = File0 THEN "active" ELSE "none",
                   key |-> f, sum |-> f, place |-> p]
    IN  /\ stored = {File0}
        /\ rows = [f \in Files |-> row(f)]
        /\ versions = {} /\ reverted = [f \in Files |-> {}]
        /\ want = [r \in Requests |-> [op |-> "upload", file |-> r, place |-> p, clean |-> TRUE]]
        /\ held = [r \in Requests |-> row(r)]
        /\ pc = [r \in Requests |-> "idle"]

(***************************************************************************)
(* A request arrives: the view loads the row (get_member_file).  Whether   *)
(* the scanner confirms an upload clean is chosen here.                    *)
(***************************************************************************)
FirstStage == [upload |-> "put", version |-> "put", patch |-> "save",
               delete |-> "save", restore |-> "save", download |-> "get"]

MayBegin(op, f) == op = "download" => rows[f].status # "quarantined"

Begin(r) ==
  /\ pc[r] = "idle"
  /\ \E op \in DOMAIN FirstStage, f \in Files, p \in Places, c \in BOOLEAN :
       /\ IF op = "upload" THEN f = r ELSE Exists(f) /\ MayBegin(op, f)
       /\ op \notin {"upload", "patch"} => p = rows[f].place
       /\ op \notin {"upload", "version"} => c
       /\ want' = [want EXCEPT ![r] = [op |-> op, file |-> f, place |-> p, clean |-> c]]
       /\ held' = [held EXCEPT ![r] = rows[f]]
       /\ GoTo(r, FirstStage[op])
  /\ UNCHANGED <<stored, rows, versions, reverted>>

-----------------------------------------------------------------------------
(***************************************************************************)
(* put_stream of an upload's own, new key.                                 *)
(***************************************************************************)
Put(r) ==
  /\ pc[r] = "put"
  /\ stored' = stored \cup {r}
  /\ \/ GoTo(r, "save")
     \/ "unacknowledged" \in Faults /\ GoTo(r, "failed")
  /\ UNCHANGED <<rows, versions, reverted, want, held>>

PutFails(r) ==
  /\ "storage" \in Faults
  /\ pc[r] = "put"
  /\ GoTo(r, "failed")
  /\ UNCHANGED <<stored, rows, versions, reverted, want, held>>

-----------------------------------------------------------------------------
(***************************************************************************)
(* The row a request saves.  All but a PATCH name the fields they update,  *)
(* so the others keep the values they have by then; file_obj.save() of a   *)
(* PATCH writes every field of the copy it loaded.                         *)
(***************************************************************************)
UploadStatus(r) == IF want[r].clean THEN "active" ELSE "quarantined"

Source(r) == IF want[r].op = "patch" THEN held[r] ELSE rows[want[r].file]

NewStatus(r) ==
  IF Writes(r) THEN UploadStatus(r)
  ELSE IF want[r].op = "patch" THEN held[r].status
  ELSE IF want[r].op = "delete" THEN "deleted" ELSE "active"

NewRow(r) ==
  [status |-> NewStatus(r),
   key    |-> IF Writes(r) THEN r ELSE Source(r).key,
   sum    |-> IF Writes(r) THEN r ELSE Source(r).sum,
   place  |-> IF want[r].op \in {"upload", "patch"} THEN want[r].place ELSE Source(r).place]

KeepsVersion(r) == want[r].op = "version" /\ Versioning
OldVersion_After(r) == [file |-> want[r].file, key |-> r, sum |-> r]
OldVersion(r) == [file |-> want[r].file, key |-> held[r].key, sum |-> held[r].sum]

\* unique_active_filename_per_folder: NULL folders are distinct to PostgreSQL.
NameFree(r) ==
  NewRow(r).status = "active" /\ NewRow(r).place \notin RootPlaces =>
    \A f \in Files \ {want[r].file} :
      rows[f].status = "active" => rows[f].place # NewRow(r).place

\* FileVersion.object_key is unique.
VersionIsNew_Unchecked(r) == TRUE
VersionIsNew(r) == KeepsVersion(r) => \A v \in versions : v.key # held[r].key

\* The key of a content saved since this PATCH loaded the row, and lost to it.
Displaced(r) ==
  IF want[r].op = "patch" THEN {rows[want[r].file].key} \ {held[r].key} ELSE {}

Accepts(r) == NameFree(r) /\ VersionIsNew(r)

\* The old object is deleted after the save, where no version keeps it.
DropsOld(r) == want[r].op = "version" /\ ~Versioning

Save(r) ==
  /\ pc[r] = "save" /\ Accepts(r)
  /\ rows' = [rows EXCEPT ![want[r].file] = NewRow(r)]
  /\ versions' = versions \cup {v \in {OldVersion(r)} : KeepsVersion(r)}
  /\ reverted' = [reverted EXCEPT ![want[r].file] = @ \cup Displaced(r)]
  /\ \/ GoTo(r, IF DropsOld(r) THEN "drop" ELSE "done")
     \/ "unacknowledged" \in Faults /\ GoTo(r, "failed")
  /\ UNCHANGED <<stored, want, held>>

\* An uploaded object whose row is refused stays where it is.
SaveFails(r) ==
  /\ pc[r] = "save"
  /\ ~Accepts(r) \/ "control" \in Faults
  /\ GoTo(r, "failed")
  /\ UNCHANGED <<stored, rows, versions, reverted, want, held>>

-----------------------------------------------------------------------------
DroppedKey_Current(r) == rows[want[r].file].key
DroppedKey(r) == held[r].key

Drop(r) ==
  /\ pc[r] = "drop"
  /\ stored' = stored \ {DroppedKey(r)}
  /\ \/ GoTo(r, "done")
     \/ "unacknowledged" \in Faults /\ GoTo(r, "failed")
  /\ UNCHANGED <<rows, versions, reverted, want, held>>

DropFails(r) ==
  /\ "storage" \in Faults
  /\ pc[r] = "drop"
  /\ GoTo(r, "failed")
  /\ UNCHANGED <<stored, rows, versions, reverted, want, held>>

\* A download opens the object its copy of the row names.
Get(r) ==
  /\ pc[r] = "get"
  /\ GoTo(r, IF held[r].key \in stored THEN "done" ELSE "missing")
  /\ UNCHANGED <<stored, rows, versions, reverted, want, held>>

Crash(r) ==
  /\ "crash" \in Faults
  /\ pc[r] \in {"save", "drop"}
  /\ GoTo(r, "failed")
  /\ UNCHANGED <<stored, rows, versions, reverted, want, held>>

AllEnded == \A r \in Requests : pc[r] \in {"done", "failed", "missing"}
Ended == AllEnded /\ UNCHANGED vars

Next ==
  \/ \E r \in Requests :
       \/ Begin(r) \/ Put(r) \/ PutFails(r) \/ Save(r) \/ SaveFails(r)
       \/ Drop(r) \/ DropFails(r) \/ Get(r) \/ Crash(r)
  \/ Ended

Spec == Init /\ [][Next]_vars

-----------------------------------------------------------------------------
(***************************************************************************)
(* Properties.                                                             *)
(***************************************************************************)

\* The values each variable takes; only uploads put, only version uploads of
\* unversioned buckets drop.
TypeOK ==
  /\ stored \in SUBSET Keys
  /\ rows \in [Files -> Row]
  /\ reverted \in [Files -> SUBSET Keys]
  /\ versions \in SUBSET [file : Files, key : Keys, sum : Keys]
  /\ want \in [Requests -> [op : DOMAIN FirstStage, file : Files, place : Places,
                            clean : BOOLEAN]]
  /\ held \in [Requests -> Row]
  /\ pc \in [Requests -> {"idle", "put", "save", "drop", "get", "done", "failed", "missing"}]
  /\ \A r \in Requests : pc[r] = "drop" => want[r].op = "version" /\ ~Versioning

\* A PATCH wrote the key it had loaded back into the row of f, after a version
\* upload that had loaded the same key replaced it, and deleted its object.
Revived(f) ==
  \E p, v \in Requests :
    /\ want[p].op = "patch" /\ want[p].file = f /\ pc[p] \in {"done", "failed"}
    /\ want[v].op = "version" /\ want[v].file = f /\ pc[v] \in {"done", "failed"}
    /\ held[p].key = rows[f].key /\ held[v].key = rows[f].key

\* Every row and every version names an object that is in the store
\* (upload_new_version puts before it saves, and deletes after), but for a row of
\* an unversioned bucket into which a PATCH has written a replaced key.
NothingDangles ==
  /\ \A f \in Files : Exists(f) =>
       rows[f].key \in stored \/ (~Versioning /\ reverted[f] # {} /\ Revived(f))
  /\ \A v \in versions : v.key \in stored

\* The checksum on record, which an export compares with what it reads, is
\* that of the object its row or version names (exports/builder.py).
ChecksumsMatch ==
  /\ \A f \in Files : Exists(f) => rows[f].sum = rows[f].key
  /\ \A v \in versions : v.sum = v.key

\* In a versioned bucket, content whose upload was answered with success stays
\* reachable, as the file's current content or as one of its versions, whatever
\* later requests do (upload_new_version), but for one content of a file: the
\* latest, while a PATCH that loaded the row before has put an earlier one back.
NothingIsLost ==
  Versioning => \A r \in Requests :
    pc[r] = "done" /\ Writes(r) /\ r \notin Referenced =>
      /\ r \in reverted[want[r].file]
      /\ \E v \in versions : v.file = want[r].file /\ v.key = rows[want[r].file].key
      /\ \A q \in Requests \ {r} :
           pc[q] = "done" /\ Writes(q) /\ want[q].file = want[r].file => q \in Referenced

\* Two version uploads of a file loaded the same content: both delete that one,
\* and the first to save is replaced without being deleted.
ReplacedTwice(f) ==
  \E q, r \in Requests :
    /\ q # r /\ held[q].key = held[r].key
    /\ \A u \in {q, r} : want[u].op = "version" /\ want[u].file = f

\* An object no row names was put by an upload that is under way or failed; or
\* was replaced by a version upload that has yet to delete it, or failed to; or
\* is one of a file of which two version uploads overlapped (upload_new_version);
\* or was replaced by a PATCH that put an earlier key back (FileDetailView.patch).
OrphansAccounted ==
  \A k \in stored \ Referenced :
    \/ k \in Requests /\ pc[k] \in {"save", "failed"}
    \/ \E r \in Requests : want[r].op = "version" /\ held[r].key = k
                           /\ pc[r] \in {"drop", "failed"}
    \/ k \in Requests /\ ReplacedTwice(want[k].file)
    \/ \E f \in Files : k \in reverted[f]

\* A download finds no object only when a version upload to an unversioned bucket
\* had loaded the same key, and replaced and deleted its content
\* (FileDownloadView, upload_new_version).
MissingAccounted ==
  \A r \in Requests : pc[r] = "missing" =>
    ~Versioning /\ \E q \in Requests :
      /\ want[q].op = "version" /\ want[q].file = want[r].file
      /\ held[q].key = held[r].key /\ pc[q] \in {"done", "failed"}

\* In an unversioned bucket, every object and every failed download is accounted
\* for (upload_new_version, FileDownloadView): the two parts above.
ObjectsAccounted == OrphansAccounted /\ MissingAccounted

-----------------------------------------------------------------------------
Kept(f)    == {v.key : v \in {u \in versions : u.file = f}}
Current(f) == IF Exists(f) THEN {rows[f].key} ELSE {}

Archive == INSTANCE FileArchive WITH
  current <- [f \in Files |-> Current(f)],
  past    <- [f \in Files |-> Kept(f)],
  latest  <- [f \in Files |-> (Current(f) \cup reverted[f]) \ Kept(f)]

\* However requests overlap, a versioned bucket is an append-only archive of the
\* contents of each file; a PATCH may show an earlier one again.
ImplementsArchive == Archive!Spec
=============================================================================
