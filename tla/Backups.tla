------------------------------- MODULE Backups -------------------------------
(***************************************************************************)
(* Backups and their restore verification (system/backups.py, tasks.py):   *)
(* the BackupRecord rows, the files in BACKUP_DIR, the bucket of the object*)
(* store while users keep changing it, and the databases that verifications*)
(* restore into.                                                           *)
(*                                                                         *)
(* Records are numbered in the order of started_at.  Keys are numbers, in  *)
(* the order in which the store lists them; a verification of record r     *)
(* copies key k to Scratch(r, k).  Operators named X_Y are faulty variants *)
(* of X that the properties are checked against.                           *)
(***************************************************************************)
EXTENDS Naturals, FiniteSets, FiniteSetsExt

CONSTANTS
  MaxRecords,   \* bound on the number of backups
  MaxKey,       \* bound on the users' keys
  PageSize,     \* how many keys one page of a listing holds
  MaxDeletes,   \* bound on the deletions of users' objects
  Verifiers,    \* tasks and commands that verify, once each
  Types,        \* which backup types are run
  Encrypting,   \* is BACKUP_ENCRYPTION_KEY set?
  MaxFaults,    \* bound on the faults of different kinds or records
  Faults        \* which faults the environment may produce

FaultKinds ==
  { "produce",    \* pg_dump, a read of the object store or a file write fails
    "outside",    \* run_backup fails outside its handler, before or after the file
    "seal",       \* encrypting a finished file fails
    "save",       \* saving a record fails
    "restore",    \* creating or reading back what is restored fails
    "unacknowledged",   \* a database is created or a scratch key put, and yet it raises
    "cleanup",    \* removing what was restored fails
    "kill" }      \* the worker process dies

ASSUME BackupsAssumption ==
  /\ MaxRecords \in Nat /\ MaxKey \in Nat \ {0} /\ PageSize \in Nat \ {0} /\ MaxDeletes \in Nat /\ MaxFaults \in Nat
  /\ Types \subseteq {"postgres", "objects", "configuration"}
  /\ Encrypting \in BOOLEAN /\ Faults \subseteq FaultKinds

VARIABLES
  rec,       \* BackupRecord rows
  job,       \* how far the run of each backup has come
  file,      \* what is in BACKUP_DIR for each record
  archive,   \* the keys in each object archive
  bucket,    \* the keys in the object store
  dbs,       \* the restore-test databases that exist
  ver,       \* the verifications under way
  deletes,   \* how many objects users have deleted
  owned,     \* history: the users' own objects
  steady,    \* history: keys that existed ever since a listing began
  hurt,      \* history: the faults that befell the runs of each record
  met        \* history: records that met a deletion or another verification

vars == <<rec, job, file, archive, bucket, dbs, ver, deletes, owned, steady, hurt, met>>
histories == <<steady, met>>

Records == 1..MaxRecords
UserKeys == 1..MaxKey

\* scratch_prefix + member.name: a key of no user, and of no other record or
\* object.  An archive may hold scratch keys of a verification under way.
Scratch(r, k) == MaxKey + r + k * (MaxRecords + 1)

NoRecord == [type |-> "none", status |-> "none", verdict |-> "none"]
NoJob == [at |-> "none", cursor |-> 0, page |-> {}]
Resting == [at |-> "none", r |-> 0, todo |-> {}, restored |-> {}, good |-> TRUE]

Init ==
  /\ rec = [r \in Records |-> NoRecord] /\ job = [r \in Records |-> NoJob]
  /\ file = [r \in Records |-> {}] /\ archive = [r \in Records |-> {}]
  /\ bucket = UserKeys /\ owned = UserKeys /\ dbs = {} /\ deletes = 0
  /\ ver = [v \in Verifiers |-> Resting]
  /\ steady = [r \in Records |-> {}] /\ hurt = [r \in Records |-> {}] /\ met = {}

Fine == UNCHANGED hurt
Suffer(r, kinds) ==
  /\ kinds \subseteq Faults
  /\ hurt' = [hurt EXCEPT ![r] = @ \cup kinds]
  /\ Cardinality({p \in Records \X Faults : p[2] \in hurt'[p[1]]}) <= MaxFaults

-----------------------------------------------------------------------------
(***************************************************************************)
(* Users of the object store.                                              *)
(***************************************************************************)
PutObject(k) ==
  /\ k \notin bucket /\ \A i \in bucket \cap UserKeys : i < k
  /\ bucket' = bucket \cup {k} /\ owned' = owned \cup {k}
  /\ UNCHANGED <<rec, job, file, archive, dbs, ver, deletes, hurt, histories>>

DeleteObject(k) ==
  /\ k \in bucket /\ deletes < MaxDeletes
  /\ bucket' = bucket \ {k} /\ owned' = owned \ {k} /\ deletes' = deletes + 1
  /\ steady' = [r \in Records |-> steady[r] \ {k}]
  /\ met' = met \cup {r \in Records : k \in job[r].page}
  /\ UNCHANGED <<rec, job, file, archive, dbs, ver, hurt>>

-----------------------------------------------------------------------------
(***************************************************************************)
(* run_backup.                                                             *)
(***************************************************************************)
StartBackup(r, type) ==
  /\ rec[r].status = "none" /\ \A q \in 1..(r - 1) : rec[q].status # "none"
  /\ rec' = [rec EXCEPT ![r] = [NoRecord EXCEPT !.type = type, !.status = "running"]]
  /\ job' = [job EXCEPT ![r].at = IF type = "objects" THEN "list" ELSE "produce"]
  /\ steady' = [steady EXCEPT ![r] = owned]
  /\ UNCHANGED <<file, archive, bucket, dbs, ver, deletes, owned, hurt, met>>

\* The handler of a failure before the file is complete; what has been written
\* stays.  Saving the record may fail in turn.
GiveUp(r, kinds) ==
  /\ job' = [job EXCEPT ![r] = [NoJob EXCEPT !.at = "ended"]]
  /\ file' = [file EXCEPT ![r] = {"plain"}]
  /\ \/ Suffer(r, kinds) /\ rec' = [rec EXCEPT ![r].status = "failed"]
     \/ Suffer(r, kinds \cup {"save"}) /\ UNCHANGED rec

\* pg_dump, or the configuration's own write, which encrypts in memory.
Produce(r) ==
  /\ job[r].at = "produce"
  /\ LET sealed == rec[r].type = "configuration" /\ Encrypting IN
     /\ file' = [file EXCEPT ![r] = {IF sealed THEN "sealed" ELSE "plain"}]
     /\ job' = [job EXCEPT ![r].at = IF rec[r].type = "postgres" THEN "seal" ELSE "save"]
  /\ UNCHANGED <<rec, archive, bucket, dbs, ver, deletes, owned, hurt, histories>>

ProduceFails(r) ==
  /\ job[r].at \in {"produce", "list"}
  /\ GiveUp(r, {"produce"})
  /\ UNCHANGED <<archive, bucket, dbs, ver, deletes, owned, histories>>

\* The next page of list_all_keys: the first keys after the last one listed.
NextPage_Offset(r) ==
  LET from == {k \in bucket : Cardinality({i \in bucket : i < k}) >= Cardinality(archive[r])} IN
  {k \in from : Cardinality({i \in from : i < k}) < PageSize}
NextPage_FromStart(r) ==
  {k \in bucket : Cardinality({i \in bucket : i < k}) < PageSize}
NextPage(r) ==
  LET from == {k \in bucket : k > job[r].cursor} IN
  {k \in from : Cardinality({i \in from : i < k}) < PageSize}

ListPage(r) ==
  /\ job[r].at = "list" /\ job[r].page = {}
  /\ LET page == NextPage(r) IN
     IF page = {}
     THEN /\ job' = [job EXCEPT ![r].at = "seal"] /\ file' = [file EXCEPT ![r] = {"plain"}]
     ELSE /\ job' = [job EXCEPT ![r].page = page, ![r].cursor = Max(page)] /\ UNCHANGED file
  /\ UNCHANGED <<rec, archive, bucket, dbs, ver, deletes, owned, hurt, histories>>

\* Each object of the page is fetched in turn; one that is gone fails the backup.
ReadObject(r) ==
  /\ job[r].page # {}
  /\ LET k == Min(job[r].page) IN
     IF k \in bucket
     THEN /\ archive' = [archive EXCEPT ![r] = @ \cup {k}]
          /\ job' = [job EXCEPT ![r].page = @ \ {k}] /\ UNCHANGED <<rec, file, hurt>>
     ELSE GiveUp(r, {}) /\ UNCHANGED archive
  /\ UNCHANGED <<bucket, dbs, ver, deletes, owned, histories>>

\* _maybe_encrypt_file, outside the handler: write the container, then remove
\* the plaintext.
Sealed(r) == IF Encrypting THEN {"sealed"} ELSE file[r]

Seal(r) ==
  /\ job[r].at = "seal"
  /\ \/ Fine /\ file' = [file EXCEPT ![r] = Sealed(r)] /\ job' = [job EXCEPT ![r].at = "save"]
     \/ /\ Encrypting /\ Suffer(r, {"seal"}) /\ job' = [job EXCEPT ![r].at = "ended"]
        /\ \E left \in {{"plain"}, {"plain", "sealed"}} : file' = [file EXCEPT ![r] = left]
  /\ UNCHANGED <<rec, archive, bucket, dbs, ver, deletes, owned, histories>>

SaveRecord(r) ==
  /\ job[r].at = "save"
  /\ \/ Fine /\ rec' = [rec EXCEPT ![r].status = "success"]
     \/ Suffer(r, {"save"}) /\ UNCHANGED rec
  /\ job' = [job EXCEPT ![r] = [NoJob EXCEPT !.at = "ended"]]
  /\ UNCHANGED <<file, archive, bucket, dbs, ver, deletes, owned, histories>>

\* Only the making of the file itself is inside the handler: makedirs before it,
\* getsize after it and what is no OSError in encrypting the configuration are not.
OutsideFails(r) ==
  /\ \/ job[r].at \in {"produce", "list"} /\ job[r].cursor = 0
     \/ job[r].at = "save" /\ rec[r].type # "configuration"
  /\ Suffer(r, {"outside"})
  /\ job' = [job EXCEPT ![r] = [NoJob EXCEPT !.at = "ended"]]
  /\ UNCHANGED <<rec, file, archive, bucket, dbs, ver, deletes, owned, histories>>

BackupKilled(r) ==
  /\ job[r].at \notin {"none", "ended"}
  /\ Suffer(r, {"kill"})
  /\ job' = [job EXCEPT ![r] = [NoJob EXCEPT !.at = "ended"]]
  /\ \E left \in IF job[r].at \in {"produce", "list"} THEN {{}, {"plain"}} ELSE {file[r]} :
       file' = [file EXCEPT ![r] = left]
  /\ UNCHANGED <<rec, archive, bucket, dbs, ver, deletes, owned, histories>>

-----------------------------------------------------------------------------
(***************************************************************************)
(* verify_latest_backup_task.                                              *)
(***************************************************************************)
Candidates(type) == {r \in Records : rec[r].type = type /\ rec[r].status = "success"}

StartVerify(v, type) ==
  /\ ver[v].at = "none" /\ Candidates(type) # {}
  /\ LET r == Max(Candidates(type)) IN
     /\ ver' = [ver EXCEPT ![v] =
          [Resting EXCEPT !.at = IF type = "postgres" THEN "create" ELSE "copy",
                          !.r = r, !.todo = archive[r]]]
     /\ met' = IF \E w \in Verifiers : ver[w].r = r THEN met \cup {r} ELSE met
  /\ UNCHANGED <<rec, job, file, archive, bucket, dbs, deletes, owned, steady, hurt>>

\* The name of the database a verification restores into.
TestDatabase_Shared(r) == 1
TestDatabase(r) == r

\* CREATE DATABASE restore_test_<id>: when it fails nothing is dropped.
CreateDatabase(v) ==
  LET r == ver[v].r IN
  /\ ver[v].at = "create"
  /\ \/ /\ TestDatabase(r) \notin dbs /\ Fine
        /\ dbs' = dbs \cup {TestDatabase(r)} /\ ver' = [ver EXCEPT ![v].at = "copy"]
     \/ /\ (TestDatabase(r) \in dbs /\ Fine) \/ Suffer(r, {"restore"})
        /\ ver' = [ver EXCEPT ![v].at = "save", ![v].good = FALSE] /\ UNCHANGED dbs
  /\ UNCHANGED <<rec, job, file, archive, bucket, deletes, owned, histories>>

\* One object: checked, put under its scratch key, and read back, which fails
\* when another verification of the record has removed the key in between.
CopyObject(v) ==
  LET r == ver[v].r IN
  /\ ver[v].at = "copy" /\ ver[v].todo # {}
  /\ LET k == Min(ver[v].todo) IN
     /\ bucket' = bucket \cup {Scratch(r, k)}
     /\ ver' = [ver EXCEPT ![v].todo = @ \ {k}, ![v].restored = @ \cup {Scratch(r, k)},
                           ![v].at = "reread"]
  /\ UNCHANGED <<rec, job, file, archive, dbs, deletes, owned, hurt, histories>>

\* CREATE DATABASE, or the put of a scratch object, takes effect and yet raises:
\* that database is not dropped, that key not among the restored_keys.
Unanswered(v) ==
  LET r == ver[v].r IN
  /\ Suffer(r, {"unacknowledged"})
  /\ \/ /\ ver[v].at = "create" /\ TestDatabase(r) \notin dbs
        /\ dbs' = dbs \cup {TestDatabase(r)} /\ UNCHANGED bucket
        /\ ver' = [ver EXCEPT ![v].at = "save", ![v].good = FALSE]
     \/ /\ ver[v].at = "copy" /\ ver[v].todo # {}
        /\ bucket' = bucket \cup {Scratch(r, Min(ver[v].todo))} /\ UNCHANGED dbs
        /\ ver' = [ver EXCEPT ![v].at = "cleanup", ![v].good = FALSE]
  /\ UNCHANGED <<rec, job, file, archive, deletes, owned, histories>>

\* Members are restored in the order of their keys, so the last key put is the
\* largest.
Reread(v) == Max(ver[v].restored) \in bucket

ReadBack(v) ==
  /\ ver[v].at = "reread"
  /\ ver' = IF Reread(v) THEN [ver EXCEPT ![v].at = "copy"]
            ELSE [ver EXCEPT ![v].at = "cleanup", ![v].good = FALSE]
  /\ UNCHANGED <<rec, job, file, archive, bucket, dbs, deletes, owned, hurt, histories>>

\* pg_restore and its validation, the last object, or the parsed configuration.
Restored(v) ==
  /\ ver[v].at = "copy"
  /\ \/ ver[v].todo = {} /\ Fine /\ ver' = [ver EXCEPT ![v].at = "cleanup"]
     \/ Suffer(ver[v].r, {"restore"}) /\ ver' = [ver EXCEPT ![v].at = "cleanup", ![v].good = FALSE]
  /\ UNCHANGED <<rec, job, file, archive, bucket, dbs, deletes, owned, histories>>

\* The finally clause: each scratch key is deleted, or the database dropped; a
\* failure is logged.
Cleaned_UnlessBad(v) == IF ver[v].good THEN ver[v].restored ELSE {}
Cleaned(v) == ver[v].restored

Cleanup(v) ==
  LET r == ver[v].r IN
  /\ ver[v].at = "cleanup"
  /\ \/ Fine /\ bucket' = bucket \ Cleaned(v) /\ dbs' = dbs \ {TestDatabase(r)}
     \/ /\ Suffer(r, {"cleanup"}) /\ dbs' = dbs   \* one deletion, or the DROP, fails
        /\ \E kept \in Cleaned(v) \cup {0} : bucket' = bucket \ (Cleaned(v) \ {kept})
  /\ met' = met \cup {q \in Records : \E k \in job[q].page : k \in bucket \ bucket'}
                \cup {q \in {r} : \E w \in Verifiers \ {v} : ver[w].r = r}
  /\ ver' = [ver EXCEPT ![v].at = "save"]
  /\ UNCHANGED <<rec, job, file, archive, deletes, owned, steady>>

Verdict(v) == IF ver[v].good THEN "good" ELSE "bad"

SaveVerdict(v) ==
  /\ ver[v].at = "save"
  /\ \/ Fine /\ rec' = [rec EXCEPT ![ver[v].r].verdict = Verdict(v)]
     \/ Suffer(ver[v].r, {"save"}) /\ UNCHANGED rec
  /\ ver' = [ver EXCEPT ![v] = [Resting EXCEPT !.at = "ended"]]
  /\ UNCHANGED <<job, file, archive, bucket, dbs, deletes, owned, histories>>

VerifyKilled(v) ==
  /\ ver[v].at \notin {"none", "ended"}
  /\ Suffer(ver[v].r, {"kill"})
  /\ ver' = [ver EXCEPT ![v] = [Resting EXCEPT !.at = "ended"]]
  /\ UNCHANGED <<rec, job, file, archive, bucket, dbs, deletes, owned, histories>>

-----------------------------------------------------------------------------
Backup(r) == Produce(r) \/ ListPage(r) \/ ReadObject(r) \/ Seal(r) \/ SaveRecord(r)

Verify(v) ==
  \/ CreateDatabase(v) \/ CopyObject(v) \/ ReadBack(v) \/ Restored(v)
  \/ Cleanup(v) \/ SaveVerdict(v)

Next ==
  \/ \E k \in UserKeys : PutObject(k) \/ DeleteObject(k)
  \/ \E r \in Records :
       \/ \E type \in Types : StartBackup(r, type)
       \/ Backup(r) \/ ProduceFails(r) \/ OutsideFails(r) \/ BackupKilled(r)
  \/ \E v \in Verifiers :
       \/ \E type \in Types : StartVerify(v, type)
       \/ Verify(v) \/ Unanswered(v) \/ VerifyKilled(v)

Spec == Init /\ [][Next]_vars

\* A live worker goes on with the tasks it has begun; nothing forces a backup, a
\* verification, a user or a fault.
FairSpec ==
  /\ Spec
  /\ \A r \in Records : WF_vars(Backup(r))
  /\ \A v \in Verifiers : WF_vars(Verify(v))

-----------------------------------------------------------------------------
(***************************************************************************)
(* Properties.                                                             *)
(***************************************************************************)

\* The values each variable takes.
TypeOK ==
  /\ rec \in [Records -> [type : Types \cup {"none"},
                          status : {"none", "running", "success", "failed"},
                          verdict : {"none", "good", "bad"}]]
  /\ \A r \in Records :
       /\ job[r].at \in {"none", "produce", "list", "seal", "save", "ended"}
       /\ job[r].page \subseteq Nat /\ job[r].cursor \in Nat
       /\ file[r] \subseteq {"plain", "sealed"}
  /\ dbs \subseteq Records /\ met \subseteq Records /\ deletes \in 0..MaxDeletes
  /\ hurt \in [Records -> SUBSET Faults]
  /\ \A v \in Verifiers :
       /\ ver[v].at \in {"none", "create", "copy", "reread", "cleanup", "save", "ended"}
       /\ ver[v].r \in 0..MaxRecords

\* The archive of a successful object backup holds every object that existed
\* from the start of its listing to the end, although the listing is read page
\* by page while users store and delete (list_all_keys, _run_object_storage_backup).
ArchiveIsComplete ==
  \A r \in Records :
    rec[r].type = "objects" /\ rec[r].status = "success" => steady[r] \subseteq archive[r]

\* Verification never touches what users have stored
\* (_verify_object_storage_backup_restorable: a scratch prefix in the same bucket).
UserObjectsUntouched == bucket \cap UserKeys = owned

\* A successful backup has its file, and in one form only: encrypted when a key
\* is set, with no plaintext next to it (_maybe_encrypt_file).
SuccessIsOnDisk ==
  \A r \in Records :
    rec[r].status = "success" => file[r] = {IF Encrypting THEN "sealed" ELSE "plain"}

\* The faults after which something may be left over, and those after which a
\* record may stay RUNNING.
Leavers == {"cleanup", "kill", "unacknowledged"}
Halters == {"outside", "seal", "save", "kill"}

\* What a verification restored is gone once it has ended, overlapping ones
\* included, unless removing it failed, the worker died, or what put it there
\* raised after taking effect (the finally clauses).
LeftoversAccounted ==
  \A r \in Records :
    (\A v \in Verifiers : ver[v].r # r) /\ hurt[r] \cap Leavers = {} =>
      /\ TestDatabase(r) \notin dbs
      /\ \A k \in archive[r] : Scratch(r, k) \in bucket => Scratch(r, k) \in owned

\* Bad news is always explained: a FAILED backup met a fault or a deletion during
\* its listing, one that stays RUNNING could not be encrypted or saved, met an
\* error outside the handler or was killed, and a verdict against a backup met a
\* fault or another verification of it (run_backup, verify_backup_restorable).
BadNewsAccounted ==
  \A r \in Records :
    /\ rec[r].status = "failed" => "produce" \in hurt[r] \/ r \in met
    /\ rec[r].status = "running" /\ job[r].at = "ended" => hurt[r] \cap Halters # {}
    /\ rec[r].verdict = "bad" => hurt[r] \cap (Leavers \cup {"restore"}) # {} \/ r \in met

\* Every backup comes to an end on its record, unless one of the steps outside
\* its handler fails; churn in the bucket cannot keep a listing going.  (Only
\* MaxRecords backups are started, so at some point all of them have ended.)
BackupsEnd ==
  <>[](\A r \in Records :
         rec[r].status # "running" \/ hurt[r] \cap Halters # {})

\* A backup that says SUCCESS is one (run_backup): its file is on disk, sealed
\* when it has to be, and holds what it should.
BackupsAreSound == TypeOK /\ ArchiveIsComplete /\ SuccessIsOnDisk

\* Verifying a backup leaves the cluster and the bucket as it found them
\* (verify_backup_restorable).
VerificationIsClean == UserObjectsUntouched /\ LeftoversAccounted
=============================================================================
