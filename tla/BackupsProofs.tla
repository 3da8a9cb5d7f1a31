---------------------------- MODULE BackupsProofs ----------------------------
(***************************************************************************)
(* Proofs about Backups for every number of records, keys, verifications   *)
(* and faults: a backup that says SUCCESS holds what it should, verifying  *)
(* one leaves no trace that no fault explains, bad news has a reason, and  *)
(* both come to an end.                                                    *)
(***************************************************************************)
EXTENDS Backups, FiniteSetTheorems, WellFoundedInduction, TLAPS

-----------------------------------------------------------------------------
(***************************************************************************)
(* The inductive invariant.                                                *)
(***************************************************************************)

\* A set of keys that has a largest one.
Bounded(keys) == keys \subseteq Nat /\ \E n \in Nat : \A k \in keys : k <= n

\* The form in which a finished backup lies on disk.
Form == IF Encrypting THEN "sealed" ELSE "plain"

\* The values of the components of the state.
RecordRows == [type : Types \cup {"none"}, status : {"none", "running", "success", "failed"},
               verdict : {"none", "good", "bad"}]
JobRecords == [at : {"none", "produce", "list", "seal", "save", "ended"},
               cursor : Nat, page : SUBSET Nat]
VerRecords == [at : {"none", "create", "copy", "reread", "cleanup", "save", "ended"},
               r : 0..MaxRecords, todo : SUBSET Nat, restored : SUBSET Nat, good : BOOLEAN]

\* The variables are functions of records and of verifications.
TypeInv ==
  /\ rec \in [Records -> RecordRows] /\ job \in [Records -> JobRecords]
  /\ ver \in [Verifiers -> VerRecords]
  /\ file \in [Records -> SUBSET {"plain", "sealed"}]
  /\ archive \in [Records -> SUBSET Nat] /\ steady \in [Records -> SUBSET Nat]
  /\ hurt \in [Records -> SUBSET Faults] /\ met \subseteq Records
  /\ owned \subseteq UserKeys /\ dbs \subseteq Records /\ deletes \in 0..MaxDeletes

\* Only finitely many keys are in the bucket, and under a scratch prefix.
KeysInv == Bounded(bucket) /\ \A v \in Verifiers : Bounded(ver[v].restored)

\* How the row and the file of a backup follow the progress of its run.
StageInv ==
  \A r \in Records :
    /\ job[r].at = "none" <=> rec[r].status = "none"
    /\ job[r].at = "none" => job[r].cursor = 0
    /\ job[r].at \in {"produce", "list", "seal", "save"} => rec[r].status = "running"
    /\ rec[r].status # "none" => rec[r].type \in Types
    /\ job[r].at = "produce" => rec[r].type # "objects"
    /\ job[r].at # "list" => job[r].page = {}
    /\ job[r].at = "seal" => file[r] = {"plain"}
    /\ job[r].at = "save" => file[r] = {Form}
    /\ rec[r].status = "success" => file[r] = {Form}

\* How far the listing of an object backup has come: a key that existed all the
\* time is archived, on the page at hand, or after the last key listed.
ListInv ==
  \A r \in Records :
    /\ steady[r] \subseteq owned
    /\ job[r].at = "list" =>
         \A k \in steady[r] : k \in archive[r] \/ k \in job[r].page \/ k > job[r].cursor
    /\ rec[r].type = "objects" /\ (job[r].at \in {"seal", "save"} \/ rec[r].status = "success") =>
         steady[r] \subseteq archive[r]

\* A key on the page at hand is still in the bucket, or was deleted meanwhile.
PageInv == \A r \in Records : \A k \in job[r].page : k \in bucket \/ r \in met

\* The stages of a verification, and the keys it has made.
VerInv ==
  \A v \in Verifiers :
    /\ ver[v].r = 0 <=> ver[v].at \in {"none", "ended"}
    /\ ver[v].r = 0 => ver[v].restored = {} /\ ver[v].good = TRUE
    /\ \A x \in ver[v].restored : \E k \in Nat : x = Scratch(ver[v].r, k)
    /\ ver[v].at = "create" => ver[v].restored = {}
    /\ ver[v].at = "reread" => ver[v].restored # {}

\* Two verifications of one record know of each other (history).
OverlapInv ==
  \A v, w \in Verifiers : v # w /\ ver[v].r = ver[w].r /\ ver[v].r # 0 => ver[v].r \in met

\* What explains a verdict against a backup.
Explained(r) == hurt[r] \cap (Leavers \cup {"restore"}) # {} \/ r \in met

\* A verification that has failed has a reason, and the keys that one has made
\* are there until it removes them, unless another verification did.
VerdictInv ==
  \A v \in Verifiers :
    /\ ~ ver[v].good => Explained(ver[v].r)
    /\ ver[v].at \in {"copy", "reread"} =>
         \A x \in ver[v].restored : x \in bucket \/ ver[v].r \in met

\* Verification v is at work on what it has restored of record r.
AtWork(v, r) == ver[v].r = r /\ ver[v].at \in {"copy", "reread", "cleanup"}

\* A database or a scratch key of a record belongs to a verification at work, as
\* long as no removal failed, no worker died and nothing that took effect raised.
TraceInv ==
  \A r \in Records : hurt[r] \cap Leavers = {} =>
    /\ r \in dbs => \E v \in Verifiers : AtWork(v, r)
    /\ \A k \in Nat : Scratch(r, k) \in bucket =>
         \E v \in Verifiers : AtWork(v, r) /\ Scratch(r, k) \in ver[v].restored

\* The inductive invariant.
IInv ==
  /\ TypeInv /\ KeysInv /\ StageInv /\ ListInv /\ UserObjectsUntouched /\ PageInv
  /\ VerInv /\ OverlapInv /\ VerdictInv /\ TraceInv /\ BadNewsAccounted

-----------------------------------------------------------------------------
(***************************************************************************)
(* Keys: the smallest and the largest of a set, scratch keys, pages.       *)
(***************************************************************************)

\* A set of numbers that is not empty has its minimum.
LEMMA MinIn ==
  ASSUME NEW S \in SUBSET Nat, S # {}
  PROVE  Min(S) \in S /\ \A y \in S : Min(S) <= y
<1>1. \E x \in S : \A y \in S : ~(<<y, x>> \in OpToRel(<, Nat))
  BY NatLessThanWellFounded, WFMin, Zenon
<1>2. PICK x \in S : \A y \in S : ~(<<y, x>> \in OpToRel(<, Nat))
  BY <1>1
<1>3. \A y \in S : x <= y
  <2> TAKE y \in S
  <2>1. x \in Nat /\ y \in Nat
    OBVIOUS
  <2>2. y < x => <<y, x>> \in OpToRel(<, Nat)
    BY <2>1 DEF OpToRel
  <2>3. ~(<<y, x>> \in OpToRel(<, Nat))
    BY <1>2, Zenon
  <2>4. ~(y < x)
    BY <2>2, <2>3, Zenon
  <2> QED
    BY <2>1, <2>4
<1> QED
  BY <1>3 DEF Min

\* A bounded set of numbers that is not empty has its maximum.
LEMMA MaxIn ==
  ASSUME NEW S, Bounded(S), S # {}
  PROVE  Max(S) \in S /\ \A y \in S : y <= Max(S)
<1>1. PICK n \in Nat : \A k \in S : k <= n
  BY DEF Bounded
<1> DEFINE T == {n - k : k \in S}
<1>2. T \in SUBSET Nat /\ T # {}
  <2>1. \A k \in S : n - k \in Nat
    BY <1>1 DEF Bounded
  <2> QED
    BY <2>1
<1>3. PICK k \in S : Min(T) = n - k
  BY <1>2, MinIn
<1>4. \A y \in S : k >= y
  BY <1>2, <1>3, MinIn DEF Bounded
<1>5. Max(S) \in S /\ \A y \in S : Max(S) >= y
  BY <1>4 DEF Max
<1> QED
  BY <1>5 DEF Bounded

\* Bounded sets: subsets, and one more key.
LEMMA BoundedSets ==
  /\ \A S, T : Bounded(S) /\ T \subseteq S => Bounded(T)
  /\ \A S : \A k \in Nat : Bounded(S) => Bounded(S \cup {k})
  /\ Bounded({})
<1>1. ASSUME NEW S, NEW T, Bounded(S), T \subseteq S PROVE Bounded(T)
  BY <1>1 DEF Bounded
<1>2. ASSUME NEW S, NEW k \in Nat, Bounded(S) PROVE Bounded(S \cup {k})
  <2>1. PICK n \in Nat : \A i \in S : i <= n
    BY <1>2 DEF Bounded
  <2>2. n + k \in Nat /\ \A i \in S \cup {k} : i <= n + k
    BY <1>2, <2>1 DEF Bounded
  <2> QED
    BY <1>2, <2>2 DEF Bounded
<1>3. Bounded({})
  BY DEF Bounded
<1> QED
  BY <1>1, <1>2, <1>3

\* Two multiples of n that differ are at least n apart.
LEMMA Apart ==
  ASSUME NEW n \in Nat, NEW a \in Nat, NEW b \in Nat, a < b
  PROVE  a * n + n <= b * n
<1>1. PICK d \in Nat : b = a + 1 + d
  <2>1. b - a - 1 \in Nat /\ b = a + 1 + (b - a - 1)
    OBVIOUS
  <2> QED
    BY <2>1
<1>2. b * n = a * n + n + d * n
  BY <1>1
<1>3. d * n \in Nat /\ a * n \in Nat
  OBVIOUS
<1> QED
  BY <1>2, <1>3

\* A scratch key is no user's key, and of one record only.
LEMMA ScratchApart ==
  ASSUME NEW r \in Records, NEW k \in Nat
  PROVE  /\ Scratch(r, k) \in Nat /\ Scratch(r, k) \notin UserKeys
         /\ \A q \in Records, i \in Nat : Scratch(q, i) = Scratch(r, k) => q = r
<1> USE BackupsAssumption DEF Records, UserKeys, Scratch
<1>1. k * (MaxRecords + 1) \in Nat
  OBVIOUS
<1>2. ASSUME NEW q \in Records, NEW i \in Nat, Scratch(q, i) = Scratch(r, k) PROVE q = r
  <2>1. i * (MaxRecords + 1) \in Nat
    OBVIOUS
  <2>2. i < k => i * (MaxRecords + 1) + (MaxRecords + 1) <= k * (MaxRecords + 1)
    BY Apart
  <2>3. k < i => k * (MaxRecords + 1) + (MaxRecords + 1) <= i * (MaxRecords + 1)
    BY Apart
  <2> QED
    BY <1>1, <1>2, <2>1, <2>2, <2>3
<1> QED
  BY <1>1, <1>2

\* A page holds the first keys after the cursor and skips none, and it is empty
\* only when there are none (list_all_keys).
LEMMA PageSkipsNone ==
  ASSUME NEW r \in Records, Bounded(bucket), job[r].cursor \in Nat
  PROVE  /\ NextPage(r) \subseteq bucket
         /\ NextPage(r) = {} => \A k \in bucket : k <= job[r].cursor
         /\ NextPage(r) # {} =>
              /\ Max(NextPage(r)) \in NextPage(r)
              /\ \A k \in bucket :
                   k > job[r].cursor => k \in NextPage(r) \/ k > Max(NextPage(r))
<1> DEFINE from == {k \in bucket : k > job[r].cursor}
           below(k) == {i \in from : i < k}
<1>1. NextPage(r) = {k \in from : Cardinality(below(k)) < PageSize}
  BY DEF NextPage
<1>2. Bounded(from) /\ Bounded(NextPage(r)) /\ NextPage(r) \subseteq bucket
  BY <1>1, BoundedSets
<1>3. from \subseteq Nat /\ IsFiniteSet(from)
  BY <1>2, FS_BoundedSetOfNaturals DEF Bounded
<1>4. from # {} => NextPage(r) # {}
  <2> SUFFICES ASSUME from # {} PROVE NextPage(r) # {}
    OBVIOUS
  <2>1. Min(from) \in from /\ \A y \in from : Min(from) <= y
    BY <1>3, MinIn
  <2>2. below(Min(from)) = {}
    BY <1>3, <2>1
  <2>3. Cardinality(below(Min(from))) < PageSize
    <3>1. Cardinality(below(Min(from))) = 0
      BY <2>2, FS_EmptySet, Zenon
    <3> QED
      BY <3>1, BackupsAssumption
  <2> QED
    BY <1>1, <2>1, <2>3
<1>5. ASSUME NEW i \in from, NEW k \in NextPage(r), i < k PROVE i \in NextPage(r)
  <2>1. below(i) \subseteq below(k) /\ below(k) \subseteq from
    BY <1>1, <1>3, <1>5
  <2>2. Cardinality(below(i)) <= Cardinality(below(k)) /\ IsFiniteSet(below(i)) /\ IsFiniteSet(below(k))
    BY <1>3, <2>1, FS_Subset
  <2>3. Cardinality(below(i)) \in Nat /\ Cardinality(below(k)) \in Nat
    BY <2>2, FS_CardinalityType
  <2>4. Cardinality(below(k)) < PageSize
    BY <1>1, <1>5
  <2>5. Cardinality(below(i)) < PageSize
    BY <2>2, <2>3, <2>4, BackupsAssumption
  <2> QED
    BY <1>1, <2>5
<1>6. NextPage(r) = {} => \A k \in bucket : k <= job[r].cursor
  BY <1>4 DEF Bounded
<1>7. ASSUME NextPage(r) # {}
      PROVE  /\ Max(NextPage(r)) \in NextPage(r)
             /\ \A k \in from : k \in NextPage(r) \/ k > Max(NextPage(r))
  <2>1. Max(NextPage(r)) \in NextPage(r)
    BY <1>2, <1>7, MaxIn
  <2>2. Max(NextPage(r)) \in Nat
    BY <1>2, <2>1 DEF Bounded
  <2> QED
    BY <1>3, <1>5, <2>1, <2>2
<1> QED
  BY <1>2, <1>6, <1>7

-----------------------------------------------------------------------------
(***************************************************************************)
(* What the steps that pick a key or a record find.                        *)
(***************************************************************************)

\* The bounds on records and keys.
LEMMA Counts == MaxRecords \in Nat /\ MaxKey \in Nat \ {0} /\ MaxDeletes \in Nat
  BY BackupsAssumption

\* Tasks that rest and that have ended.
LEMMA Ended ==
  /\ NoJob \in JobRecords /\ [NoJob EXCEPT !.at = "ended"] \in JobRecords
  /\ Resting \in VerRecords /\ [Resting EXCEPT !.at = "ended"] \in VerRecords
<1>1. NoJob \in JobRecords /\ Resting \in VerRecords
  BY Counts DEF NoJob, JobRecords, Resting, VerRecords
<1>2. [NoJob EXCEPT !.at = "ended"] \in JobRecords
  BY <1>1 DEF JobRecords
<1>3. [Resting EXCEPT !.at = "ended"] \in VerRecords
  BY <1>1 DEF VerRecords
<1> QED
  BY <1>1, <1>2, <1>3

\* A fault is added to those that befell a record.
LEMMA Suffered ==
  ASSUME hurt \in [Records -> SUBSET Faults], NEW r \in Records, NEW kinds, Suffer(r, kinds)
  PROVE  /\ hurt' \in [Records -> SUBSET Faults]
         /\ \A q \in Records : hurt[q] \subseteq hurt'[q]
         /\ \A q \in Records : q # r => hurt'[q] = hurt[q]
         /\ kinds \subseteq hurt'[r]
  BY DEF Suffer

\* The next page, as ListPage takes it.
LEMMA ListFacts ==
  ASSUME IInv
  PROVE  \A r \in Records :
           /\ NextPage(r) \subseteq bucket
           /\ NextPage(r) = {} => \A k \in bucket : k <= job[r].cursor
           /\ NextPage(r) # {} =>
                /\ Max(NextPage(r)) \in NextPage(r)
                /\ \A k \in bucket :
                     k > job[r].cursor => k \in NextPage(r) \/ k > Max(NextPage(r))
<1> TAKE r \in Records
<1>1. Bounded(bucket) /\ job[r].cursor \in Nat
  BY DEF IInv, KeysInv, TypeInv, JobRecords
<1> QED
  BY <1>1, PageSkipsNone

\* The object that ReadObject fetches is on the page.
LEMMA ReadFacts ==
  ASSUME IInv
  PROVE  \A r \in Records : job[r].page # {} => Min(job[r].page) \in job[r].page
<1>1. \A r \in Records : job[r].page \in SUBSET Nat
  BY DEF IInv, TypeInv, JobRecords
<1> QED
  BY <1>1, MinIn

\* The record that StartVerify picks is a successful one of its type.
LEMMA VerifyFacts ==
  ASSUME IInv
  PROVE  \A type \in Types :
           Candidates(type) # {} =>
             LET r == Max(Candidates(type))
             IN  r \in Records /\ rec[r].status = "success" /\ rec[r].type = type
<1> TAKE type \in Types
<1>1. Bounded(Candidates(type))
  BY BackupsAssumption DEF Bounded, Candidates, Records
<1>2. Candidates(type) # {} => Max(Candidates(type)) \in Candidates(type)
  BY <1>1, MaxIn
<1> QED
  BY <1>2 DEF Candidates

\* The object that CopyObject restores is one of those to do.
LEMMA CopyFacts ==
  ASSUME IInv
  PROVE  \A v \in Verifiers :
           ver[v].todo # {} => Min(ver[v].todo) \in ver[v].todo /\ Min(ver[v].todo) \in Nat
<1>1. \A v \in Verifiers : ver[v].todo \in SUBSET Nat
  BY DEF IInv, TypeInv, VerRecords
<1> QED
  BY <1>1, MinIn

\* The key that ReadBack reads is one the verification has put.
LEMMA RereadFacts ==
  ASSUME IInv
  PROVE  \A v \in Verifiers :
           ver[v].at = "reread" => Max(ver[v].restored) \in ver[v].restored
<1>1. \A v \in Verifiers : Bounded(ver[v].restored)
  BY DEF IInv, KeysInv
<1> QED
  BY <1>1, MaxIn DEF IInv, VerInv

-----------------------------------------------------------------------------
(***************************************************************************)
(* Every step keeps the invariant, conjunct by conjunct.                   *)
(***************************************************************************)

\* A verification at work is about a record, and makes keys that no user has.
LEMMA AtWorkFacts ==
  ASSUME IInv
  PROVE  \A v \in Verifiers :
           /\ ver[v].at \notin {"none", "ended"} => ver[v].r \in Records
           /\ ver[v].restored \cap UserKeys = {}
           /\ \A k \in Nat : ver[v].r \in Records => Scratch(ver[v].r, k) \in Nat
<1> TAKE v \in Verifiers
<1>1. ver[v].r \in 0..MaxRecords /\ ver[v].restored \subseteq Nat
  BY DEF IInv, TypeInv, VerRecords
<1>2. ver[v].at \notin {"none", "ended"} => ver[v].r \in Records
  BY <1>1, BackupsAssumption DEF IInv, VerInv, Records
<1>3. \A k \in Nat : ver[v].r \in Records => Scratch(ver[v].r, k) \in Nat
  BY ScratchApart
<1>4. ver[v].restored \cap UserKeys = {}
  <2>1. ver[v].r = 0 => ver[v].restored = {}
    BY DEF IInv, VerInv
  <2>2. \A x \in ver[v].restored : \E k \in Nat : x = Scratch(ver[v].r, k)
    BY DEF IInv, VerInv
  <2>3. ver[v].r # 0 => ver[v].r \in Records
    BY <1>1, BackupsAssumption DEF Records
  <2> QED
    BY <2>1, <2>2, <2>3, ScratchApart
<1> QED
  BY <1>2, <1>3, <1>4

\* What a failure outside the handler changes: the run ends, its row stays.
LEMMA OutsideFacts ==
  ASSUME IInv, NEW r \in Records, OutsideFails(r)
  PROVE  /\ UNCHANGED <<rec, file, archive, bucket, dbs, ver, deletes, owned, steady, met>>
         /\ job[r].at \in {"produce", "list", "save"}
         /\ job' \in [Records -> JobRecords] /\ job'[r] = [NoJob EXCEPT !.at = "ended"]
         /\ \A q \in Records : q # r => job'[q] = job[q]
         /\ hurt' \in [Records -> SUBSET Faults] /\ "outside" \in hurt'[r]
         /\ \A q \in Records : hurt[q] \subseteq hurt'[q]
<1>1. Suffer(r, {"outside"})
  BY DEF OutsideFails
<1>2. /\ hurt' \in [Records -> SUBSET Faults] /\ {"outside"} \subseteq hurt'[r]
      /\ \A q \in Records : hurt[q] \subseteq hurt'[q]
  BY <1>1, Suffered DEF IInv, TypeInv
<1>3. /\ UNCHANGED <<rec, file, archive, bucket, dbs, ver, deletes, owned, steady, met>>
      /\ job[r].at \in {"produce", "list", "save"}
      /\ job' = [job EXCEPT ![r] = [NoJob EXCEPT !.at = "ended"]]
  BY DEF OutsideFails, histories
<1> QED
  BY <1>2, <1>3, Ended DEF IInv, TypeInv

\* What a creation, or a put, that raises after taking effect changes.
LEMMA UnansweredFacts ==
  ASSUME IInv, NEW v \in Verifiers, Unanswered(v)
  PROVE  /\ UNCHANGED <<rec, job, file, archive, deletes, owned, steady, met>>
         /\ ver[v].r \in Records /\ ver'[v].r = ver[v].r
         /\ ver'[v].restored = ver[v].restored /\ ver'[v].todo = ver[v].todo
         /\ ver'[v].good = FALSE /\ ver' \in [Verifiers -> VerRecords]
         /\ \A w \in Verifiers : w # v => ver'[w] = ver[w]
         /\ hurt' \in [Records -> SUBSET Faults] /\ "unacknowledged" \in hurt'[ver[v].r]
         /\ \A q \in Records : hurt[q] \subseteq hurt'[q]
         /\ \/ /\ ver[v].at = "create" /\ ver'[v].at = "save" /\ bucket' = bucket
               /\ dbs' = dbs \cup {ver[v].r}
            \/ /\ ver[v].at = "copy" /\ ver'[v].at = "cleanup" /\ dbs' = dbs
               /\ \E k \in ver[v].todo : k \in Nat /\ bucket' = bucket \cup {Scratch(ver[v].r, k)}
<1> USE DEF IInv, TypeInv, histories
<1>1. ver[v].at \in {"create", "copy"} /\ Suffer(ver[v].r, {"unacknowledged"})
  BY DEF Unanswered
<1>2. ver[v].r \in Records
  BY <1>1, AtWorkFacts
<1>3. /\ hurt' \in [Records -> SUBSET Faults] /\ {"unacknowledged"} \subseteq hurt'[ver[v].r]
      /\ \A q \in Records : hurt[q] \subseteq hurt'[q]
  BY <1>1, <1>2, Suffered
<1>4. /\ UNCHANGED <<rec, job, file, archive, deletes, owned, steady, met>>
      /\ \E at \in {"save", "cleanup"} : ver' = [ver EXCEPT ![v].at = at, ![v].good = FALSE]
  BY DEF Unanswered
<1>5. PICK at \in {"save", "cleanup"} : ver' = [ver EXCEPT ![v].at = at, ![v].good = FALSE]
  BY <1>4
<1>6. ver[v] \in VerRecords /\ ver'[v] = [ver[v] EXCEPT !.at = at, !.good = FALSE]
  BY <1>5
<1>7. /\ ver'[v].r = ver[v].r /\ ver'[v].restored = ver[v].restored /\ ver'[v].todo = ver[v].todo
      /\ ver'[v].good = FALSE /\ ver'[v] \in VerRecords /\ ver'[v].at = at
  BY <1>6 DEF VerRecords
<1>8. ver' \in [Verifiers -> VerRecords] /\ \A w \in Verifiers : w # v => ver'[w] = ver[w]
  BY <1>5, <1>7
<1>9. CASE ver[v].at = "create"
  <2>1. ver'[v].at = "save" /\ bucket' = bucket /\ dbs' = dbs \cup {ver[v].r}
    BY <1>7, <1>9 DEF Unanswered, TestDatabase, VerRecords
  <2> QED
    BY <1>2, <1>3, <1>4, <1>7, <1>8, <1>9, <2>1
<1>10. CASE ver[v].at = "copy"
  <2>1. ver'[v].at = "cleanup" /\ bucket' = bucket \cup {Scratch(ver[v].r, Min(ver[v].todo))} /\ dbs' = dbs
    BY <1>7, <1>10 DEF Unanswered, VerRecords
  <2>2. Min(ver[v].todo) \in ver[v].todo /\ Min(ver[v].todo) \in Nat
    BY <1>10, CopyFacts DEF Unanswered
  <2> QED
    BY <1>2, <1>3, <1>4, <1>7, <1>8, <1>10, <2>1, <2>2
<1> QED
  BY <1>1, <1>9, <1>10

\* A row keeps its shape.
LEMMA RecTypeNext ==
  ASSUME TypeInv, [Next]_vars
  PROVE  rec' \in [Records -> RecordRows]
<1> USE DEF TypeInv
<1>1. ASSUME NEW r \in Records, NEW type \in Types, StartBackup(r, type)
      PROVE  rec' \in [Records -> RecordRows]
  BY <1>1 DEF StartBackup, NoRecord, RecordRows
<1>2. ASSUME NEW r \in Records, ReadObject(r) \/ ProduceFails(r)
      PROVE  rec' \in [Records -> RecordRows]
  BY <1>2 DEF ReadObject, ProduceFails, GiveUp, RecordRows
<1>3. ASSUME NEW r \in Records, SaveRecord(r)
      PROVE  rec' \in [Records -> RecordRows]
  BY <1>3 DEF SaveRecord, RecordRows
<1>4. ASSUME NEW v \in Verifiers, SaveVerdict(v)
      PROVE  rec' \in [Records -> RecordRows]
  <2>1. Verdict(v) \in {"good", "bad"}
    BY DEF Verdict
  <2> QED
    BY <1>4, <2>1 DEF SaveVerdict, RecordRows
<1>5. ASSUME NEW k \in UserKeys, PutObject(k) \/ DeleteObject(k)
      PROVE  rec' \in [Records -> RecordRows]
  BY <1>5 DEF PutObject, DeleteObject
<1>6. ASSUME NEW r \in Records, Produce(r) \/ ListPage(r) \/ Seal(r) \/ BackupKilled(r)
      PROVE  rec' \in [Records -> RecordRows]
  BY <1>6 DEF Produce, ListPage, Seal, BackupKilled
<1>7. ASSUME NEW v \in Verifiers, NEW type \in Types, StartVerify(v, type)
      PROVE  rec' \in [Records -> RecordRows]
  BY <1>7 DEF StartVerify
<1>8. ASSUME NEW v \in Verifiers, CreateDatabase(v) \/ CopyObject(v) \/ ReadBack(v) \/ Restored(v) \/ Cleanup(v) \/ VerifyKilled(v)
      PROVE  rec' \in [Records -> RecordRows]
  BY <1>8 DEF CreateDatabase, CopyObject, ReadBack, Restored, Cleanup, VerifyKilled
<1>9. ASSUME NEW r \in Records, OutsideFails(r)
      PROVE  rec' \in [Records -> RecordRows]
  BY <1>9 DEF OutsideFails
<1>10. ASSUME NEW v \in Verifiers, Unanswered(v)
      PROVE  rec' \in [Records -> RecordRows]
  BY <1>10 DEF Unanswered
<1>11. CASE UNCHANGED vars
  BY <1>11 DEF vars
<1> QED
  BY <1>1, <1>2, <1>3, <1>4, <1>5, <1>6, <1>7, <1>8, <1>9, <1>10, <1>11 DEF Next, Backup, Verify

\* The progress of a run keeps its shape.
LEMMA JobTypeNext ==
  ASSUME IInv, [Next]_vars
  PROVE  job' \in [Records -> JobRecords]
<1> USE DEF IInv, TypeInv
<1>1. ASSUME NEW r \in Records, NEW type \in Types, StartBackup(r, type)
      PROVE  job' \in [Records -> JobRecords]
  BY <1>1 DEF StartBackup, JobRecords
<1>2. ASSUME NEW r \in Records, ReadObject(r)
      PROVE  job' \in [Records -> JobRecords]
  <2>1. CASE GiveUp(r, {})
    BY <2>1, Ended DEF GiveUp
  <2>2. CASE job' = [job EXCEPT ![r].page = @ \ {Min(job[r].page)}]
    BY <2>2 DEF JobRecords
  <2> QED
    BY <1>2, <2>1, <2>2 DEF ReadObject
<1>3. ASSUME NEW r \in Records, ProduceFails(r)
      PROVE  job' \in [Records -> JobRecords]
  BY <1>3, Ended DEF ProduceFails, GiveUp
<1>4. ASSUME NEW r \in Records, SaveRecord(r) \/ BackupKilled(r)
      PROVE  job' \in [Records -> JobRecords]
  BY <1>4, Ended DEF SaveRecord, BackupKilled
<1>5. ASSUME NEW r \in Records, Produce(r)
      PROVE  job' \in [Records -> JobRecords]
  BY <1>5 DEF Produce, JobRecords
<1>6. ASSUME NEW r \in Records, ListPage(r)
      PROVE  job' \in [Records -> JobRecords]
  <2>1. NextPage(r) \in SUBSET Nat /\ (NextPage(r) # {} => Max(NextPage(r)) \in Nat)
    BY ListFacts DEF KeysInv, Bounded
  <2> QED
    BY <1>6, <2>1 DEF ListPage, JobRecords
<1>7. ASSUME NEW r \in Records, Seal(r)
      PROVE  job' \in [Records -> JobRecords]
  BY <1>7 DEF Seal, JobRecords
<1>8. ASSUME NEW k \in UserKeys, PutObject(k) \/ DeleteObject(k)
      PROVE  job' \in [Records -> JobRecords]
  BY <1>8 DEF PutObject, DeleteObject
<1>9. ASSUME NEW v \in Verifiers, NEW type \in Types, StartVerify(v, type)
      PROVE  job' \in [Records -> JobRecords]
  BY <1>9 DEF StartVerify
<1>10. ASSUME NEW v \in Verifiers, CreateDatabase(v) \/ CopyObject(v) \/ ReadBack(v) \/ Restored(v) \/ Cleanup(v) \/ SaveVerdict(v) \/ VerifyKilled(v)
      PROVE  job' \in [Records -> JobRecords]
  BY <1>10 DEF CreateDatabase, CopyObject, ReadBack, Restored, Cleanup, SaveVerdict, VerifyKilled
<1>11. ASSUME NEW r \in Records, OutsideFails(r)
      PROVE  job' \in [Records -> JobRecords]
  BY <1>11, OutsideFacts
<1>12. ASSUME NEW v \in Verifiers, Unanswered(v)
      PROVE  job' \in [Records -> JobRecords]
  BY <1>12, UnansweredFacts
<1>13. CASE UNCHANGED vars
  BY <1>13 DEF vars
<1> QED
  BY <1>1, <1>2, <1>3, <1>4, <1>5, <1>6, <1>7, <1>8, <1>9, <1>10, <1>11, <1>12, <1>13 DEF Next, Backup, Verify

\* The progress of a verification keeps its shape.
LEMMA VerTypeNext ==
  ASSUME IInv, [Next]_vars
  PROVE  ver' \in [Verifiers -> VerRecords]
<1> USE DEF IInv, TypeInv
<1>1. ASSUME NEW v \in Verifiers, NEW type \in Types, StartVerify(v, type)
      PROVE  ver' \in [Verifiers -> VerRecords]
  <2> DEFINE q == Max(Candidates(type))
  <2>1. q \in 0..MaxRecords /\ archive[q] \in SUBSET Nat
    BY <1>1, VerifyFacts, Counts DEF StartVerify, Records
  <2>2. PICK at \in {"create", "copy"} :
          ver' = [ver EXCEPT ![v] = [Resting EXCEPT !.at = at, !.r = q, !.todo = archive[q]]]
    BY <1>1 DEF StartVerify
  <2>3. [Resting EXCEPT !.at = at, !.r = q, !.todo = archive[q]] \in VerRecords
    BY <2>1 DEF Resting, VerRecords
  <2> QED
    BY <2>2, <2>3
<1>2. ASSUME NEW v \in Verifiers, CreateDatabase(v)
      PROVE  ver' \in [Verifiers -> VerRecords]
  BY <1>2 DEF CreateDatabase, VerRecords
<1>3. ASSUME NEW v \in Verifiers, CopyObject(v)
      PROVE  ver' \in [Verifiers -> VerRecords]
  BY <1>3, CopyFacts, AtWorkFacts DEF CopyObject, VerRecords
<1>4. ASSUME NEW v \in Verifiers, ReadBack(v)
      PROVE  ver' \in [Verifiers -> VerRecords]
  <2>1. CASE Reread(v)
    BY <1>4, <2>1 DEF ReadBack, VerRecords
  <2>2. CASE ver' = [ver EXCEPT ![v].at = "cleanup", ![v].good = FALSE]
    <3>1. ver[v] \in VerRecords
      OBVIOUS
    <3>2. [ver[v] EXCEPT !.at = "cleanup", !.good = FALSE] \in VerRecords
      BY <3>1 DEF VerRecords
    <3>3. ver' = [ver EXCEPT ![v] = [ver[v] EXCEPT !.at = "cleanup", !.good = FALSE]]
      BY <2>2
    <3> QED
      BY <3>2, <3>3
  <2> QED
    BY <1>4, <2>1, <2>2 DEF ReadBack
<1>5. ASSUME NEW v \in Verifiers, Restored(v)
      PROVE  ver' \in [Verifiers -> VerRecords]
  BY <1>5 DEF Restored, VerRecords
<1>6. ASSUME NEW v \in Verifiers, Cleanup(v)
      PROVE  ver' \in [Verifiers -> VerRecords]
  BY <1>6 DEF Cleanup, VerRecords
<1>7. ASSUME NEW v \in Verifiers, SaveVerdict(v)
      PROVE  ver' \in [Verifiers -> VerRecords]
  BY <1>7, Ended DEF SaveVerdict
<1>8. ASSUME NEW v \in Verifiers, VerifyKilled(v)
      PROVE  ver' \in [Verifiers -> VerRecords]
  BY <1>8, Ended DEF VerifyKilled
<1>9. ASSUME NEW k \in UserKeys, PutObject(k) \/ DeleteObject(k)
      PROVE  ver' \in [Verifiers -> VerRecords]
  BY <1>9 DEF PutObject, DeleteObject
<1>10. ASSUME NEW r \in Records, NEW type \in Types, StartBackup(r, type)
      PROVE  ver' \in [Verifiers -> VerRecords]
  BY <1>10 DEF StartBackup
<1>11. ASSUME NEW r \in Records, Produce(r) \/ ListPage(r) \/ ReadObject(r) \/ Seal(r) \/ SaveRecord(r) \/ ProduceFails(r) \/ BackupKilled(r)
      PROVE  ver' \in [Verifiers -> VerRecords]
  BY <1>11 DEF Produce, ListPage, ReadObject, Seal, SaveRecord, ProduceFails, BackupKilled
<1>12. ASSUME NEW r \in Records, OutsideFails(r)
      PROVE  ver' \in [Verifiers -> VerRecords]
  BY <1>12, OutsideFacts
<1>13. ASSUME NEW v \in Verifiers, Unanswered(v)
      PROVE  ver' \in [Verifiers -> VerRecords]
  BY <1>13, UnansweredFacts
<1>14. CASE UNCHANGED vars
  BY <1>14 DEF vars
<1> QED
  BY <1>1, <1>2, <1>3, <1>4, <1>5, <1>6, <1>7, <1>8, <1>9, <1>10, <1>11, <1>12, <1>13, <1>14 DEF Next, Backup, Verify

\* Files, archives and the objects they should hold keep their shape.
LEMMA FileTypeNext ==
  ASSUME IInv, [Next]_vars
  PROVE  file' \in [Records -> SUBSET {"plain", "sealed"}] /\ archive' \in [Records -> SUBSET Nat]
         /\ steady' \in [Records -> SUBSET Nat] /\ owned' \subseteq UserKeys
<1> USE DEF IInv, TypeInv, histories
<1>1. ASSUME NEW k \in UserKeys, PutObject(k) \/ DeleteObject(k)
      PROVE  file' \in [Records -> SUBSET {"plain", "sealed"}] /\ archive' \in [Records -> SUBSET Nat]
         /\ steady' \in [Records -> SUBSET Nat] /\ owned' \subseteq UserKeys
  BY <1>1 DEF PutObject, DeleteObject
<1>2. ASSUME NEW r \in Records, NEW type \in Types, StartBackup(r, type)
      PROVE  file' \in [Records -> SUBSET {"plain", "sealed"}] /\ archive' \in [Records -> SUBSET Nat]
         /\ steady' \in [Records -> SUBSET Nat] /\ owned' \subseteq UserKeys
  BY <1>2, Counts DEF StartBackup, UserKeys
<1>3. ASSUME NEW r \in Records, Produce(r)
      PROVE  file' \in [Records -> SUBSET {"plain", "sealed"}] /\ archive' \in [Records -> SUBSET Nat]
         /\ steady' \in [Records -> SUBSET Nat] /\ owned' \subseteq UserKeys
  BY <1>3 DEF Produce
<1>4. ASSUME NEW r \in Records, ListPage(r)
      PROVE  file' \in [Records -> SUBSET {"plain", "sealed"}] /\ archive' \in [Records -> SUBSET Nat]
         /\ steady' \in [Records -> SUBSET Nat] /\ owned' \subseteq UserKeys
  BY <1>4 DEF ListPage
<1>5. ASSUME NEW r \in Records, ReadObject(r)
      PROVE  file' \in [Records -> SUBSET {"plain", "sealed"}] /\ archive' \in [Records -> SUBSET Nat]
         /\ steady' \in [Records -> SUBSET Nat] /\ owned' \subseteq UserKeys
  BY <1>5, ReadFacts DEF ReadObject, GiveUp, JobRecords
<1>6. ASSUME NEW r \in Records, Seal(r)
      PROVE  file' \in [Records -> SUBSET {"plain", "sealed"}] /\ archive' \in [Records -> SUBSET Nat]
         /\ steady' \in [Records -> SUBSET Nat] /\ owned' \subseteq UserKeys
  BY <1>6 DEF Seal, Sealed
<1>7. ASSUME NEW r \in Records, ProduceFails(r)
      PROVE  file' \in [Records -> SUBSET {"plain", "sealed"}] /\ archive' \in [Records -> SUBSET Nat]
         /\ steady' \in [Records -> SUBSET Nat] /\ owned' \subseteq UserKeys
  BY <1>7 DEF ProduceFails, GiveUp
<1>8. ASSUME NEW r \in Records, BackupKilled(r)
      PROVE  file' \in [Records -> SUBSET {"plain", "sealed"}] /\ archive' \in [Records -> SUBSET Nat]
         /\ steady' \in [Records -> SUBSET Nat] /\ owned' \subseteq UserKeys
  BY <1>8 DEF BackupKilled
<1>9. ASSUME NEW r \in Records, SaveRecord(r)
      PROVE  file' \in [Records -> SUBSET {"plain", "sealed"}] /\ archive' \in [Records -> SUBSET Nat]
         /\ steady' \in [Records -> SUBSET Nat] /\ owned' \subseteq UserKeys
  BY <1>9 DEF SaveRecord
<1>10. ASSUME NEW v \in Verifiers, NEW type \in Types, StartVerify(v, type)
      PROVE  file' \in [Records -> SUBSET {"plain", "sealed"}] /\ archive' \in [Records -> SUBSET Nat]
         /\ steady' \in [Records -> SUBSET Nat] /\ owned' \subseteq UserKeys
  BY <1>10 DEF StartVerify
<1>11. ASSUME NEW v \in Verifiers, CreateDatabase(v) \/ CopyObject(v) \/ ReadBack(v) \/ Restored(v) \/ Cleanup(v) \/ SaveVerdict(v) \/ VerifyKilled(v)
      PROVE  file' \in [Records -> SUBSET {"plain", "sealed"}] /\ archive' \in [Records -> SUBSET Nat]
         /\ steady' \in [Records -> SUBSET Nat] /\ owned' \subseteq UserKeys
  BY <1>11 DEF CreateDatabase, CopyObject, ReadBack, Restored, Cleanup, SaveVerdict, VerifyKilled
<1>12. ASSUME NEW r \in Records, OutsideFails(r)
      PROVE  file' \in [Records -> SUBSET {"plain", "sealed"}] /\ archive' \in [Records -> SUBSET Nat]
         /\ steady' \in [Records -> SUBSET Nat] /\ owned' \subseteq UserKeys
  BY <1>12, OutsideFacts
<1>13. ASSUME NEW v \in Verifiers, Unanswered(v)
      PROVE  file' \in [Records -> SUBSET {"plain", "sealed"}] /\ archive' \in [Records -> SUBSET Nat]
         /\ steady' \in [Records -> SUBSET Nat] /\ owned' \subseteq UserKeys
  BY <1>13, UnansweredFacts
<1>14. CASE UNCHANGED vars
  BY <1>14 DEF vars
<1> QED
  BY <1>1, <1>2, <1>3, <1>4, <1>5, <1>6, <1>7, <1>8, <1>9, <1>10, <1>11, <1>12, <1>13, <1>14 DEF Next, Backup, Verify

\* The databases and the histories keep their shape.
LEMMA HurtTypeNext ==
  ASSUME IInv, [Next]_vars
  PROVE  hurt' \in [Records -> SUBSET Faults] /\ met' \subseteq Records
         /\ dbs' \subseteq Records /\ deletes' \in 0..MaxDeletes
<1> USE DEF IInv, TypeInv, histories
<1>1. ASSUME NEW k \in UserKeys, PutObject(k) \/ DeleteObject(k)
      PROVE  hurt' \in [Records -> SUBSET Faults] /\ met' \subseteq Records
         /\ dbs' \subseteq Records /\ deletes' \in 0..MaxDeletes
  BY <1>1, Counts DEF PutObject, DeleteObject
<1>2. ASSUME NEW r \in Records, ReadObject(r)
      PROVE  hurt' \in [Records -> SUBSET Faults] /\ met' \subseteq Records
         /\ dbs' \subseteq Records /\ deletes' \in 0..MaxDeletes
  BY <1>2, Suffered DEF ReadObject, GiveUp
<1>3. ASSUME NEW r \in Records, ProduceFails(r)
      PROVE  hurt' \in [Records -> SUBSET Faults] /\ met' \subseteq Records
         /\ dbs' \subseteq Records /\ deletes' \in 0..MaxDeletes
  BY <1>3, Suffered DEF ProduceFails, GiveUp
<1>4. ASSUME NEW r \in Records, Seal(r)
      PROVE  hurt' \in [Records -> SUBSET Faults] /\ met' \subseteq Records
         /\ dbs' \subseteq Records /\ deletes' \in 0..MaxDeletes
  BY <1>4, Suffered DEF Seal, Fine
<1>5. ASSUME NEW r \in Records, SaveRecord(r)
      PROVE  hurt' \in [Records -> SUBSET Faults] /\ met' \subseteq Records
         /\ dbs' \subseteq Records /\ deletes' \in 0..MaxDeletes
  BY <1>5, Suffered DEF SaveRecord, Fine
<1>6. ASSUME NEW r \in Records, BackupKilled(r)
      PROVE  hurt' \in [Records -> SUBSET Faults] /\ met' \subseteq Records
         /\ dbs' \subseteq Records /\ deletes' \in 0..MaxDeletes
  BY <1>6, Suffered DEF BackupKilled
<1>7. ASSUME NEW v \in Verifiers, NEW type \in Types, StartVerify(v, type)
      PROVE  hurt' \in [Records -> SUBSET Faults] /\ met' \subseteq Records
         /\ dbs' \subseteq Records /\ deletes' \in 0..MaxDeletes
  BY <1>7, VerifyFacts DEF StartVerify
<1>8. ASSUME NEW v \in Verifiers, CreateDatabase(v)
      PROVE  hurt' \in [Records -> SUBSET Faults] /\ met' \subseteq Records
         /\ dbs' \subseteq Records /\ deletes' \in 0..MaxDeletes
  BY <1>8, Suffered, AtWorkFacts DEF CreateDatabase, Fine, TestDatabase
<1>9. ASSUME NEW v \in Verifiers, Restored(v)
      PROVE  hurt' \in [Records -> SUBSET Faults] /\ met' \subseteq Records
         /\ dbs' \subseteq Records /\ deletes' \in 0..MaxDeletes
  BY <1>9, Suffered, AtWorkFacts DEF Restored, Fine
<1>10. ASSUME NEW v \in Verifiers, Cleanup(v)
      PROVE  hurt' \in [Records -> SUBSET Faults] /\ met' \subseteq Records
         /\ dbs' \subseteq Records /\ deletes' \in 0..MaxDeletes
  BY <1>10, Suffered, AtWorkFacts DEF Cleanup, Fine
<1>11. ASSUME NEW v \in Verifiers, SaveVerdict(v)
      PROVE  hurt' \in [Records -> SUBSET Faults] /\ met' \subseteq Records
         /\ dbs' \subseteq Records /\ deletes' \in 0..MaxDeletes
  BY <1>11, Suffered, AtWorkFacts DEF SaveVerdict, Fine
<1>12. ASSUME NEW v \in Verifiers, VerifyKilled(v)
      PROVE  hurt' \in [Records -> SUBSET Faults] /\ met' \subseteq Records
         /\ dbs' \subseteq Records /\ deletes' \in 0..MaxDeletes
  BY <1>12, Suffered, AtWorkFacts DEF VerifyKilled
<1>13. ASSUME NEW r \in Records, NEW type \in Types, StartBackup(r, type)
      PROVE  hurt' \in [Records -> SUBSET Faults] /\ met' \subseteq Records
         /\ dbs' \subseteq Records /\ deletes' \in 0..MaxDeletes
  BY <1>13 DEF StartBackup
<1>14. ASSUME NEW r \in Records, Produce(r) \/ ListPage(r)
      PROVE  hurt' \in [Records -> SUBSET Faults] /\ met' \subseteq Records
         /\ dbs' \subseteq Records /\ deletes' \in 0..MaxDeletes
  BY <1>14 DEF Produce, ListPage
<1>15. ASSUME NEW v \in Verifiers, CopyObject(v) \/ ReadBack(v)
      PROVE  hurt' \in [Records -> SUBSET Faults] /\ met' \subseteq Records
         /\ dbs' \subseteq Records /\ deletes' \in 0..MaxDeletes
  BY <1>15 DEF CopyObject, ReadBack
<1>16. ASSUME NEW r \in Records, OutsideFails(r)
      PROVE  hurt' \in [Records -> SUBSET Faults] /\ met' \subseteq Records
         /\ dbs' \subseteq Records /\ deletes' \in 0..MaxDeletes
  BY <1>16, OutsideFacts
<1>17. ASSUME NEW v \in Verifiers, Unanswered(v)
      PROVE  hurt' \in [Records -> SUBSET Faults] /\ met' \subseteq Records
         /\ dbs' \subseteq Records /\ deletes' \in 0..MaxDeletes
  BY <1>17, UnansweredFacts
<1>18. CASE UNCHANGED vars
  BY <1>18 DEF vars
<1> QED
  BY <1>1, <1>2, <1>3, <1>4, <1>5, <1>6, <1>7, <1>8, <1>9, <1>10, <1>11, <1>12, <1>13, <1>14, <1>15, <1>16, <1>17, <1>18 DEF Next, Backup, Verify

\* Every step keeps the shape of the state.
LEMMA TypeNext == ASSUME IInv, [Next]_vars PROVE TypeInv'
<1>1. TypeInv
  BY DEF IInv
<1> QED
  BY <1>1, RecTypeNext, JobTypeNext, VerTypeNext, FileTypeNext, HurtTypeNext DEF TypeInv

\* The shape implies the type invariant of the model.
LEMMA TypeMeans == TypeInv => TypeOK
  BY DEF TypeInv, TypeOK, RecordRows, JobRecords, VerRecords

\* The bucket and the keys of a verification stay finite.
LEMMA KeysNext ==
  ASSUME IInv, [Next]_vars
  PROVE  KeysInv'
<1> USE DEF IInv, KeysInv, histories
<1>1. ASSUME NEW k \in UserKeys, PutObject(k) \/ DeleteObject(k)
      PROVE  KeysInv'
  BY <1>1, BoundedSets, Counts DEF PutObject, DeleteObject, UserKeys
<1>2. ASSUME NEW v \in Verifiers, NEW type \in Types, StartVerify(v, type)
      PROVE  KeysInv'
  BY <1>2, BoundedSets DEF StartVerify, TypeInv, Resting
<1>3. ASSUME NEW v \in Verifiers, CreateDatabase(v)
      PROVE  KeysInv'
  BY <1>3 DEF CreateDatabase, TypeInv, VerRecords
<1>4. ASSUME NEW v \in Verifiers, CopyObject(v)
      PROVE  KeysInv'
  <2>1. Scratch(ver[v].r, Min(ver[v].todo)) \in Nat
    BY <1>4, CopyFacts, AtWorkFacts DEF CopyObject
  <2> QED
    BY <1>4, <2>1, BoundedSets DEF CopyObject, TypeInv, VerRecords
<1>5. ASSUME NEW v \in Verifiers, ReadBack(v) \/ Restored(v)
      PROVE  KeysInv'
  BY <1>5 DEF ReadBack, Restored, TypeInv, VerRecords
<1>6. ASSUME NEW v \in Verifiers, Cleanup(v)
      PROVE  KeysInv'
  BY <1>6, BoundedSets DEF Cleanup, Cleaned, TypeInv, VerRecords
<1>7. ASSUME NEW v \in Verifiers, SaveVerdict(v) \/ VerifyKilled(v)
      PROVE  KeysInv'
  BY <1>7, BoundedSets DEF SaveVerdict, VerifyKilled, TypeInv, Resting
<1>8. ASSUME NEW r \in Records, NEW type \in Types, StartBackup(r, type)
      PROVE  KeysInv'
  BY <1>8 DEF StartBackup
<1>9. ASSUME NEW r \in Records, Produce(r) \/ ListPage(r) \/ ReadObject(r) \/ Seal(r) \/ SaveRecord(r) \/ ProduceFails(r) \/ BackupKilled(r)
      PROVE  KeysInv'
  BY <1>9 DEF Produce, ListPage, ReadObject, Seal, SaveRecord, ProduceFails, BackupKilled
<1>10. ASSUME NEW r \in Records, OutsideFails(r)
      PROVE  KeysInv'
  BY <1>10, OutsideFacts
<1>11. ASSUME NEW v \in Verifiers, Unanswered(v)
      PROVE  KeysInv'
  <2>1. \A w \in Verifiers : ver'[w].restored = ver[w].restored
    BY <1>11, UnansweredFacts
  <2>2. bucket' = bucket \/ \E k \in Nat : bucket' = bucket \cup {Scratch(ver[v].r, k)}
    BY <1>11, UnansweredFacts
  <2>3. \A k \in Nat : Scratch(ver[v].r, k) \in Nat
    BY <1>11, UnansweredFacts, AtWorkFacts
  <2> QED
    BY <2>1, <2>2, <2>3, BoundedSets
<1>12. CASE UNCHANGED vars
  BY <1>12 DEF vars
<1> QED
  BY <1>1, <1>2, <1>3, <1>4, <1>5, <1>6, <1>7, <1>8, <1>9, <1>10, <1>11, <1>12 DEF Next, Backup, Verify

\* Users' objects are what users made of them.
LEMMA UserNext ==
  ASSUME IInv, [Next]_vars
  PROVE  UserObjectsUntouched'
<1> USE DEF IInv, UserObjectsUntouched, histories
<1>1. ASSUME NEW v \in Verifiers, CopyObject(v)
      PROVE  UserObjectsUntouched'
  <2>1. Scratch(ver[v].r, Min(ver[v].todo)) \notin UserKeys
    BY <1>1, CopyFacts, AtWorkFacts, ScratchApart DEF CopyObject
  <2> QED
    BY <1>1, <2>1 DEF CopyObject
<1>2. ASSUME NEW v \in Verifiers, Cleanup(v)
      PROVE  UserObjectsUntouched'
  BY <1>2, AtWorkFacts DEF Cleanup, Cleaned
<1>3. ASSUME NEW k \in UserKeys, PutObject(k) \/ DeleteObject(k)
      PROVE  UserObjectsUntouched'
  BY <1>3 DEF PutObject, DeleteObject
<1>4. ASSUME NEW r \in Records, NEW type \in Types, StartBackup(r, type)
      PROVE  UserObjectsUntouched'
  BY <1>4 DEF StartBackup
<1>5. ASSUME NEW r \in Records, Produce(r) \/ ListPage(r) \/ ReadObject(r) \/ Seal(r) \/ SaveRecord(r) \/ ProduceFails(r) \/ BackupKilled(r)
      PROVE  UserObjectsUntouched'
  BY <1>5 DEF Produce, ListPage, ReadObject, Seal, SaveRecord, ProduceFails, BackupKilled
<1>6. ASSUME NEW v \in Verifiers, NEW type \in Types, StartVerify(v, type)
      PROVE  UserObjectsUntouched'
  BY <1>6 DEF StartVerify
<1>7. ASSUME NEW v \in Verifiers, CreateDatabase(v) \/ ReadBack(v) \/ Restored(v) \/ SaveVerdict(v) \/ VerifyKilled(v)
      PROVE  UserObjectsUntouched'
  BY <1>7 DEF CreateDatabase, ReadBack, Restored, SaveVerdict, VerifyKilled
<1>8. ASSUME NEW r \in Records, OutsideFails(r)
      PROVE  UserObjectsUntouched'
  BY <1>8, OutsideFacts
<1>9. ASSUME NEW v \in Verifiers, Unanswered(v)
      PROVE  UserObjectsUntouched'
  <2>1. /\ ver[v].r \in Records /\ UNCHANGED owned
        /\ bucket' = bucket \/ \E k \in Nat : bucket' = bucket \cup {Scratch(ver[v].r, k)}
    BY <1>9, UnansweredFacts
  <2>2. \A k \in Nat : Scratch(ver[v].r, k) \notin UserKeys
    BY <2>1, ScratchApart
  <2> QED
    BY <2>1, <2>2
<1>10. CASE UNCHANGED vars
  BY <1>10 DEF vars
<1> QED
  BY <1>1, <1>2, <1>3, <1>4, <1>5, <1>6, <1>7, <1>8, <1>9, <1>10 DEF Next, Backup, Verify

\* Row and file keep in step with the run.
LEMMA StageNext ==
  ASSUME IInv, [Next]_vars
  PROVE  StageInv'
<1> USE DEF IInv, TypeInv, StageInv, histories
<1>1. ASSUME NEW r \in Records, NEW type \in Types, StartBackup(r, type)
      PROVE  StageInv'
  BY <1>1 DEF StartBackup, JobRecords, RecordRows, NoRecord
<1>2. ASSUME NEW r \in Records, Produce(r)
      PROVE  StageInv'
  BY <1>2, BackupsAssumption DEF Produce, JobRecords, RecordRows, Form
<1>3. ASSUME NEW r \in Records, ListPage(r)
      PROVE  StageInv'
  BY <1>3 DEF ListPage, JobRecords, RecordRows
<1>4. ASSUME NEW r \in Records, ReadObject(r)
      PROVE  StageInv'
  <2>1. CASE GiveUp(r, {})
    BY <1>4, <2>1 DEF ReadObject, JobRecords, RecordRows, GiveUp, NoJob
  <2>2. CASE /\ job' = [job EXCEPT ![r].page = @ \ {Min(job[r].page)}] /\ UNCHANGED <<rec, file>>
    BY <1>4, <2>2 DEF ReadObject, JobRecords
  <2> QED
    BY <1>4, <2>1, <2>2 DEF ReadObject
<1>5. ASSUME NEW r \in Records, Seal(r)
      PROVE  StageInv'
  <2>1. job[r].at = "seal" /\ UNCHANGED rec /\ rec[r].status = "running" /\ file[r] = {"plain"}
    BY <1>5 DEF Seal
  <2>2. CASE /\ file' = [file EXCEPT ![r] = Sealed(r)] /\ job' = [job EXCEPT ![r].at = "save"]
    <3>1. Sealed(r) = {Form}
      BY <2>1 DEF Sealed, Form
    <3> QED
      BY <2>1, <2>2, <3>1 DEF JobRecords
  <2>3. CASE job' = [job EXCEPT ![r].at = "ended"] /\ \E left : file' = [file EXCEPT ![r] = left]
    BY <2>1, <2>3 DEF JobRecords
  <2> QED
    BY <1>5, <2>2, <2>3 DEF Seal
<1>6. ASSUME NEW r \in Records, SaveRecord(r)
      PROVE  StageInv'
  BY <1>6 DEF SaveRecord, JobRecords, RecordRows, NoJob
<1>7. ASSUME NEW r \in Records, ProduceFails(r)
      PROVE  StageInv'
  BY <1>7 DEF ProduceFails, JobRecords, RecordRows, GiveUp, NoJob
<1>8. ASSUME NEW r \in Records, BackupKilled(r)
      PROVE  StageInv'
  BY <1>8 DEF BackupKilled, JobRecords, RecordRows, NoJob
<1>9. ASSUME NEW v \in Verifiers, SaveVerdict(v)
      PROVE  StageInv'
  BY <1>9 DEF SaveVerdict, RecordRows
<1>10. ASSUME NEW k \in UserKeys, PutObject(k) \/ DeleteObject(k)
      PROVE  StageInv'
  BY <1>10 DEF PutObject, DeleteObject
<1>11. ASSUME NEW v \in Verifiers, NEW type \in Types, StartVerify(v, type)
      PROVE  StageInv'
  BY <1>11 DEF StartVerify
<1>12. ASSUME NEW v \in Verifiers, CreateDatabase(v) \/ CopyObject(v) \/ ReadBack(v) \/ Restored(v) \/ Cleanup(v) \/ VerifyKilled(v)
      PROVE  StageInv'
  BY <1>12 DEF CreateDatabase, CopyObject, ReadBack, Restored, Cleanup, VerifyKilled
<1>13. ASSUME NEW r \in Records, OutsideFails(r)
      PROVE  StageInv'
  <2>1. /\ UNCHANGED <<rec, file>> /\ (\A q \in Records : q # r => job'[q] = job[q])
        /\ job[r].at # "none" /\ job'[r].at = "ended" /\ job'[r].page = {}
    BY <1>13, OutsideFacts DEF NoJob
  <2> QED
    BY <2>1
<1>14. ASSUME NEW v \in Verifiers, Unanswered(v)
      PROVE  StageInv'
  <2>1. UNCHANGED <<rec, job, file>>
    BY <1>14, UnansweredFacts
  <2> QED
    BY <2>1
<1>15. CASE UNCHANGED vars
  BY <1>15 DEF vars
<1> QED
  BY <1>1, <1>2, <1>3, <1>4, <1>5, <1>6, <1>7, <1>8, <1>9, <1>10, <1>11, <1>12, <1>13, <1>14, <1>15 DEF Next, Backup, Verify

\* No key that exists all the time is lost from a listing.
LEMMA ListNext ==
  ASSUME IInv, [Next]_vars
  PROVE  ListInv'
<1> USE DEF IInv, TypeInv, ListInv, StageInv, histories
<1>1. ASSUME NEW k \in UserKeys, PutObject(k) \/ DeleteObject(k)
      PROVE  ListInv'
  BY <1>1 DEF PutObject, DeleteObject
<1>2. ASSUME NEW r \in Records, NEW type \in Types, StartBackup(r, type)
      PROVE  ListInv'
  BY <1>2, Counts DEF StartBackup, JobRecords, RecordRows, NoRecord, UserKeys
<1>3. ASSUME NEW r \in Records, Produce(r)
      PROVE  ListInv'
  BY <1>3 DEF Produce, JobRecords, RecordRows
<1>4. ASSUME NEW r \in Records, ListPage(r)
      PROVE  ListInv'
  <2>1. UNCHANGED <<rec, archive, steady, owned>> /\ job[r].page = {} /\ job[r].at = "list"
    BY <1>4 DEF ListPage
  <2>2. \A q \in Records : steady[q] \subseteq bucket
    BY DEF UserObjectsUntouched
  <2>3. CASE NextPage(r) = {} /\ job' = [job EXCEPT ![r].at = "seal"]
    <3>1. \A k \in steady[r] : k <= job[r].cursor
      BY <2>2, <2>3, ListFacts
    <3>2. steady[r] \subseteq archive[r]
      BY <2>1, <3>1 DEF JobRecords
    <3> QED
      BY <2>1, <2>3, <3>2 DEF JobRecords
  <2>4. CASE /\ NextPage(r) # {}
             /\ job' = [job EXCEPT ![r].page = NextPage(r), ![r].cursor = Max(NextPage(r))]
    <3>1. \A k \in steady[r] : k > job[r].cursor => k \in NextPage(r) \/ k > Max(NextPage(r))
      BY <2>2, <2>4, ListFacts
    <3> QED
      BY <2>1, <2>4, <3>1 DEF JobRecords
  <2> QED
    BY <1>4, <2>3, <2>4 DEF ListPage
<1>5. ASSUME NEW r \in Records, ReadObject(r)
      PROVE  ListInv'
  <2>1. CASE GiveUp(r, {})
    BY <1>5, <2>1 DEF ReadObject, JobRecords, RecordRows, GiveUp, NoJob
  <2>2. CASE /\ archive' = [archive EXCEPT ![r] = @ \cup {Min(job[r].page)}]
             /\ job' = [job EXCEPT ![r].page = @ \ {Min(job[r].page)}] /\ UNCHANGED rec
    BY <1>5, <2>2 DEF ReadObject, JobRecords
  <2> QED
    BY <1>5, <2>1, <2>2 DEF ReadObject
<1>6. ASSUME NEW r \in Records, Seal(r)
      PROVE  ListInv'
  BY <1>6 DEF Seal, JobRecords
<1>7. ASSUME NEW r \in Records, SaveRecord(r)
      PROVE  ListInv'
  BY <1>7 DEF SaveRecord, JobRecords, RecordRows, NoJob
<1>8. ASSUME NEW r \in Records, ProduceFails(r)
      PROVE  ListInv'
  BY <1>8 DEF ProduceFails, JobRecords, RecordRows, GiveUp, NoJob
<1>9. ASSUME NEW r \in Records, BackupKilled(r)
      PROVE  ListInv'
  BY <1>9 DEF BackupKilled, JobRecords, RecordRows, NoJob
<1>10. ASSUME NEW v \in Verifiers, SaveVerdict(v)
      PROVE  ListInv'
  BY <1>10 DEF SaveVerdict, RecordRows
<1>11. ASSUME NEW v \in Verifiers, NEW type \in Types, StartVerify(v, type)
      PROVE  ListInv'
  BY <1>11 DEF StartVerify
<1>12. ASSUME NEW v \in Verifiers, CreateDatabase(v) \/ CopyObject(v) \/ ReadBack(v) \/ Restored(v) \/ Cleanup(v) \/ VerifyKilled(v)
      PROVE  ListInv'
  BY <1>12 DEF CreateDatabase, CopyObject, ReadBack, Restored, Cleanup, VerifyKilled
<1>13. ASSUME NEW r \in Records, OutsideFails(r)
      PROVE  ListInv'
  BY <1>13, OutsideFacts DEF NoJob
<1>14. ASSUME NEW v \in Verifiers, Unanswered(v)
      PROVE  ListInv'
  BY <1>14, UnansweredFacts
<1>15. CASE UNCHANGED vars
  BY <1>15 DEF vars
<1> QED
  BY <1>1, <1>2, <1>3, <1>4, <1>5, <1>6, <1>7, <1>8, <1>9, <1>10, <1>11, <1>12, <1>13, <1>14, <1>15 DEF Next, Backup, Verify

\* The keys of a page are there, or their deletion is noted.
LEMMA PageNext ==
  ASSUME IInv, [Next]_vars
  PROVE  PageInv'
<1> USE DEF IInv, TypeInv, PageInv, histories
<1>1. ASSUME NEW k \in UserKeys, PutObject(k) \/ DeleteObject(k)
      PROVE  PageInv'
  BY <1>1 DEF PutObject, DeleteObject
<1>2. ASSUME NEW r \in Records, NEW type \in Types, StartBackup(r, type)
      PROVE  PageInv'
  BY <1>2 DEF StartBackup, JobRecords
<1>3. ASSUME NEW r \in Records, Produce(r)
      PROVE  PageInv'
  BY <1>3 DEF Produce, JobRecords
<1>4. ASSUME NEW r \in Records, ListPage(r)
      PROVE  PageInv'
  BY <1>4, ListFacts DEF ListPage, JobRecords
<1>5. ASSUME NEW r \in Records, ReadObject(r)
      PROVE  PageInv'
  BY <1>5 DEF ReadObject, JobRecords, GiveUp, NoJob
<1>6. ASSUME NEW r \in Records, Seal(r)
      PROVE  PageInv'
  BY <1>6 DEF Seal, JobRecords
<1>7. ASSUME NEW r \in Records, SaveRecord(r)
      PROVE  PageInv'
  BY <1>7 DEF SaveRecord, JobRecords, NoJob
<1>8. ASSUME NEW r \in Records, ProduceFails(r)
      PROVE  PageInv'
  BY <1>8 DEF ProduceFails, JobRecords, GiveUp, NoJob
<1>9. ASSUME NEW r \in Records, BackupKilled(r)
      PROVE  PageInv'
  BY <1>9 DEF BackupKilled, JobRecords, NoJob
<1>10. ASSUME NEW v \in Verifiers, Cleanup(v)
      PROVE  PageInv'
  BY <1>10 DEF Cleanup, Cleaned
<1>11. ASSUME NEW v \in Verifiers, NEW type \in Types, StartVerify(v, type)
      PROVE  PageInv'
  BY <1>11 DEF StartVerify
<1>12. ASSUME NEW v \in Verifiers, CreateDatabase(v) \/ CopyObject(v) \/ ReadBack(v) \/ Restored(v) \/ SaveVerdict(v) \/ VerifyKilled(v)
      PROVE  PageInv'
  BY <1>12 DEF CreateDatabase, CopyObject, ReadBack, Restored, SaveVerdict, VerifyKilled
<1>13. ASSUME NEW r \in Records, OutsideFails(r)
      PROVE  PageInv'
  BY <1>13, OutsideFacts DEF NoJob
<1>14. ASSUME NEW v \in Verifiers, Unanswered(v)
      PROVE  PageInv'
  <2>1. UNCHANGED <<job, met>> /\ bucket \subseteq bucket'
    BY <1>14, UnansweredFacts
  <2> QED
    BY <2>1
<1>15. CASE UNCHANGED vars
  BY <1>15 DEF vars
<1> QED
  BY <1>1, <1>2, <1>3, <1>4, <1>5, <1>6, <1>7, <1>8, <1>9, <1>10, <1>11, <1>12, <1>13, <1>14, <1>15 DEF Next, Backup, Verify

\* The stages of a verification follow each other.
LEMMA VerNext ==
  ASSUME IInv, [Next]_vars
  PROVE  VerInv'
<1> USE DEF IInv, TypeInv, VerInv, histories
<1>1. ASSUME NEW v \in Verifiers, NEW type \in Types, StartVerify(v, type)
      PROVE  VerInv'
  <2>1. /\ ver'[v].r \in Records /\ ver'[v].at \in {"create", "copy"}
        /\ ver'[v].restored = {} /\ ver'[v].good = TRUE
    BY <1>1, VerifyFacts DEF StartVerify, Resting
  <2>2. ver'[v].r # 0
    BY <2>1, Counts DEF Records
  <2>3. \A w \in Verifiers : w # v => ver'[w] = ver[w]
    BY <1>1 DEF StartVerify
  <2> QED
    BY <2>1, <2>2, <2>3
<1>2. ASSUME NEW v \in Verifiers, CreateDatabase(v)
      PROVE  VerInv'
  BY <1>2 DEF CreateDatabase, VerRecords
<1>3. ASSUME NEW v \in Verifiers, CopyObject(v)
      PROVE  VerInv'
  BY <1>3, CopyFacts DEF CopyObject, VerRecords
<1>4. ASSUME NEW v \in Verifiers, ReadBack(v)
      PROVE  VerInv'
  BY <1>4 DEF ReadBack, VerRecords
<1>5. ASSUME NEW v \in Verifiers, Restored(v)
      PROVE  VerInv'
  BY <1>5 DEF Restored, VerRecords
<1>6. ASSUME NEW v \in Verifiers, Cleanup(v)
      PROVE  VerInv'
  BY <1>6 DEF Cleanup, VerRecords
<1>7. ASSUME NEW v \in Verifiers, SaveVerdict(v)
      PROVE  VerInv'
  BY <1>7 DEF SaveVerdict, Resting
<1>8. ASSUME NEW v \in Verifiers, VerifyKilled(v)
      PROVE  VerInv'
  BY <1>8 DEF VerifyKilled, Resting
<1>9. ASSUME NEW k \in UserKeys, PutObject(k) \/ DeleteObject(k)
      PROVE  VerInv'
  BY <1>9 DEF PutObject, DeleteObject
<1>10. ASSUME NEW r \in Records, NEW type \in Types, StartBackup(r, type)
      PROVE  VerInv'
  BY <1>10 DEF StartBackup
<1>11. ASSUME NEW r \in Records, Produce(r) \/ ListPage(r) \/ ReadObject(r) \/ Seal(r) \/ SaveRecord(r) \/ ProduceFails(r) \/ BackupKilled(r)
      PROVE  VerInv'
  BY <1>11 DEF Produce, ListPage, ReadObject, Seal, SaveRecord, ProduceFails, BackupKilled
<1>12. ASSUME NEW r \in Records, OutsideFails(r)
      PROVE  VerInv'
  <2>1. UNCHANGED ver
    BY <1>12, OutsideFacts
  <2> QED
    BY <2>1
<1>13. ASSUME NEW v \in Verifiers, Unanswered(v)
      PROVE  VerInv'
  <2>1. /\ \A w \in Verifiers : w # v => ver'[w] = ver[w]
        /\ ver'[v].r = ver[v].r /\ ver'[v].restored = ver[v].restored
        /\ ver[v].at \in {"create", "copy"} /\ ver'[v].at \in {"save", "cleanup"}
    BY <1>13, UnansweredFacts
  <2> QED
    BY <2>1
<1>14. CASE UNCHANGED vars
  BY <1>14 DEF vars
<1> QED
  BY <1>1, <1>2, <1>3, <1>4, <1>5, <1>6, <1>7, <1>8, <1>9, <1>10, <1>11, <1>12, <1>13, <1>14 DEF Next, Backup, Verify

\* A verification that starts while another one is under way is noted.
LEMMA OverlapNext ==
  ASSUME IInv, [Next]_vars
  PROVE  OverlapInv'
<1> USE DEF IInv, TypeInv, OverlapInv, histories
<1>1. ASSUME NEW v \in Verifiers, NEW type \in Types, StartVerify(v, type)
      PROVE  OverlapInv'
  BY <1>1 DEF StartVerify, Resting
<1>2. ASSUME NEW v \in Verifiers, CreateDatabase(v)
      PROVE  OverlapInv'
  BY <1>2 DEF CreateDatabase, VerRecords
<1>3. ASSUME NEW v \in Verifiers, CopyObject(v)
      PROVE  OverlapInv'
  BY <1>3 DEF CopyObject, VerRecords
<1>4. ASSUME NEW v \in Verifiers, ReadBack(v)
      PROVE  OverlapInv'
  BY <1>4 DEF ReadBack, VerRecords
<1>5. ASSUME NEW v \in Verifiers, Restored(v)
      PROVE  OverlapInv'
  BY <1>5 DEF Restored, VerRecords
<1>6. ASSUME NEW v \in Verifiers, Cleanup(v)
      PROVE  OverlapInv'
  BY <1>6 DEF Cleanup, VerRecords
<1>7. ASSUME NEW v \in Verifiers, SaveVerdict(v)
      PROVE  OverlapInv'
  BY <1>7 DEF SaveVerdict, Resting
<1>8. ASSUME NEW v \in Verifiers, VerifyKilled(v)
      PROVE  OverlapInv'
  BY <1>8 DEF VerifyKilled, Resting
<1>9. ASSUME NEW k \in UserKeys, PutObject(k) \/ DeleteObject(k)
      PROVE  OverlapInv'
  BY <1>9 DEF PutObject, DeleteObject
<1>10. ASSUME NEW r \in Records, NEW type \in Types, StartBackup(r, type)
      PROVE  OverlapInv'
  BY <1>10 DEF StartBackup
<1>11. ASSUME NEW r \in Records, Produce(r) \/ ListPage(r) \/ ReadObject(r) \/ Seal(r) \/ SaveRecord(r) \/ ProduceFails(r) \/ BackupKilled(r)
      PROVE  OverlapInv'
  BY <1>11 DEF Produce, ListPage, ReadObject, Seal, SaveRecord, ProduceFails, BackupKilled
<1>12. ASSUME NEW r \in Records, OutsideFails(r)
      PROVE  OverlapInv'
  BY <1>12, OutsideFacts
<1>13. ASSUME NEW v \in Verifiers, Unanswered(v)
      PROVE  OverlapInv'
  <2>1. UNCHANGED met /\ \A w \in Verifiers : ver'[w].r = ver[w].r
    BY <1>13, UnansweredFacts
  <2> QED
    BY <2>1
<1>14. CASE UNCHANGED vars
  BY <1>14 DEF vars
<1> QED
  BY <1>1, <1>2, <1>3, <1>4, <1>5, <1>6, <1>7, <1>8, <1>9, <1>10, <1>11, <1>12, <1>13, <1>14 DEF Next, Backup, Verify

\* What has happened to a record stays known.
LEMMA GrowNext ==
  ASSUME IInv, [Next]_vars
  PROVE  met \subseteq met' /\ \A q \in Records : hurt[q] \subseteq hurt'[q]
<1> USE DEF IInv, TypeInv, histories
<1>1. ASSUME NEW k \in UserKeys, PutObject(k) \/ DeleteObject(k)
      PROVE  met \subseteq met' /\ \A q \in Records : hurt[q] \subseteq hurt'[q]
  BY <1>1 DEF PutObject, DeleteObject
<1>2. ASSUME NEW r \in Records, ReadObject(r)
      PROVE  met \subseteq met' /\ \A q \in Records : hurt[q] \subseteq hurt'[q]
  BY <1>2, Suffered DEF ReadObject, GiveUp
<1>3. ASSUME NEW r \in Records, ProduceFails(r)
      PROVE  met \subseteq met' /\ \A q \in Records : hurt[q] \subseteq hurt'[q]
  BY <1>3, Suffered DEF ProduceFails, GiveUp
<1>4. ASSUME NEW r \in Records, Seal(r)
      PROVE  met \subseteq met' /\ \A q \in Records : hurt[q] \subseteq hurt'[q]
  BY <1>4, Suffered DEF Seal, Fine
<1>5. ASSUME NEW r \in Records, SaveRecord(r)
      PROVE  met \subseteq met' /\ \A q \in Records : hurt[q] \subseteq hurt'[q]
  BY <1>5, Suffered DEF SaveRecord, Fine
<1>6. ASSUME NEW r \in Records, BackupKilled(r)
      PROVE  met \subseteq met' /\ \A q \in Records : hurt[q] \subseteq hurt'[q]
  BY <1>6, Suffered DEF BackupKilled
<1>7. ASSUME NEW v \in Verifiers, NEW type \in Types, StartVerify(v, type)
      PROVE  met \subseteq met' /\ \A q \in Records : hurt[q] \subseteq hurt'[q]
  BY <1>7 DEF StartVerify
<1>8. ASSUME NEW v \in Verifiers, CreateDatabase(v)
      PROVE  met \subseteq met' /\ \A q \in Records : hurt[q] \subseteq hurt'[q]
  BY <1>8, Suffered, AtWorkFacts DEF CreateDatabase, Fine
<1>9. ASSUME NEW v \in Verifiers, Restored(v)
      PROVE  met \subseteq met' /\ \A q \in Records : hurt[q] \subseteq hurt'[q]
  BY <1>9, Suffered, AtWorkFacts DEF Restored, Fine
<1>10. ASSUME NEW v \in Verifiers, Cleanup(v)
      PROVE  met \subseteq met' /\ \A q \in Records : hurt[q] \subseteq hurt'[q]
  BY <1>10, Suffered, AtWorkFacts DEF Cleanup, Fine
<1>11. ASSUME NEW v \in Verifiers, SaveVerdict(v)
      PROVE  met \subseteq met' /\ \A q \in Records : hurt[q] \subseteq hurt'[q]
  BY <1>11, Suffered, AtWorkFacts DEF SaveVerdict, Fine
<1>12. ASSUME NEW v \in Verifiers, VerifyKilled(v)
      PROVE  met \subseteq met' /\ \A q \in Records : hurt[q] \subseteq hurt'[q]
  BY <1>12, Suffered, AtWorkFacts DEF VerifyKilled
<1>13. ASSUME NEW r \in Records, NEW type \in Types, StartBackup(r, type)
      PROVE  met \subseteq met' /\ \A q \in Records : hurt[q] \subseteq hurt'[q]
  BY <1>13 DEF StartBackup
<1>14. ASSUME NEW r \in Records, Produce(r) \/ ListPage(r)
      PROVE  met \subseteq met' /\ \A q \in Records : hurt[q] \subseteq hurt'[q]
  BY <1>14 DEF Produce, ListPage
<1>15. ASSUME NEW v \in Verifiers, CopyObject(v) \/ ReadBack(v)
      PROVE  met \subseteq met' /\ \A q \in Records : hurt[q] \subseteq hurt'[q]
  BY <1>15 DEF CopyObject, ReadBack
<1>16. ASSUME NEW r \in Records, OutsideFails(r)
      PROVE  met \subseteq met' /\ \A q \in Records : hurt[q] \subseteq hurt'[q]
  BY <1>16, OutsideFacts
<1>17. ASSUME NEW v \in Verifiers, Unanswered(v)
      PROVE  met \subseteq met' /\ \A q \in Records : hurt[q] \subseteq hurt'[q]
  BY <1>17, UnansweredFacts
<1>18. CASE UNCHANGED vars
  BY <1>18 DEF vars
<1> QED
  BY <1>1, <1>2, <1>3, <1>4, <1>5, <1>6, <1>7, <1>8, <1>9, <1>10, <1>11, <1>12, <1>13, <1>14, <1>15, <1>16, <1>17, <1>18 DEF Next, Backup, Verify

\* A reason for a verdict remains one.
LEMMA ExplainedNext ==
  ASSUME IInv, [Next]_vars
  PROVE  /\ \A q \in Records : Explained(q) => Explained(q)'
         /\ \A w \in Verifiers :
              ~ ver[w].good => \E q \in Records : q = ver[w].r /\ Explained(q)'
<1>1. \A q \in Records : Explained(q) => Explained(q)'
  BY GrowNext DEF Explained
<1>2. ASSUME NEW w \in Verifiers, ~ ver[w].good
      PROVE  \E q \in Records : q = ver[w].r /\ Explained(q)'
  <2>1. ver[w].r \in 0..MaxRecords /\ ver[w].r # 0 /\ Explained(ver[w].r)
    BY <1>2 DEF IInv, VerInv, VerdictInv, TypeInv, VerRecords
  <2>2. PICK q \in Records : q = ver[w].r
    BY <2>1, Counts DEF Records
  <2> QED
    BY <1>1, <2>1, <2>2
<1> QED
  BY <1>1, <1>2

\* A verdict against a backup has a reason, and restored keys stay.
LEMMA VerdictNext ==
  ASSUME IInv, [Next]_vars
  PROVE  VerdictInv'
<1> USE DEF IInv, TypeInv, VerdictInv, Leavers, histories
<1>1. ASSUME NEW k \in UserKeys, PutObject(k) \/ DeleteObject(k)
      PROVE  VerdictInv'
  <2>1. \A w \in Verifiers : ~ ver[w].good => \E q \in Records : q = ver[w].r /\ Explained(q)'
    BY ExplainedNext
  <2> QED
    BY <1>1, <2>1, AtWorkFacts DEF PutObject, DeleteObject, Explained
<1>2. ASSUME NEW r \in Records, NEW type \in Types, StartBackup(r, type)
      PROVE  VerdictInv'
  <2>1. \A w \in Verifiers : ~ ver[w].good => \E q \in Records : q = ver[w].r /\ Explained(q)'
    BY ExplainedNext
  <2> QED
    BY <1>2, <2>1 DEF StartBackup, Explained
<1>3. ASSUME NEW r \in Records, Produce(r) \/ ListPage(r) \/ ReadObject(r) \/ Seal(r) \/ SaveRecord(r) \/ ProduceFails(r) \/ BackupKilled(r)
      PROVE  VerdictInv'
  <2>1. \A w \in Verifiers : ~ ver[w].good => \E q \in Records : q = ver[w].r /\ Explained(q)'
    BY ExplainedNext
  <2>2. UNCHANGED <<ver, bucket, met>>
    BY <1>3 DEF Produce, ListPage, ReadObject, Seal, SaveRecord, ProduceFails, BackupKilled
  <2> QED
    BY <2>1, <2>2 DEF Explained
<1>4. ASSUME NEW v \in Verifiers, NEW type \in Types, StartVerify(v, type)
      PROVE  VerdictInv'
  <2>1. \A w \in Verifiers : ~ ver[w].good => \E q \in Records : q = ver[w].r /\ Explained(q)'
    BY ExplainedNext
  <2>2. ver'[v].good = TRUE /\ ver'[v].restored = {}
    BY <1>4 DEF StartVerify, Resting
  <2>3. \A w \in Verifiers : w # v => ver'[w] = ver[w]
    BY <1>4 DEF StartVerify
  <2>4. met \subseteq met' /\ UNCHANGED bucket
    BY <1>4, GrowNext DEF StartVerify
  <2> QED
    BY <2>1, <2>2, <2>3, <2>4 DEF Explained
<1>5. ASSUME NEW v \in Verifiers, CreateDatabase(v)
      PROVE  VerdictInv'
  <2>1. \A w \in Verifiers : ~ ver[w].good => \E q \in Records : q = ver[w].r /\ Explained(q)'
    BY ExplainedNext
  <2>2. PICK q \in Records : q = ver[v].r /\ ver[v].at = "create" /\ UNCHANGED <<bucket, met>>
    BY <1>5, AtWorkFacts DEF CreateDatabase
  <2>3. \A w \in Verifiers : w # v => ver'[w] = ver[w]
    BY <1>5 DEF CreateDatabase
  <2>4. CASE q \notin dbs /\ ver' = [ver EXCEPT ![v].at = "copy"]
    <3>1. ver'[v].restored = {} /\ ver'[v].good = ver[v].good /\ ver'[v].r = q
      BY <2>2, <2>4 DEF VerRecords, VerInv
    <3> QED
      BY <2>1, <2>2, <2>3, <3>1 DEF Explained
  <2>5. CASE /\ (q \in dbs /\ Fine) \/ Suffer(q, {"restore"})
             /\ ver' = [ver EXCEPT ![v].at = "save", ![v].good = FALSE]
    <3>1. Explained(q)'
      <4>1. CASE Suffer(q, {"restore"})
        BY <2>2, <4>1, Suffered DEF Explained
      <4>2. CASE q \in dbs /\ hurt[q] \cap Leavers # {}
        BY <2>2, <4>2, ExplainedNext DEF Explained
      <4>3. CASE q \in dbs /\ hurt[q] \cap Leavers = {}
        <5>1. PICK w \in Verifiers : AtWork(w, q)
          BY <2>2, <4>3 DEF TraceInv
        <5>2. w # v /\ q \in met
          BY <2>2, <5>1, Counts DEF AtWork, OverlapInv, Records
        <5> QED
          BY <2>2, <5>2 DEF Explained
      <4> QED
        BY <2>5, <4>1, <4>2, <4>3
    <3>2. ver'[v].at = "save" /\ ver'[v].r = q
      BY <2>2, <2>5 DEF VerRecords
    <3>3. (~ ver[v].good => Explained(ver[v].r))'
      BY <3>1, <3>2 DEF Explained
    <3>4. \A w \in Verifiers \ {v} : (~ ver[w].good => Explained(ver[w].r))'
      BY <2>1, <2>3 DEF Explained
    <3> QED
      BY <2>2, <2>3, <3>2, <3>3, <3>4
  <2> QED
    BY <1>5, <2>2, <2>4, <2>5 DEF CreateDatabase, TestDatabase
<1>6. ASSUME NEW v \in Verifiers, CopyObject(v)
      PROVE  VerdictInv'
  <2>1. \A w \in Verifiers : ~ ver[w].good => \E q \in Records : q = ver[w].r /\ Explained(q)'
    BY ExplainedNext
  <2>2. \A w \in Verifiers : ver'[w].good = ver[w].good /\ ver'[w].r = ver[w].r
    BY <1>6 DEF CopyObject, VerRecords
  <2>3. \A w \in Verifiers : w # v => ver'[w] = ver[w]
    BY <1>6 DEF CopyObject
  <2>4. /\ ver'[v].restored = ver[v].restored \cup {Scratch(ver[v].r, Min(ver[v].todo))}
        /\ bucket' = bucket \cup {Scratch(ver[v].r, Min(ver[v].todo))}
        /\ ver[v].at = "copy" /\ UNCHANGED met
    BY <1>6 DEF CopyObject, VerRecords
  <2> QED
    BY <2>1, <2>2, <2>3, <2>4 DEF Explained
<1>7. ASSUME NEW v \in Verifiers, ReadBack(v)
      PROVE  VerdictInv'
  <2>1. \A w \in Verifiers : ~ ver[w].good => \E q \in Records : q = ver[w].r /\ Explained(q)'
    BY ExplainedNext
  <2>2. \A w \in Verifiers : w # v => ver'[w] = ver[w]
    BY <1>7 DEF ReadBack
  <2>3. ver[v].at = "reread" /\ ver[v].r \in Records /\ UNCHANGED <<bucket, met, hurt>>
    BY <1>7, AtWorkFacts DEF ReadBack
  <2>4. CASE Reread(v) /\ ver' = [ver EXCEPT ![v].at = "copy"]
    <3>1. ver'[v].restored = ver[v].restored /\ ver'[v].good = ver[v].good /\ ver'[v].r = ver[v].r
      BY <2>4 DEF VerRecords
    <3> QED
      BY <2>1, <2>2, <2>3, <3>1 DEF Explained
  <2>5. CASE ~ Reread(v) /\ ver' = [ver EXCEPT ![v].at = "cleanup", ![v].good = FALSE]
    <3>1. ver[v].r \in met
      BY <2>3, <2>5, RereadFacts DEF Reread
    <3>2. ver'[v].at = "cleanup" /\ ver'[v].r = ver[v].r
      BY <2>5 DEF VerRecords
    <3> QED
      BY <2>1, <2>2, <2>3, <3>1, <3>2 DEF Explained
  <2> QED
    BY <1>7, <2>4, <2>5 DEF ReadBack
<1>8. ASSUME NEW v \in Verifiers, Restored(v)
      PROVE  VerdictInv'
  <2>1. \A w \in Verifiers : ~ ver[w].good => \E q \in Records : q = ver[w].r /\ Explained(q)'
    BY ExplainedNext
  <2>2. \A w \in Verifiers : w # v => ver'[w] = ver[w]
    BY <1>8 DEF Restored
  <2>3. ver[v].r \in Records /\ UNCHANGED <<bucket, met>>
    BY <1>8, AtWorkFacts DEF Restored
  <2>4. CASE ver' = [ver EXCEPT ![v].at = "cleanup"]
    <3>1. ver'[v].at = "cleanup" /\ ver'[v].good = ver[v].good /\ ver'[v].r = ver[v].r
      BY <2>4 DEF VerRecords
    <3> QED
      BY <2>1, <2>2, <2>3, <3>1 DEF Explained
  <2>5. CASE Suffer(ver[v].r, {"restore"}) /\ ver' = [ver EXCEPT ![v].at = "cleanup", ![v].good = FALSE]
    <3>1. \A q \in Records : q = ver[v].r => Explained(q)'
      BY <2>3, <2>5, Suffered DEF Explained
    <3>2. ver'[v].at = "cleanup" /\ ver'[v].r = ver[v].r
      BY <2>5 DEF VerRecords
    <3> QED
      BY <2>1, <2>2, <2>3, <3>1, <3>2 DEF Explained
  <2> QED
    BY <1>8, <2>4, <2>5 DEF Restored
<1>9. ASSUME NEW v \in Verifiers, Cleanup(v)
      PROVE  VerdictInv'
  <2>1. \A w \in Verifiers : ~ ver[w].good => \E q \in Records : q = ver[w].r /\ Explained(q)'
    BY ExplainedNext
  <2>2. \A w \in Verifiers : w # v => ver'[w] = ver[w]
    BY <1>9 DEF Cleanup
  <2>3. ver'[v].at = "save" /\ ver'[v].good = ver[v].good /\ ver'[v].r = ver[v].r
    BY <1>9 DEF Cleanup, VerRecords
  <2>4. bucket \ ver[v].restored \subseteq bucket' /\ ver[v].r \in Records /\ met \subseteq met'
    BY <1>9, AtWorkFacts DEF Cleanup, Cleaned
  <2>5. ASSUME NEW w \in Verifiers, w # v, NEW x \in ver[w].restored, x \in ver[v].restored
        PROVE  ver[w].r \in met
    <3>1. PICK k \in Nat : x = Scratch(ver[w].r, k)
      BY <2>5 DEF VerInv
    <3>2. PICK i \in Nat : x = Scratch(ver[v].r, i)
      BY <2>5 DEF VerInv
    <3>3. ver[w].r \in 0..MaxRecords /\ ver[w].r # 0
      BY <2>5 DEF VerRecords, VerInv
    <3>4. ver[w].r \in Records
      BY <3>3, Counts DEF Records
    <3>5. Scratch(ver[w].r, k) = Scratch(ver[v].r, i)
      BY <3>1, <3>2
    <3>6. ver[w].r = ver[v].r
      BY <2>4, <3>4, <3>5, ScratchApart
    <3> QED
      BY <2>5, <3>3, <3>6 DEF OverlapInv
  <2> QED
    BY <2>1, <2>2, <2>3, <2>4, <2>5 DEF Explained
<1>10. ASSUME NEW v \in Verifiers, SaveVerdict(v) \/ VerifyKilled(v)
      PROVE  VerdictInv'
  <2>1. \A w \in Verifiers : ~ ver[w].good => \E q \in Records : q = ver[w].r /\ Explained(q)'
    BY ExplainedNext
  <2>2. ver'[v].good = TRUE /\ ver'[v].restored = {}
    BY <1>10 DEF SaveVerdict, VerifyKilled, Resting
  <2>3. \A w \in Verifiers : w # v => ver'[w] = ver[w]
    BY <1>10 DEF SaveVerdict, VerifyKilled
  <2>4. UNCHANGED <<bucket, met>>
    BY <1>10 DEF SaveVerdict, VerifyKilled
  <2> QED
    BY <2>1, <2>2, <2>3, <2>4 DEF Explained
<1>11. ASSUME NEW r \in Records, OutsideFails(r)
      PROVE  VerdictInv'
  <2>1. \A w \in Verifiers : ~ ver[w].good => \E q \in Records : q = ver[w].r /\ Explained(q)'
    BY ExplainedNext
  <2>2. UNCHANGED <<ver, bucket, met>>
    BY <1>11, OutsideFacts
  <2> QED
    BY <2>1, <2>2 DEF Explained
<1>12. ASSUME NEW v \in Verifiers, Unanswered(v)
      PROVE  VerdictInv'
  <2>1. \A w \in Verifiers : ~ ver[w].good => \E q \in Records : q = ver[w].r /\ Explained(q)'
    BY ExplainedNext
  <2>2. PICK q \in Records : q = ver[v].r
    BY <1>12, UnansweredFacts
  <2>3. /\ UNCHANGED met /\ bucket \subseteq bucket'
        /\ \A w \in Verifiers : w # v => ver'[w] = ver[w]
        /\ ver'[v].at \notin {"copy", "reread"} /\ ver'[v].r = q
    BY <1>12, <2>2, UnansweredFacts
  <2>4. "unacknowledged" \in hurt'[q]
    BY <1>12, <2>2, UnansweredFacts
  <2>5. Explained(q)'
    BY <2>4 DEF Explained, Leavers
  <2>6. ((~ ver[v].good => Explained(ver[v].r)) /\ ver[v].at \notin {"copy", "reread"})'
    BY <2>3, <2>5 DEF Explained
  <2>7. \A w \in Verifiers \ {v} : (~ ver[w].good => Explained(ver[w].r))'
    BY <2>1, <2>3 DEF Explained
  <2> QED
    BY <2>3, <2>6, <2>7
<1>13. CASE UNCHANGED vars
  BY <1>13 DEF vars, Explained
<1> QED
  BY <1>1, <1>2, <1>3, <1>4, <1>5, <1>6, <1>7, <1>8, <1>9, <1>10, <1>11, <1>12, <1>13 DEF Next, Backup, Verify

\* A step that leaves bucket, databases and verifications alone leaves no trace.
LEMMA TraceKept ==
  ASSUME IInv, [Next]_vars, UNCHANGED <<dbs, ver>>, bucket' \ bucket \subseteq UserKeys
  PROVE  TraceInv'
<1>1. \A r \in Records : hurt'[r] \cap Leavers = {} => hurt[r] \cap Leavers = {}
  BY GrowNext
<1>2. \A r \in Records, k \in Nat : Scratch(r, k) \in bucket' => Scratch(r, k) \in bucket
  BY ScratchApart
<1> QED
  BY <1>1, <1>2 DEF IInv, TraceInv, AtWork

\* So does a step of one verification, as long as it stays at work on what it has
\* restored, or had restored nothing, and any new key is among its own.
LEMMA TraceMoved ==
  ASSUME IInv, [Next]_vars, NEW v \in Verifiers,
         \A w \in Verifiers : w # v => ver'[w] = ver[w],
         \A r \in Records : AtWork(v, r) => AtWork(v, r)',
         ver[v].restored \subseteq ver'[v].restored,
         \A r \in dbs' \ dbs : AtWork(v, r)',
         \A r \in Records, k \in Nat :
           Scratch(r, k) \in bucket' \ bucket => AtWork(v, r)' /\ Scratch(r, k) \in ver'[v].restored
  PROVE  TraceInv'
<1> SUFFICES ASSUME NEW r \in Records, hurt'[r] \cap Leavers = {}
             PROVE  /\ r \in dbs' => \E w \in Verifiers : AtWork(w, r)'
                    /\ \A k \in Nat : Scratch(r, k) \in bucket' =>
                         \E w \in Verifiers : AtWork(w, r)' /\ Scratch(r, k) \in ver'[w].restored
  BY DEF TraceInv
<1>1. hurt[r] \cap Leavers = {}
  BY GrowNext
<1>2. \A w \in Verifiers : AtWork(w, r) => AtWork(w, r)' /\ ver[w].restored \subseteq ver'[w].restored
  BY DEF AtWork
<1>3. r \in dbs' => \E w \in Verifiers : AtWork(w, r)'
  BY <1>1, <1>2 DEF IInv, TraceInv
<1>4. ASSUME NEW k \in Nat, Scratch(r, k) \in bucket'
      PROVE  \E w \in Verifiers : AtWork(w, r)' /\ Scratch(r, k) \in ver'[w].restored
  BY <1>1, <1>2, <1>4 DEF IInv, TraceInv
<1> QED
  BY <1>3, <1>4

\* What a verification has restored is its own until it is removed.
LEMMA TraceNext ==
  ASSUME IInv, [Next]_vars
  PROVE  TraceInv'
<1> USE DEF IInv, TypeInv, Leavers, histories
<1>1. ASSUME NEW k \in UserKeys, PutObject(k) \/ DeleteObject(k)
      PROVE  TraceInv'
  BY <1>1, TraceKept DEF PutObject, DeleteObject
<1>2. ASSUME NEW r \in Records, NEW type \in Types, StartBackup(r, type)
      PROVE  TraceInv'
  BY <1>2, TraceKept DEF StartBackup
<1>3. ASSUME NEW r \in Records, Produce(r) \/ ListPage(r) \/ ReadObject(r) \/ Seal(r) \/ SaveRecord(r) \/ ProduceFails(r) \/ BackupKilled(r)
      PROVE  TraceInv'
  <2>1. UNCHANGED <<dbs, ver, bucket>>
    BY <1>3 DEF Produce, ListPage, ReadObject, Seal, SaveRecord, ProduceFails, BackupKilled
  <2> QED
    BY <2>1, TraceKept
<1>4. ASSUME NEW v \in Verifiers, NEW type \in Types, StartVerify(v, type)
      PROVE  TraceInv'
  <2>1. \A w \in Verifiers : w # v => ver'[w] = ver[w]
    BY <1>4 DEF StartVerify
  <2>2. UNCHANGED <<dbs, bucket>> /\ ver[v].at = "none" /\ ver[v].restored = {}
    BY <1>4 DEF StartVerify, VerInv
  <2>3. \A r \in Records : ~ AtWork(v, r)
    BY <2>2 DEF AtWork
  <2> QED
    BY <2>1, <2>2, <2>3, TraceMoved
<1>5. ASSUME NEW v \in Verifiers, CreateDatabase(v)
      PROVE  TraceInv'
  <2>1. \A w \in Verifiers : w # v => ver'[w] = ver[w]
    BY <1>5 DEF CreateDatabase
  <2>2. UNCHANGED bucket /\ ver[v].at = "create" /\ ver'[v].restored = ver[v].restored /\ ver'[v].r = ver[v].r
    BY <1>5 DEF CreateDatabase, VerRecords
  <2>3. dbs' = dbs \/ (dbs' = dbs \cup {ver[v].r} /\ ver'[v].at = "copy")
    BY <1>5 DEF CreateDatabase, TestDatabase, VerRecords
  <2>4. (\A r \in Records : ~ AtWork(v, r)) /\ \A r \in dbs' \ dbs : AtWork(v, r)'
    BY <2>2, <2>3 DEF AtWork
  <2> QED
    BY <2>1, <2>2, <2>4, TraceMoved
<1>6. ASSUME NEW v \in Verifiers, CopyObject(v)
      PROVE  TraceInv'
  <2>1. \A w \in Verifiers : w # v => ver'[w] = ver[w]
    BY <1>6 DEF CopyObject
  <2> DEFINE x == Scratch(ver[v].r, Min(ver[v].todo))
  <2>2. /\ UNCHANGED dbs /\ bucket' = bucket \cup {x} /\ ver'[v].restored = ver[v].restored \cup {x}
        /\ ver'[v].r = ver[v].r /\ ver'[v].at = "reread" /\ ver[v].at = "copy"
    BY <1>6 DEF CopyObject, VerRecords
  <2>3. ver[v].r \in Records /\ Min(ver[v].todo) \in Nat
    BY <1>6, <2>2, AtWorkFacts, CopyFacts DEF CopyObject
  <2>4. \A r \in Records, k \in Nat : Scratch(r, k) = x => r = ver[v].r
    BY <2>3, ScratchApart
  <2>5. \A r \in Records : (AtWork(v, r) => AtWork(v, r)') /\ (r = ver[v].r => AtWork(v, r)')
    BY <2>2 DEF AtWork
  <2> HIDE DEF x
  <2> QED
    BY <2>1, <2>2, <2>4, <2>5, TraceMoved
<1>7. ASSUME NEW v \in Verifiers, ReadBack(v) \/ Restored(v)
      PROVE  TraceInv'
  <2>1. \A w \in Verifiers : w # v => ver'[w] = ver[w]
    BY <1>7 DEF ReadBack, Restored
  <2>2. /\ UNCHANGED <<dbs, bucket>> /\ ver'[v].restored = ver[v].restored /\ ver'[v].r = ver[v].r
        /\ ver'[v].at \in {"copy", "cleanup"}
    BY <1>7 DEF ReadBack, Restored, VerRecords
  <2>3. \A r \in Records : AtWork(v, r) => AtWork(v, r)'
    BY <2>2 DEF AtWork
  <2> QED
    BY <2>1, <2>2, <2>3, TraceMoved
<1>8. ASSUME NEW v \in Verifiers, Cleanup(v)
      PROVE  TraceInv'
  <2>1. \A w \in Verifiers : w # v => ver'[w] = ver[w]
    BY <1>8 DEF Cleanup
  <2>2. ver[v].at = "cleanup" /\ ver[v].r \in Records
    BY <1>8, AtWorkFacts DEF Cleanup
  <2> SUFFICES ASSUME NEW r \in Records, hurt'[r] \cap Leavers = {}
               PROVE  /\ r \in dbs' => \E w \in Verifiers : AtWork(w, r)'
                      /\ \A k \in Nat : Scratch(r, k) \in bucket' =>
                           \E w \in Verifiers : AtWork(w, r)' /\ Scratch(r, k) \in ver'[w].restored
    BY DEF TraceInv
  <2>3. hurt[r] \cap Leavers = {}
    BY GrowNext
  <2>4. dbs' \subseteq dbs /\ bucket' \subseteq bucket
    BY <1>8 DEF Cleanup
  <2>5. \A w \in Verifiers \ {v} : AtWork(w, r) => AtWork(w, r)' /\ ver'[w].restored = ver[w].restored
    BY <2>1 DEF AtWork
  <2>6. CASE r # ver[v].r
    <3>1. ~ AtWork(v, r)
      BY <2>6 DEF AtWork
    <3> QED
      BY <2>3, <2>4, <2>5, <3>1 DEF TraceInv
  <2>7. CASE r = ver[v].r
    <3>1. bucket' = bucket \ ver[v].restored /\ r \notin dbs'
      BY <1>8, <2>2, <2>7, Suffered DEF Cleanup, Cleaned, TestDatabase
    <3> QED
      BY <2>3, <2>4, <2>5, <3>1 DEF TraceInv
  <2> QED
    BY <2>6, <2>7
<1>9. ASSUME NEW v \in Verifiers, SaveVerdict(v) \/ VerifyKilled(v)
      PROVE  TraceInv'
  <2>1. \A w \in Verifiers : w # v => ver'[w] = ver[w]
    BY <1>9 DEF SaveVerdict, VerifyKilled
  <2> SUFFICES ASSUME NEW r \in Records, hurt'[r] \cap Leavers = {}
               PROVE  /\ r \in dbs' => \E w \in Verifiers : AtWork(w, r)'
                      /\ \A k \in Nat : Scratch(r, k) \in bucket' =>
                           \E w \in Verifiers : AtWork(w, r)' /\ Scratch(r, k) \in ver'[w].restored
    BY DEF TraceInv
  <2>2. hurt[r] \cap Leavers = {}
    BY GrowNext
  <2>3. UNCHANGED <<dbs, bucket>>
    BY <1>9 DEF SaveVerdict, VerifyKilled
  <2>4. ~ AtWork(v, r)
    <3>1. CASE SaveVerdict(v)
      BY <3>1 DEF SaveVerdict, AtWork
    <3>2. CASE VerifyKilled(v)
      <4> SUFFICES ASSUME ver[v].r = r PROVE FALSE
        BY DEF AtWork
      <4>1. Suffer(r, {"kill"})
        BY <3>2 DEF VerifyKilled
      <4>2. {"kill"} \subseteq hurt'[r]
        BY <4>1, Suffered
      <4> QED
        BY <4>2
    <3> QED
      BY <1>9, <3>1, <3>2
  <2>5. \A w \in Verifiers \ {v} : AtWork(w, r) => AtWork(w, r)' /\ ver'[w].restored = ver[w].restored
    BY <2>1 DEF AtWork
  <2> QED
    BY <2>2, <2>3, <2>4, <2>5 DEF TraceInv
<1>10. ASSUME NEW r \in Records, OutsideFails(r)
      PROVE  TraceInv'
  BY <1>10, OutsideFacts, TraceKept
<1>11. ASSUME NEW v \in Verifiers, Unanswered(v)
      PROVE  TraceInv'
  <2>1. PICK p \in Records : p = ver[v].r
    BY <1>11, UnansweredFacts
  <2>2. "unacknowledged" \in hurt'[p]
    BY <1>11, <2>1, UnansweredFacts
  <2>3. dbs' \subseteq dbs \cup {p} /\ \A w \in Verifiers : w # v => ver'[w] = ver[w]
    BY <1>11, <2>1, UnansweredFacts
  <2>8. bucket' = bucket \/ \E k \in Nat : bucket' = bucket \cup {Scratch(p, k)}
    BY <1>11, <2>1, UnansweredFacts
  <2> SUFFICES ASSUME NEW r \in Records, hurt'[r] \cap Leavers = {}
               PROVE  /\ r \in dbs' => \E w \in Verifiers : AtWork(w, r)'
                      /\ \A k \in Nat : Scratch(r, k) \in bucket' =>
                           \E w \in Verifiers : AtWork(w, r)' /\ Scratch(r, k) \in ver'[w].restored
    BY DEF TraceInv
  <2>4. hurt[r] \cap Leavers = {} /\ r # p
    BY <2>2, GrowNext DEF Leavers
  <2>5. \A k \in Nat : Scratch(r, k) \in bucket' => Scratch(r, k) \in bucket
    BY <2>4, <2>8, ScratchApart
  <2>6. ~ AtWork(v, r)
    BY <2>1, <2>4 DEF AtWork
  <2>7. \A w \in Verifiers \ {v} : AtWork(w, r) => AtWork(w, r)' /\ ver'[w].restored = ver[w].restored
    BY <2>3 DEF AtWork
  <2> QED
    BY <2>3, <2>4, <2>5, <2>6, <2>7 DEF TraceInv
<1>12. CASE UNCHANGED vars
  BY <1>12 DEF vars, TraceInv, AtWork
<1> QED
  BY <1>1, <1>2, <1>3, <1>4, <1>5, <1>6, <1>7, <1>8, <1>9, <1>10, <1>11, <1>12 DEF Next, Backup, Verify

\* The news of one run: nothing else changes.
LEMMA NewsOf ==
  ASSUME IInv, [Next]_vars, NEW r \in Records, UNCHANGED met,
         \A q \in Records : q # r => rec'[q] = rec[q] /\ job'[q] = job[q],
         rec'[r].verdict = rec[r].verdict,
         rec'[r].status = "failed" => "produce" \in hurt'[r] \/ r \in met,
         rec'[r].status = "running" /\ job'[r].at = "ended" => hurt'[r] \cap Halters # {}
  PROVE  BadNewsAccounted'
<1>1. \A q \in Records : hurt[q] \subseteq hurt'[q]
  BY GrowNext
<1> QED
  BY <1>1 DEF IInv, BadNewsAccounted

\* A run that is given up is FAILED with its reason, or could not even be saved.
LEMMA GivenUp ==
  ASSUME IInv, NEW r \in Records, job[r].at \in {"produce", "list"}, NEW kinds, GiveUp(r, kinds)
  PROVE  /\ \A q \in Records : q # r => rec'[q] = rec[q] /\ job'[q] = job[q]
         /\ rec'[r].verdict = rec[r].verdict
         /\ rec'[r].status = "failed" => kinds \subseteq hurt'[r]
         /\ rec'[r].status = "running" => hurt'[r] \cap Halters # {}
<1> USE DEF IInv, TypeInv, Halters
<1>1. rec[r].status = "running"
  BY DEF StageInv
<1>2. \A q \in Records : q # r => rec'[q] = rec[q] /\ job'[q] = job[q]
  BY DEF GiveUp
<1>3. CASE Suffer(r, kinds) /\ rec' = [rec EXCEPT ![r].status = "failed"]
  <2>1. rec'[r].status = "failed" /\ rec'[r].verdict = rec[r].verdict
    BY <1>3 DEF RecordRows
  <2>2. kinds \subseteq hurt'[r]
    BY <1>3, Suffered
  <2> QED
    BY <1>2, <2>1, <2>2
<1>4. CASE Suffer(r, kinds \cup {"save"}) /\ UNCHANGED rec
  <2>1. kinds \cup {"save"} \subseteq hurt'[r]
    BY <1>4, Suffered
  <2> QED
    BY <1>1, <1>2, <1>4, <2>1
<1> QED
  BY <1>3, <1>4 DEF GiveUp

\* Bad news keeps its reason.
LEMMA BadNewsNext ==
  ASSUME IInv, [Next]_vars
  PROVE  BadNewsAccounted'
<1> USE DEF IInv, TypeInv, BadNewsAccounted, Halters, histories
<1>1. ASSUME NEW k \in UserKeys, PutObject(k) \/ DeleteObject(k)
      PROVE  BadNewsAccounted'
  BY <1>1 DEF PutObject, DeleteObject
<1>2. ASSUME NEW r \in Records, NEW type \in Types, StartBackup(r, type)
      PROVE  BadNewsAccounted'
  BY <1>2 DEF StartBackup, NoRecord, StageInv, RecordRows, JobRecords
<1>3. ASSUME NEW r \in Records, Produce(r)
      PROVE  BadNewsAccounted'
  BY <1>3 DEF Produce, JobRecords
<1>4. ASSUME NEW r \in Records, ListPage(r)
      PROVE  BadNewsAccounted'
  BY <1>4 DEF ListPage, JobRecords
<1>5. ASSUME NEW r \in Records, ReadObject(r)
      PROVE  BadNewsAccounted'
  <2>1. CASE Min(job[r].page) \notin bucket /\ GiveUp(r, {})
    <3>1. r \in met /\ UNCHANGED met /\ job[r].at = "list"
      BY <1>5, <2>1, ReadFacts DEF ReadObject, PageInv, StageInv
    <3> QED
      BY <2>1, <3>1, GivenUp, NewsOf
  <2>2. CASE job' = [job EXCEPT ![r].page = @ \ {Min(job[r].page)}] /\ UNCHANGED <<rec, hurt>>
    BY <1>5, <2>2 DEF ReadObject, JobRecords
  <2> QED
    BY <1>5, <2>1, <2>2 DEF ReadObject
<1>6. ASSUME NEW r \in Records, Seal(r)
      PROVE  BadNewsAccounted'
  <2>1. UNCHANGED <<rec, met>> /\ \A q \in Records : q # r => job'[q] = job[q]
    BY <1>6 DEF Seal
  <2>2. rec[r].status = "running"
    BY <1>6 DEF Seal, StageInv
  <2>3. job'[r].at = "save" \/ Suffer(r, {"seal"})
    BY <1>6 DEF Seal, JobRecords
  <2>4. job'[r].at = "save" \/ {"seal"} \subseteq hurt'[r]
    BY <2>3, Suffered
  <2> QED
    BY <2>1, <2>2, <2>4, NewsOf
<1>7. ASSUME NEW r \in Records, SaveRecord(r)
      PROVE  BadNewsAccounted'
  <2>1. /\ UNCHANGED met /\ rec[r].status = "running"
        /\ \A q \in Records : q # r => job'[q] = job[q] /\ rec'[q] = rec[q]
    BY <1>7 DEF SaveRecord, StageInv
  <2>2. rec'[r].verdict = rec[r].verdict /\ rec'[r].status # "failed"
    BY <1>7, <2>1 DEF SaveRecord, RecordRows
  <2>3. rec'[r].status = "success" \/ Suffer(r, {"save"})
    BY <1>7 DEF SaveRecord, RecordRows
  <2>4. rec'[r].status = "success" \/ {"save"} \subseteq hurt'[r]
    BY <2>3, Suffered
  <2> QED
    BY <2>1, <2>2, <2>4, NewsOf
<1>8. ASSUME NEW r \in Records, ProduceFails(r)
      PROVE  BadNewsAccounted'
  <2>1. GiveUp(r, {"produce"}) /\ UNCHANGED met /\ job[r].at \in {"produce", "list"}
    BY <1>8 DEF ProduceFails
  <2> QED
    BY <2>1, GivenUp, NewsOf
<1>9. ASSUME NEW r \in Records, BackupKilled(r)
      PROVE  BadNewsAccounted'
  BY <1>9, Suffered DEF BackupKilled, NoJob
<1>10. ASSUME NEW v \in Verifiers, NEW type \in Types, StartVerify(v, type)
      PROVE  BadNewsAccounted'
  BY <1>10 DEF StartVerify
<1>11. ASSUME NEW v \in Verifiers, CreateDatabase(v)
      PROVE  BadNewsAccounted'
  BY <1>11, GrowNext DEF CreateDatabase
<1>12. ASSUME NEW v \in Verifiers, CopyObject(v)
      PROVE  BadNewsAccounted'
  BY <1>12 DEF CopyObject
<1>13. ASSUME NEW v \in Verifiers, ReadBack(v)
      PROVE  BadNewsAccounted'
  BY <1>13 DEF ReadBack
<1>14. ASSUME NEW v \in Verifiers, Restored(v)
      PROVE  BadNewsAccounted'
  BY <1>14, GrowNext DEF Restored
<1>15. ASSUME NEW v \in Verifiers, Cleanup(v)
      PROVE  BadNewsAccounted'
  BY <1>15, GrowNext DEF Cleanup
<1>16. ASSUME NEW v \in Verifiers, SaveVerdict(v)
      PROVE  BadNewsAccounted'
  <2>1. UNCHANGED <<job, met>> /\ (\A q \in Records : hurt[q] \subseteq hurt'[q])
    BY <1>16, GrowNext DEF SaveVerdict
  <2>2. UNCHANGED rec \/ rec' = [rec EXCEPT ![ver[v].r].verdict = Verdict(v)]
    BY <1>16 DEF SaveVerdict
  <2>3. Verdict(v) = "bad" => Explained(ver[v].r)
    BY DEF Verdict, VerdictInv
  <2>4. ver[v].r \in Records
    BY <1>16, AtWorkFacts DEF SaveVerdict
  <2> QED
    BY <2>1, <2>2, <2>3, <2>4 DEF Explained, RecordRows
<1>17. ASSUME NEW v \in Verifiers, VerifyKilled(v)
      PROVE  BadNewsAccounted'
  BY <1>17, GrowNext DEF VerifyKilled
<1>18. ASSUME NEW r \in Records, OutsideFails(r)
      PROVE  BadNewsAccounted'
  <2>1. /\ UNCHANGED <<rec, met>> /\ "outside" \in hurt'[r]
        /\ \A q \in Records : q # r => job'[q] = job[q]
    BY <1>18, OutsideFacts
  <2>2. rec[r].status = "running"
    BY <1>18, OutsideFacts DEF StageInv
  <2> QED
    BY <2>1, <2>2, NewsOf DEF Halters
<1>19. ASSUME NEW v \in Verifiers, Unanswered(v)
      PROVE  BadNewsAccounted'
  <2>1. UNCHANGED <<rec, job, met>> /\ \A q \in Records : hurt[q] \subseteq hurt'[q]
    BY <1>19, UnansweredFacts
  <2> QED
    BY <2>1
<1>20. CASE UNCHANGED vars
  BY <1>20 DEF vars
<1> QED
  BY <1>1, <1>2, <1>3, <1>4, <1>5, <1>6, <1>7, <1>8, <1>9, <1>10, <1>11, <1>12, <1>13, <1>14, <1>15, <1>16, <1>17, <1>18, <1>19, <1>20 DEF Next, Backup, Verify

-----------------------------------------------------------------------------
(***************************************************************************)
(* Theorems.                                                               *)
(***************************************************************************)

\* Initially there is no backup, no verification and no scratch key.
LEMMA InitIInv == Init => IInv
<1> SUFFICES ASSUME Init PROVE IInv
  OBVIOUS
<1> USE DEF Init
<1>1. TypeInv
  <2>1. NoRecord \in RecordRows
    BY DEF NoRecord, RecordRows
  <2> QED
    BY <2>1, Ended, Counts DEF TypeInv, UserKeys
<1>2. KeysInv
  <2>1. Bounded(UserKeys)
    BY Counts DEF Bounded, UserKeys
  <2> QED
    BY <2>1, BoundedSets DEF KeysInv, Resting
<1>3. StageInv /\ ListInv /\ PageInv /\ BadNewsAccounted
  BY DEF StageInv, ListInv, PageInv, BadNewsAccounted, NoRecord, NoJob
<1>4. VerInv /\ OverlapInv /\ VerdictInv
  BY DEF VerInv, OverlapInv, VerdictInv, Resting
<1>5. UserObjectsUntouched
  BY DEF UserObjectsUntouched
<1>6. TraceInv
  BY ScratchApart DEF TraceInv
<1> QED
  BY <1>1, <1>2, <1>3, <1>4, <1>5, <1>6 DEF IInv

\* Every step keeps the inductive invariant.
LEMMA NextIInv == IInv /\ [Next]_vars => IInv'
  BY TypeNext, KeysNext, StageNext, ListNext, UserNext, PageNext, VerNext, OverlapNext,
     VerdictNext, TraceNext, BadNewsNext DEF IInv

\* The inductive invariant holds in every reachable state.
LEMMA AlwaysIInv == Spec => []IInv
  BY InitIInv, NextIInv, PTL DEF Spec

\* A backup that says SUCCESS is one (run_backup): whatever users store and
\* delete while it is listed page by page, its archive holds every object that
\* was there from the start of the listing to the end, and its file is on disk in
\* the one form it should have.
THEOREM BackupsAlwaysSound == Spec => []BackupsAreSound
<1>1. IInv => BackupsAreSound
  BY TypeMeans DEF IInv, StageInv, ListInv, Form, BackupsAreSound, ArchiveIsComplete, SuccessIsOnDisk
<1> QED
  BY <1>1, AlwaysIInv, PTL

\* Verifications, overlapping ones of one record included, never touch what
\* users have stored, and leave no database and no scratch key behind unless a
\* removal failed, a worker died, or the creation or the put raised after taking
\* effect (verify_backup_restorable).
THEOREM VerificationAlwaysClean == Spec => []VerificationIsClean
<1>1. IInv => VerificationIsClean
  <2> SUFFICES ASSUME IInv, NEW r \in Records, \A v \in Verifiers : ver[v].r # r,
                      hurt[r] \cap Leavers = {}
               PROVE  /\ TestDatabase(r) \notin dbs
                      /\ \A k \in archive[r] : Scratch(r, k) \in bucket => Scratch(r, k) \in owned
    BY DEF IInv, VerificationIsClean, LeftoversAccounted
  <2>1. archive[r] \subseteq Nat
    BY DEF IInv, TypeInv
  <2>2. \A v \in Verifiers : ~ AtWork(v, r)
    BY DEF AtWork
  <2> QED
    BY <2>1, <2>2 DEF IInv, TraceInv, TestDatabase
<1> QED
  BY <1>1, AlwaysIInv, PTL

\* A FAILED backup, one that stays RUNNING and a verdict against a backup each
\* have a reason: a fault, a deletion during the listing, or another verification
\* of the same record (run_backup, verify_backup_restorable).
THEOREM BadNewsAlwaysAccounted == Spec => []BadNewsAccounted
<1>1. IInv => BadNewsAccounted
  BY DEF IInv
<1> QED
  BY <1>1, AlwaysIInv, PTL

-----------------------------------------------------------------------------
(***************************************************************************)
(* How long backups and verifications take.  A listing goes on after the   *)
(* last key it has listed, so what bounds it is the largest key there can  *)
(* be.  Users have MaxKey keys; but a verification copies an archive under *)
(* keys of its own, which a backup that is being listed may archive and a  *)
(* later verification copy once more.  Cap[n] is the largest key when n    *)
(* backups have succeeded.                                                 *)
(***************************************************************************)

\* The largest key, by the number of successful backups.
IsCap(f, m) ==
  /\ f \in [0..m -> Nat] /\ f[0] = MaxKey
  /\ \A n \in 1..m : f[n] = MaxKey + MaxRecords + f[n - 1] * (MaxRecords + 1)

Cap == CHOOSE f : IsCap(f, MaxRecords)
Top == Cap[MaxRecords]

Done == {r \in Records : rec[r].status = "success"}

\* The largest key there can be, and the largest that an archive can hold: that
\* of a successful backup was listed before it succeeded.
Room == Cap[Cardinality(Done)]
Limit(r) == Cap[IF r \in Done THEN Cardinality(Done) - 1 ELSE Cardinality(Done)]

\* No key in the bucket, in an archive or on a page is beyond its cap.
CapInv ==
  /\ \A k \in bucket : k <= Room
  /\ \A r \in Records :
       job[r].cursor <= Room /\ \A k \in archive[r] \cup job[r].page : k <= Limit(r)

\* A verification restores the archive of a successful backup.
TodoInv ==
  \A v \in Verifiers :
    IF ver[v].r = 0 THEN ver[v].todo = {}
    ELSE ver[v].r \in Done /\ ver[v].todo \subseteq archive[ver[v].r]

\* The steps that a backup and a verification can still take.
JobSteps(r) ==
  CASE job[r].at = "none"    -> 2 * Top + 6
    [] job[r].at = "list"    -> 2 * (Top - job[r].cursor) + Cardinality(job[r].page) + 5
    [] job[r].at = "produce" -> 4
    [] job[r].at = "seal"    -> 3
    [] job[r].at = "save"    -> 2
    [] job[r].at = "ended"   -> 0

VerSteps(v) ==
  CASE ver[v].at = "none"    -> 2 * Top + 10
    [] ver[v].at = "create"  -> 2 * Cardinality(ver[v].todo) + 7
    [] ver[v].at = "reread"  -> 2 * Cardinality(ver[v].todo) + 6
    [] ver[v].at = "copy"    -> 2 * Cardinality(ver[v].todo) + 5
    [] ver[v].at = "cleanup" -> 3
    [] ver[v].at = "save"    -> 2
    [] ver[v].at = "ended"   -> 0

-----------------------------------------------------------------------------
\* There are caps: a number without them would be a least one.
LEMMA CapExists == IsCap(Cap, MaxRecords)
<1> DEFINE Bad == {m \in 0..MaxRecords : ~ \E f : IsCap(f, m)}
<1>1. SUFFICES \E f : IsCap(f, MaxRecords)
  BY DEF Cap
<1>2. SUFFICES ASSUME Bad # {} PROVE FALSE
  BY Counts
<1>3. /\ Min(Bad) \in 0..MaxRecords /\ ~ \E f : IsCap(f, Min(Bad))
      /\ \A y \in Bad : Min(Bad) <= y
  <2>1. Bad \in SUBSET Nat
    BY Counts
  <2> HIDE DEF Bad
  <2>2. Min(Bad) \in Bad /\ \A y \in Bad : Min(Bad) <= y
    BY <1>2, <2>1, MinIn
  <2> QED
    BY <2>2 DEF Bad
<1>4. PICK m \in 0..MaxRecords : m = Min(Bad)
  BY <1>3
<1> HIDE DEF Bad
<1>5. CASE m = 0
  <2>1. IsCap([i \in 0..0 |-> MaxKey], 0)
    BY Counts DEF IsCap
  <2> QED
    BY <1>3, <1>4, <1>5, <2>1
<1>6. CASE m # 0
  <2>1. m - 1 \in 0..MaxRecords /\ m \in Nat /\ ~(m <= m - 1)
    BY <1>4, <1>6, Counts
  <2>2. m - 1 \notin Bad
    BY <1>3, <1>4, <2>1
  <2>3. PICK f : IsCap(f, m - 1)
    BY <2>1, <2>2 DEF Bad
  <2> DEFINE last == MaxKey + MaxRecords + f[m - 1] * (MaxRecords + 1)
             g == [i \in 0..m |-> IF i = m THEN last ELSE f[i]]
  <2>4. f[m - 1] \in Nat /\ f \in [0..(m - 1) -> Nat]
    BY <2>1, <2>3, <1>6 DEF IsCap
  <2>5. last \in Nat
    <3>1. f[m - 1] * (MaxRecords + 1) \in Nat
      BY <2>4, Counts
    <3> QED
      BY <3>1, Counts
  <2>6. g \in [0..m -> Nat] /\ g[0] = MaxKey
    <3> HIDE DEF last
    <3> QED
      BY <1>6, <2>1, <2>3, <2>4, <2>5 DEF IsCap
  <2>7. ASSUME NEW n \in 1..m
        PROVE  g[n] = MaxKey + MaxRecords + g[n - 1] * (MaxRecords + 1)
    <3>0. n \in 0..m /\ n - 1 \in 0..m /\ n - 1 # m
      BY <2>1
    <3>1. g[n - 1] = f[n - 1]
      BY <3>0
    <3>2. CASE n = m
      BY <3>0, <3>1, <3>2
    <3>3. CASE n # m
      <4>1. n \in 1..(m - 1) /\ g[n] = f[n]
        BY <2>1, <3>0, <3>3
      <4> QED
        BY <2>3, <3>1, <4>1 DEF IsCap
    <3> QED
      BY <3>2, <3>3
  <2>8. IsCap(g, m)
    <3> HIDE DEF g
    <3> QED
      BY <2>6, <2>7 DEF IsCap
  <2> QED
    BY <1>3, <1>4, <2>8
<1> QED
  BY <1>5, <1>6

\* A cap is a number, and the next one leaves room for a copy of every key.
LEMMA CapFacts ==
  /\ Cap \in [0..MaxRecords -> Nat]
  /\ \A n \in 0..MaxRecords : MaxKey <= Cap[n]
  /\ \A n \in 1..MaxRecords :
       /\ Cap[n - 1] <= Cap[n]
       /\ \A r \in Records, k \in Nat : k <= Cap[n - 1] => Scratch(r, k) <= Cap[n]
<1>1. Cap \in [0..MaxRecords -> Nat] /\ Cap[0] = MaxKey
  BY CapExists DEF IsCap
<1>2. ASSUME NEW n \in 1..MaxRecords
      PROVE  /\ MaxKey <= Cap[n] /\ Cap[n - 1] <= Cap[n]
             /\ \A r \in Records, k \in Nat : k <= Cap[n - 1] => Scratch(r, k) <= Cap[n]
  <2> DEFINE c == Cap[n - 1]
             M == MaxRecords + 1
  <2>1. c \in Nat /\ M \in Nat \ {0} /\ Cap[n] \in Nat
    BY <1>1, Counts
  <2>2. Cap[n] = MaxKey + MaxRecords + c * M
    BY CapExists DEF IsCap
  <2>3. ASSUME NEW k \in Nat, k <= c PROVE k * M <= c * M
    <3> HIDE DEF c, M
    <3>1. k < c => k * M + M <= c * M
      BY <2>1, Apart
    <3>2. k * M \in Nat /\ c * M \in Nat
      BY <2>1
    <3>3. k < c \/ k = c
      BY <2>1, <2>3
    <3>4. CASE k < c
      BY <2>1, <3>1, <3>2, <3>4
    <3>5. CASE k = c
      BY <3>2, <3>5
    <3> QED
      BY <3>3, <3>4, <3>5
  <2>4. c <= c * M /\ c * M \in Nat
    <3>1. c * M = c * MaxRecords + c
      BY <2>1, Counts
    <3>2. c * MaxRecords \in Nat
      BY <2>1, Counts
    <3> HIDE DEF c, M
    <3> QED
      BY <2>1, <3>1, <3>2
  <2>5. ASSUME NEW r \in Records, NEW k \in Nat, k <= c PROVE Scratch(r, k) <= Cap[n]
    <3>1. k * M <= c * M /\ k * M \in Nat
      BY <2>1, <2>3, <2>5
    <3>2. Scratch(r, k) = MaxKey + r + k * M /\ r \in 1..MaxRecords
      BY DEF Scratch, Records
    <3> HIDE DEF c, M
    <3> QED
      BY <2>2, <2>4, <3>1, <3>2, Counts
  <2> HIDE DEF c, M
  <2>6. MaxKey <= Cap[n] /\ c <= Cap[n]
    BY <2>1, <2>2, <2>4, Counts
  <2> QED
    BY <2>5, <2>6 DEF c
<1>3. ASSUME NEW n \in 0..MaxRecords PROVE MaxKey <= Cap[n]
  BY <1>1, <1>2, Counts
<1> QED
  BY <1>1, <1>2, <1>3

\* No cap is larger than the last one.
LEMMA CapTop ==
  ASSUME NEW n \in 0..MaxRecords
  PROVE  Cap[n] \in Nat /\ Top \in Nat /\ Cap[n] <= Top
<1> DEFINE Bad == {m \in n..MaxRecords : Cap[m] < Cap[n]}
<1>0. n \in Nat /\ MaxRecords \in Nat /\ \A m \in 0..MaxRecords : Cap[m] \in Nat
  BY CapFacts, Counts
<1>1. SUFFICES ASSUME Bad # {} PROVE FALSE
  <2>1. MaxRecords \in n..MaxRecords /\ Cap[n] \in Nat /\ Top \in Nat
    BY <1>0 DEF Top
  <2>2. Bad = {} => ~ (Top < Cap[n])
    BY <2>1 DEF Top
  <2> HIDE DEF Bad
  <2> QED
    BY <2>1, <2>2
<1>2. Min(Bad) \in n..MaxRecords /\ Cap[Min(Bad)] < Cap[n] /\ \A y \in Bad : Min(Bad) <= y
  <2>1. Bad \in SUBSET Nat
    BY <1>0
  <2> HIDE DEF Bad
  <2>2. Min(Bad) \in Bad /\ \A y \in Bad : Min(Bad) <= y
    BY <1>1, <2>1, MinIn
  <2> QED
    BY <2>2 DEF Bad
<1>3. PICK m \in n..MaxRecords : m = Min(Bad)
  BY <1>2
<1>4. m \in 0..MaxRecords /\ Cap[m] < Cap[n] /\ Cap[m] \in Nat /\ Cap[n] \in Nat
  <2>1. m \in 0..MaxRecords /\ Cap[m] < Cap[n]
    BY <1>0, <1>2, <1>3
  <2> HIDE DEF Bad
  <2> QED
    BY <1>0, <2>1
<1>5. m # n
  <2> HIDE DEF Bad
  <2> QED
    BY <1>4
<1>6. m \in 1..MaxRecords /\ m - 1 \in n..MaxRecords /\ m - 1 \in 0..MaxRecords /\ ~ (m <= m - 1)
  <2> HIDE DEF Bad
  <2> QED
    BY <1>0, <1>3, <1>5
<1>7. Cap[m - 1] <= Cap[m] /\ Cap[m - 1] \in Nat
  <2> HIDE DEF Bad
  <2> QED
    BY <1>0, <1>6, CapFacts
<1>8. m - 1 \in Bad
  BY <1>4, <1>6, <1>7
<1> HIDE DEF Bad
<1> QED
  BY <1>2, <1>3, <1>6, <1>8

\* As many backups have succeeded as there are records at most, and a running
\* one is not among them.
LEMMA DoneFacts ==
  /\ IsFiniteSet(Done) /\ Cardinality(Done) \in 0..MaxRecords
  /\ \A r \in Done : Cardinality(Done) \in 1..MaxRecords
  /\ \A r \in Records \ Done : Cardinality(Done) + 1 \in 1..MaxRecords
                              /\ Cardinality(Done \cup {r}) = Cardinality(Done) + 1
<1>1. MaxRecords \in Nat /\ Done \subseteq Records
  BY Counts DEF Done
<1>2. IsFiniteSet(Records) /\ Cardinality(Records) = MaxRecords
  <2>1. Cardinality(1..MaxRecords) = IF 1 > MaxRecords THEN 0 ELSE MaxRecords - 1 + 1
    BY <1>1, FS_Interval
  <2>2. IsFiniteSet(1..MaxRecords)
    BY <1>1, FS_Interval
  <2> QED
    BY <1>1, <2>1, <2>2 DEF Records
<1>3. IsFiniteSet(Done) /\ Cardinality(Done) <= Cardinality(Records)
  BY <1>1, <1>2, FS_Subset
<1>4. Cardinality(Done) \in Nat
  BY <1>3, FS_CardinalityType
<1>5. ASSUME NEW r \in Done PROVE Cardinality(Done) # 0
  BY <1>3, FS_EmptySet
<1>6. ASSUME NEW r \in Records \ Done
      PROVE  Cardinality(Done) + 1 <= MaxRecords /\ Cardinality(Done \cup {r}) = Cardinality(Done) + 1
  <2>1. Cardinality(Done \cup {r}) = Cardinality(Done) + 1
    BY <1>3, FS_AddElement
  <2>2. Done \cup {r} \subseteq Records
    BY <1>1
  <2>3. Cardinality(Done \cup {r}) <= Cardinality(Records)
    BY <1>2, <2>2, FS_Subset
  <2> QED
    BY <1>2, <2>1, <2>3
<1> QED
  BY <1>1, <1>2, <1>3, <1>4, <1>5, <1>6

\* A status changes to SUCCESS in one step only, that of a running backup.
LEMMA DoneNext ==
  ASSUME IInv, [Next]_vars
  PROVE  \/ Done' = Done
         \/ \E r \in Records \ Done : Done' = Done \cup {r}
<1> USE DEF IInv, TypeInv, histories
<1>1. ASSUME NEW r \in Records, NEW type \in Types, StartBackup(r, type)
      PROVE  Done' = Done
  BY <1>1 DEF StartBackup, NoRecord, RecordRows, Done
<1>2. ASSUME NEW r \in Records, ReadObject(r) \/ ProduceFails(r)
      PROVE  Done' = Done
  <2>1. job[r].at \in {"produce", "list"}
    BY <1>2 DEF ReadObject, ProduceFails, StageInv
  <2>2. rec[r].status = "running"
    BY <2>1 DEF StageInv
  <2>3. \/ UNCHANGED rec
        \/ rec' = [rec EXCEPT ![r].status = "failed"]
    BY <1>2 DEF ReadObject, ProduceFails, GiveUp
  <2>4. \A q \in Records : rec'[q].status = "success" <=> rec[q].status = "success"
    <3>1. rec'[r].status # "success" /\ \A q \in Records : q # r => rec'[q] = rec[q]
      BY <2>2, <2>3 DEF RecordRows
    <3> QED
      BY <2>2, <3>1
  <2> QED
    BY <2>4 DEF Done
<1>3. ASSUME NEW r \in Records, SaveRecord(r)
      PROVE  \/ Done' = Done
             \/ \E q \in Records \ Done : Done' = Done \cup {q}
  <2>1. rec[r].status = "running"
    BY <1>3 DEF SaveRecord, StageInv
  <2>2. CASE rec' = [rec EXCEPT ![r].status = "success"]
    <3>1. r \in Records \ Done /\ Done' = Done \cup {r}
      BY <2>1, <2>2 DEF Done, RecordRows
    <3> QED
      BY <3>1
  <2>3. CASE UNCHANGED rec
    BY <2>3 DEF Done
  <2> QED
    BY <1>3, <2>2, <2>3 DEF SaveRecord
<1>4. ASSUME NEW v \in Verifiers, SaveVerdict(v)
      PROVE  Done' = Done
  BY <1>4 DEF SaveVerdict, Done, RecordRows
<1>5. ASSUME NEW k \in UserKeys, PutObject(k) \/ DeleteObject(k)
      PROVE  Done' = Done
  BY <1>5 DEF PutObject, DeleteObject, Done
<1>6. ASSUME NEW r \in Records, Produce(r) \/ ListPage(r) \/ Seal(r) \/ BackupKilled(r)
      PROVE  Done' = Done
  BY <1>6 DEF Produce, ListPage, Seal, BackupKilled, Done
<1>7. ASSUME NEW v \in Verifiers, NEW type \in Types, StartVerify(v, type)
      PROVE  Done' = Done
  BY <1>7 DEF StartVerify, Done
<1>8. ASSUME NEW v \in Verifiers, CreateDatabase(v) \/ CopyObject(v) \/ ReadBack(v) \/ Restored(v) \/ Cleanup(v) \/ VerifyKilled(v)
      PROVE  Done' = Done
  BY <1>8 DEF CreateDatabase, CopyObject, ReadBack, Restored, Cleanup, VerifyKilled, Done
<1>9. ASSUME NEW r \in Records, OutsideFails(r)
      PROVE  Done' = Done
  BY <1>9, OutsideFacts DEF Done
<1>10. ASSUME NEW v \in Verifiers, Unanswered(v)
      PROVE  Done' = Done
  BY <1>10, UnansweredFacts DEF Done
<1>11. CASE UNCHANGED vars
  BY <1>11 DEF vars, Done
<1> QED
  BY <1>1, <1>2, <1>3, <1>4, <1>5, <1>6, <1>7, <1>8, <1>9, <1>10, <1>11 DEF Next, Backup, Verify

\* The caps of a state are numbers, and no step lowers one.
LEMMA RoomFacts ==
  /\ Room \in Nat /\ Room <= Top /\ MaxKey <= Room /\ Top \in Nat
  /\ \A r \in Records : Limit(r) \in Nat /\ Limit(r) <= Room /\ (r \notin Done => Limit(r) = Room)
  /\ \A r \in Done, k \in Nat : k <= Limit(r) => Scratch(r, k) <= Room
<1> DEFINE n == Cardinality(Done)
<1>1. n \in 0..MaxRecords /\ \A r \in Done : n \in 1..MaxRecords
  BY DoneFacts
<1>2. Room \in Nat /\ Room <= Top /\ MaxKey <= Room /\ Top \in Nat
  BY <1>1, CapFacts, CapTop DEF Room
<1>3. ASSUME NEW r \in Done
      PROVE  /\ Limit(r) \in Nat /\ Limit(r) <= Room
             /\ \A k \in Nat : k <= Limit(r) => Scratch(r, k) <= Room
  <2>1. n \in 1..MaxRecords /\ r \in Records
    BY <1>1 DEF Done
  <2>2. n - 1 \in 0..MaxRecords
    BY <2>1, Counts
  <2>3. Limit(r) = Cap[n - 1] /\ Room = Cap[n]
    BY DEF Limit, Room
  <2> HIDE DEF n
  <2> QED
    BY <2>1, <2>2, <2>3, CapFacts
<1>4. \A r \in Records : r \notin Done => Limit(r) = Room
  BY DEF Limit, Room
<1> QED
  BY <1>2, <1>3, <1>4

\* No step lowers a cap.
LEMMA RoomNext ==
  ASSUME IInv, [Next]_vars
  PROVE  /\ Room' \in Nat /\ Room <= Room'
         /\ \A r \in Records : Limit(r)' \in Nat /\ Limit(r) <= Limit(r)'
<1> DEFINE n == Cardinality(Done)
<1>1. Room \in Nat /\ \A r \in Records : Limit(r) \in Nat /\ Limit(r) <= Room
  BY RoomFacts
<1>2. CASE Done' = Done
  <2>1. Room' = Room
    BY <1>2 DEF Room
  <2>2. \A r \in Records : Limit(r)' = Limit(r)
    BY <1>2 DEF Limit
  <2> QED
    BY <1>1, <2>1, <2>2
<1>3. ASSUME NEW p \in Records \ Done, Done' = Done \cup {p}
      PROVE  /\ Room' \in Nat /\ Room <= Room'
             /\ \A r \in Records : Limit(r)' \in Nat /\ Limit(r) <= Limit(r)'
  <2>1. n + 1 \in 1..MaxRecords /\ Cardinality(Done') = n + 1 /\ n \in Nat
    BY <1>3, DoneFacts
  <2>2. n \in 0..MaxRecords /\ n + 1 \in 0..MaxRecords /\ (n + 1) - 1 = n
    BY <2>1, Counts
  <2>3. Room = Cap[n] /\ Room' = Cap[n + 1]
    BY <2>1 DEF Room
  <2>4. \A r \in Records : Limit(r)' \in {Cap[n], Cap[n + 1]}
    BY <2>1, <2>2 DEF Limit
  <2> HIDE DEF n
  <2>5. Cap[n] \in Nat /\ Cap[n + 1] \in Nat /\ Cap[n] <= Cap[n + 1]
    BY <2>1, <2>2, CapFacts
  <2> QED
    BY <1>1, <2>3, <2>4, <2>5
<1> QED
  BY <1>2, <1>3, DoneNext

\* What lets a step keep the caps: a new key in the bucket is not beyond, and
\* what a backup that has not succeeded lists and archives was in the bucket.
LEMMA CapMoved ==
  ASSUME IInv, CapInv, [Next]_vars,
         \A k \in bucket' \ bucket : k <= Room,
         \A r \in Records :
           /\ job'[r].cursor <= Room
           /\ \A k \in archive'[r] \cup job'[r].page :
                k \in archive[r] \cup job[r].page \/ (k \in bucket /\ r \notin Done)
  PROVE  CapInv'
<1>1. IInv'
  BY NextIInv
<1>2. /\ bucket \subseteq Nat /\ bucket' \subseteq Nat
      /\ \A r \in Records : /\ archive[r] \cup job[r].page \subseteq Nat
                            /\ archive'[r] \cup job'[r].page \subseteq Nat
                            /\ job'[r].cursor \in Nat
  BY <1>1 DEF IInv, TypeInv, KeysInv, Bounded, JobRecords
<1>3. /\ Room \in Nat /\ Room' \in Nat /\ Room <= Room'
      /\ \A r \in Records : /\ Limit(r) \in Nat /\ Limit(r)' \in Nat /\ Limit(r) <= Limit(r)'
                            /\ (r \notin Done => Limit(r) = Room)
  BY RoomFacts, RoomNext
<1>4. ASSUME NEW k \in bucket' PROVE k <= Room'
  <2>1. k \in Nat /\ k <= Room
    BY <1>2 DEF CapInv
  <2> QED
    BY <1>3, <2>1
<1>5. ASSUME NEW r \in Records, NEW k \in archive'[r] \cup job'[r].page PROVE k <= Limit(r)'
  <2>1. k \in Nat /\ k <= Limit(r)
    BY <1>2, <1>3 DEF CapInv
  <2> QED
    BY <1>3, <2>1
<1>6. \A r \in Records : job'[r].cursor <= Room'
  BY <1>2, <1>3
<1> QED
  BY <1>4, <1>5, <1>6 DEF CapInv

\* No step goes beyond the caps.
LEMMA CapNext ==
  ASSUME IInv, CapInv, TodoInv, [Next]_vars
  PROVE  CapInv'
<1> USE DEF IInv, TypeInv, histories
<1> DEFINE Still(r) ==
      /\ job'[r].cursor <= Room
      /\ \A k \in archive'[r] \cup job'[r].page :
           k \in archive[r] \cup job[r].page \/ (k \in bucket /\ r \notin Done)
<1>1. ASSUME NEW r \in Records, archive'[r] = archive[r],
             job'[r].page \subseteq job[r].page, job'[r].cursor \in {0, job[r].cursor}
      PROVE  Still(r)
  <2>1. 0 <= Room /\ job[r].cursor <= Room
    BY RoomFacts DEF CapInv
  <2> QED
    BY <1>1, <2>1
<1>2. ASSUME NEW k \in UserKeys, PutObject(k)
      PROVE  CapInv'
  <2>1. k <= Room
    BY RoomFacts, Counts DEF UserKeys
  <2>2. bucket' = bucket \cup {k} /\ \A r \in Records : Still(r)
    BY <1>1, <1>2 DEF PutObject
  <2> QED
    BY <2>1, <2>2, CapMoved
<1>3. ASSUME NEW k \in UserKeys, DeleteObject(k)
      PROVE  CapInv'
  <2>1. bucket' \subseteq bucket /\ \A r \in Records : Still(r)
    BY <1>1, <1>3 DEF DeleteObject
  <2> QED
    BY <2>1, CapMoved
<1>4. ASSUME NEW r \in Records, NEW type \in Types, StartBackup(r, type)
      PROVE  CapInv'
  <2>1. bucket' = bucket /\ \A q \in Records : Still(q)
    BY <1>1, <1>4 DEF StartBackup, JobRecords
  <2> QED
    BY <2>1, CapMoved
<1>5. ASSUME NEW r \in Records, Produce(r) \/ Seal(r) \/ SaveRecord(r) \/ ProduceFails(r) \/ BackupKilled(r)
      PROVE  CapInv'
  <2>1. bucket' = bucket /\ archive' = archive /\ \A q \in Records : q # r => job'[q] = job[q]
    BY <1>5 DEF Produce, Seal, SaveRecord, ProduceFails, GiveUp, BackupKilled
  <2>2. job'[r].page \subseteq job[r].page /\ job'[r].cursor \in {0, job[r].cursor}
    <3>1. CASE Produce(r)
      BY <3>1 DEF Produce, JobRecords
    <3>2. CASE Seal(r)
      BY <3>2 DEF Seal, JobRecords
    <3>3. CASE SaveRecord(r) \/ ProduceFails(r) \/ BackupKilled(r)
      <4>1. job'[r] = [NoJob EXCEPT !.at = "ended"]
        BY <3>3 DEF SaveRecord, ProduceFails, GiveUp, BackupKilled
      <4> QED
        BY <4>1 DEF NoJob
    <3> QED
      BY <1>5, <3>1, <3>2, <3>3
  <2>3. \A q \in Records : Still(q)
    BY <1>1, <2>1, <2>2
  <2> QED
    BY <2>1, <2>3, CapMoved
<1>6. ASSUME NEW r \in Records, ListPage(r)
      PROVE  CapInv'
  <2>1. bucket' = bucket /\ archive' = archive /\ \A q \in Records : q # r => job'[q] = job[q]
    BY <1>6 DEF ListPage
  <2>2. r \notin Done
    BY <1>6 DEF ListPage, StageInv, Done
  <2>3. Still(r)
    <3>1. CASE NextPage(r) = {}
      <4>1. job'[r].page = job[r].page /\ job'[r].cursor = job[r].cursor
        BY <1>6, <3>1 DEF ListPage, JobRecords
      <4> QED
        BY <1>1, <2>1, <4>1
    <3>2. CASE NextPage(r) # {}
      <4>1. job'[r].page = NextPage(r) /\ job'[r].cursor = Max(NextPage(r))
        BY <1>6, <3>2 DEF ListPage, JobRecords
      <4>2. NextPage(r) \subseteq bucket /\ Max(NextPage(r)) \in bucket
        BY <3>2, ListFacts
      <4> QED
        BY <2>1, <2>2, <4>1, <4>2 DEF CapInv
    <3> QED
      BY <3>1, <3>2
  <2>4. \A q \in Records : q # r => Still(q)
    BY <1>1, <2>1
  <2> QED
    BY <2>1, <2>3, <2>4, CapMoved
<1>7. ASSUME NEW r \in Records, ReadObject(r)
      PROVE  CapInv'
  <2>1. bucket' = bucket /\ \A q \in Records : q # r => job'[q] = job[q] /\ archive'[q] = archive[q]
    BY <1>7 DEF ReadObject, GiveUp
  <2>2. Still(r)
    <3>1. CASE GiveUp(r, {}) /\ UNCHANGED archive
      <4>1. job'[r] = [NoJob EXCEPT !.at = "ended"]
        BY <3>1 DEF GiveUp
      <4>2. job'[r].page \subseteq job[r].page /\ job'[r].cursor \in {0, job[r].cursor}
        BY <4>1 DEF NoJob
      <4> QED
        BY <1>1, <3>1, <4>2
    <3>2. CASE /\ archive' = [archive EXCEPT ![r] = @ \cup {Min(job[r].page)}]
               /\ job' = [job EXCEPT ![r].page = @ \ {Min(job[r].page)}]
      <4>1. Min(job[r].page) \in job[r].page
        BY <1>7, ReadFacts DEF ReadObject
      <4>2. /\ job'[r].page \subseteq job[r].page /\ job'[r].cursor = job[r].cursor
            /\ archive'[r] \subseteq archive[r] \cup job[r].page
        BY <3>2, <4>1 DEF JobRecords
      <4> QED
        BY <4>2 DEF CapInv
    <3> QED
      BY <1>7, <3>1, <3>2 DEF ReadObject
  <2>3. \A q \in Records : q # r => Still(q)
    BY <1>1, <2>1
  <2> QED
    BY <2>1, <2>2, <2>3, CapMoved
<1>8. ASSUME NEW v \in Verifiers, CopyObject(v)
      PROVE  CapInv'
  <2> DEFINE r == ver[v].r
             k == Min(ver[v].todo)
  <2>1. r \in Records /\ k \in ver[v].todo /\ k \in Nat
    BY <1>8, AtWorkFacts, CopyFacts DEF CopyObject
  <2>2. r \in Done /\ k \in archive[r]
    BY <2>1, Counts DEF TodoInv, Records
  <2>3. bucket' = bucket \cup {Scratch(r, k)} /\ UNCHANGED <<job, archive>>
    BY <1>8 DEF CopyObject
  <2> HIDE DEF r, k
  <2>4. Scratch(r, k) <= Room
    BY <2>1, <2>2, RoomFacts DEF CapInv
  <2>5. \A q \in Records : Still(q)
    BY <1>1, <2>3
  <2> QED
    BY <2>3, <2>4, <2>5, CapMoved
<1>9. ASSUME NEW v \in Verifiers,
             (\E type \in Types : StartVerify(v, type)) \/ CreateDatabase(v) \/ ReadBack(v)
             \/ Restored(v) \/ Cleanup(v) \/ SaveVerdict(v) \/ VerifyKilled(v)
      PROVE  CapInv'
  <2>1. bucket' \subseteq bucket /\ UNCHANGED <<job, archive>>
    BY <1>9 DEF StartVerify, CreateDatabase, ReadBack, Restored, Cleanup, SaveVerdict, VerifyKilled
  <2>2. \A q \in Records : Still(q)
    BY <1>1, <2>1
  <2> QED
    BY <2>1, <2>2, CapMoved
<1>10. ASSUME NEW r \in Records, OutsideFails(r)
      PROVE  CapInv'
  <2>1. /\ bucket' = bucket /\ archive' = archive /\ (\A q \in Records : q # r => job'[q] = job[q])
        /\ job'[r] = [NoJob EXCEPT !.at = "ended"]
    BY <1>10, OutsideFacts
  <2>2. job'[r].page \subseteq job[r].page /\ job'[r].cursor \in {0, job[r].cursor}
    BY <2>1 DEF NoJob
  <2>3. \A q \in Records : Still(q)
    BY <1>1, <2>1, <2>2
  <2> QED
    BY <2>1, <2>3, CapMoved
<1>11. ASSUME NEW v \in Verifiers, Unanswered(v)
      PROVE  CapInv'
  <2>1. UNCHANGED <<job, archive>>
    BY <1>11, UnansweredFacts
  <2>2. \A q \in Records : Still(q)
    BY <1>1, <2>1
  <2>3. CASE bucket' = bucket
    BY <2>2, <2>3, CapMoved
  <2>4. CASE \E k \in ver[v].todo : k \in Nat /\ bucket' = bucket \cup {Scratch(ver[v].r, k)}
    <3>1. PICK k \in ver[v].todo : k \in Nat /\ bucket' = bucket \cup {Scratch(ver[v].r, k)}
      BY <2>4
    <3>2. PICK r \in Records : r = ver[v].r
      BY <1>11, UnansweredFacts
    <3>3. r \in Done /\ k \in archive[r]
      BY <3>2, Counts DEF TodoInv, Records
    <3>4. Scratch(r, k) <= Room
      BY <3>1, <3>2, <3>3, RoomFacts DEF CapInv
    <3> QED
      BY <2>2, <3>1, <3>2, <3>4, CapMoved
  <2> QED
    BY <1>11, <2>3, <2>4, UnansweredFacts
<1>12. CASE UNCHANGED vars
  BY <1>12 DEF vars, CapInv, Room, Limit, Done
<1> QED
  BY <1>2, <1>3, <1>4, <1>5, <1>6, <1>7, <1>8, <1>9, <1>10, <1>11, <1>12 DEF Next, Backup, Verify

\* A verification goes on with an archive that no longer changes.
LEMMA TodoNext ==
  ASSUME IInv, TodoInv, [Next]_vars
  PROVE  TodoInv'
<1> USE DEF IInv, TypeInv, histories
<1>1. \A r \in Done : r \in Done'
  BY DoneNext
<1>2. ASSUME NEW r \in Done PROVE archive'[r] = archive[r]
  <2>1. ASSUME NEW q \in Records, ReadObject(q) PROVE q # r /\ \A p \in Records : p # q => archive'[p] = archive[p]
    BY <1>2, <2>1 DEF ReadObject, StageInv, Done
  <2>2. ASSUME NEW q \in Records, ReadObject(q) PROVE archive'[r] = archive[r]
    BY <1>2, <2>1, <2>2 DEF Done
  <2>3. (\E q \in Records : ReadObject(q)) \/ UNCHANGED archive
    BY DEF Next, Backup, Verify, vars, PutObject, DeleteObject, StartBackup, Produce, ListPage, Seal,
           SaveRecord, ProduceFails, OutsideFails, BackupKilled, StartVerify, CreateDatabase, CopyObject,
           Unanswered, ReadBack, Restored, Cleanup, SaveVerdict, VerifyKilled
  <2> QED
    BY <2>2, <2>3
<1>3. ASSUME NEW v \in Verifiers,
             ver'[v].r = ver[v].r /\ ver'[v].todo \subseteq ver[v].todo
      PROVE  IF ver'[v].r = 0 THEN ver'[v].todo = {}
             ELSE ver'[v].r \in Done' /\ ver'[v].todo \subseteq archive'[ver'[v].r]
  BY <1>1, <1>2, <1>3 DEF TodoInv
<1>4. CASE UNCHANGED ver
  BY <1>3, <1>4 DEF TodoInv
<1>5. ASSUME NEW v \in Verifiers, NEW type \in Types, StartVerify(v, type)
      PROVE  TodoInv'
  <2> DEFINE r == Max(Candidates(type))
  <2>1. r \in Done
    BY <1>5, VerifyFacts DEF StartVerify, Done
  <2>2. ver'[v].r = r /\ ver'[v].todo = archive[r] /\ \A w \in Verifiers : w # v => ver'[w] = ver[w]
    BY <1>5 DEF StartVerify, Resting, VerRecords
  <2>3. r # 0
    BY <2>1, Counts DEF Done, Records
  <2> HIDE DEF r
  <2>4. ver'[v].r # 0 /\ ver'[v].r \in Done' /\ ver'[v].todo \subseteq archive'[ver'[v].r]
    BY <1>1, <1>2, <2>1, <2>2, <2>3
  <2> QED
    BY <1>3, <2>2, <2>4 DEF TodoInv
<1>6. ASSUME NEW v \in Verifiers,
             CreateDatabase(v) \/ CopyObject(v) \/ ReadBack(v) \/ Restored(v) \/ Cleanup(v)
      PROVE  TodoInv'
  <2>1. \A w \in Verifiers : w # v => ver'[w] = ver[w]
    BY <1>6 DEF CreateDatabase, CopyObject, ReadBack, Restored, Cleanup
  <2>2. ver'[v].r = ver[v].r /\ ver'[v].todo \subseteq ver[v].todo
    BY <1>6 DEF CreateDatabase, CopyObject, ReadBack, Restored, Cleanup, VerRecords
  <2> QED
    BY <1>3, <2>1, <2>2 DEF TodoInv
<1>7. ASSUME NEW v \in Verifiers, SaveVerdict(v) \/ VerifyKilled(v)
      PROVE  TodoInv'
  <2>1. ver'[v].r = 0 /\ ver'[v].todo = {} /\ \A w \in Verifiers : w # v => ver'[w] = ver[w]
    BY <1>7 DEF SaveVerdict, VerifyKilled, Resting
  <2> QED
    BY <1>3, <2>1 DEF TodoInv
<1>8. ASSUME NEW v \in Verifiers, Unanswered(v)
      PROVE  TodoInv'
  <2>1. \A w \in Verifiers : ver'[w].r = ver[w].r /\ ver'[w].todo = ver[w].todo
    BY <1>8, UnansweredFacts
  <2> QED
    BY <1>3, <2>1 DEF TodoInv
<1> QED
  BY <1>4, <1>5, <1>6, <1>7, <1>8
  DEF Next, Backup, Verify, vars, PutObject, DeleteObject, StartBackup, Produce, ListPage, ReadObject,
      Seal, SaveRecord, ProduceFails, OutsideFails, BackupKilled

\* What backups and verifications have before them is finite.
LEMMA Sizes ==
  ASSUME IInv, CapInv, TodoInv
  PROVE  /\ Top \in Nat
         /\ \A r \in Records : /\ job[r].cursor \in 0..Top
                               /\ IsFiniteSet(job[r].page) /\ Cardinality(job[r].page) \in Nat
         /\ \A r \in Done : IsFiniteSet(archive[r]) /\ Cardinality(archive[r]) \in 0..(Top + 1)
         /\ \A v \in Verifiers :
              IsFiniteSet(ver[v].todo) /\ Cardinality(ver[v].todo) \in Nat
<1> USE DEF IInv, TypeInv
<1>1. /\ Top \in Nat /\ Room \in Nat /\ Room <= Top
      /\ \A r \in Records : Limit(r) \in Nat /\ Limit(r) <= Top
  BY RoomFacts
<1>2. IsFiniteSet(0..Top) /\ Cardinality(0..Top) = Top + 1
  <2>1. Cardinality(0..Top) = IF 0 > Top THEN 0 ELSE Top - 0 + 1
    BY <1>1, FS_Interval
  <2>2. IsFiniteSet(0..Top)
    BY <1>1, FS_Interval
  <2> QED
    BY <1>1, <2>1, <2>2
<1>3. ASSUME NEW S, S \subseteq 0..Top
      PROVE  IsFiniteSet(S) /\ Cardinality(S) \in 0..(Top + 1)
  <2>1. IsFiniteSet(S) /\ Cardinality(S) <= Cardinality(0..Top)
    BY <1>2, <1>3, FS_Subset
  <2>2. Cardinality(S) \in Nat
    BY <2>1, FS_CardinalityType
  <2> QED
    BY <1>1, <1>2, <2>1, <2>2
<1>4. ASSUME NEW r \in Records
      PROVE  /\ job[r].cursor \in 0..Top
             /\ job[r].page \subseteq 0..Top /\ archive[r] \subseteq 0..Top
  <2>1. /\ job[r].cursor \in Nat /\ job[r].cursor <= Room
        /\ archive[r] \cup job[r].page \subseteq Nat
        /\ \A k \in archive[r] \cup job[r].page : k <= Limit(r)
    BY DEF CapInv, JobRecords
  <2> QED
    BY <1>1, <2>1
<1>5. ASSUME NEW v \in Verifiers PROVE ver[v].todo \subseteq 0..Top
  <2>1. CASE ver[v].r = 0
    BY <2>1 DEF TodoInv
  <2>2. CASE ver[v].r # 0
    BY <1>4, <2>2 DEF TodoInv, Done
  <2> QED
    BY <2>1, <2>2
<1> QED
  BY <1>1, <1>3, <1>4, <1>5 DEF Done

\* The steps left of a backup are a number, none when it has ended.
LEMMA JobCount ==
  ASSUME IInv, CapInv, TodoInv, NEW r \in Records
  PROVE  JobSteps(r) \in Nat /\ (JobSteps(r) = 0 <=> job[r].at = "ended")
<1>1. Top \in Nat /\ job[r].cursor \in 0..Top /\ Cardinality(job[r].page) \in Nat
  BY Sizes
<1>2. job[r].at \in {"none", "produce", "list", "seal", "save", "ended"}
  BY DEF IInv, TypeInv, JobRecords
<1>3. CASE job[r].at = "list"
  <2>1. JobSteps(r) = 2 * (Top - job[r].cursor) + Cardinality(job[r].page) + 5
    BY <1>3 DEF JobSteps
  <2> QED
    BY <1>1, <1>3, <2>1
<1>4. CASE job[r].at = "none"
  <2>1. JobSteps(r) = 2 * Top + 6
    BY <1>4 DEF JobSteps
  <2> QED
    BY <1>1, <1>4, <2>1
<1> QED
  BY <1>2, <1>3, <1>4 DEF JobSteps

\* The steps left of a verification, likewise.
LEMMA VerCount ==
  ASSUME IInv, CapInv, TodoInv, NEW v \in Verifiers
  PROVE  VerSteps(v) \in Nat /\ (VerSteps(v) = 0 <=> ver[v].at = "ended")
<1>1. Top \in Nat /\ Cardinality(ver[v].todo) \in Nat
  BY Sizes
<1>2. ver[v].at \in {"none", "create", "copy", "reread", "cleanup", "save", "ended"}
  BY DEF IInv, TypeInv, VerRecords
<1> QED
  BY <1>1, <1>2 DEF VerSteps

\* A page that has been listed holds no more keys than the listing has passed,
\* so that reading them takes it no further than the listing has come.
LEMMA ListUses ==
  ASSUME IInv, CapInv, TodoInv, [Next]_vars, NEW r \in Records, ListPage(r)
  PROVE  JobSteps(r)' < JobSteps(r)
<1> USE DEF IInv, TypeInv
<1>1. Top \in Nat /\ job[r].cursor \in 0..Top
  BY Sizes
<1>2. job[r].at = "list" /\ job[r].page = {}
  BY DEF ListPage
<1>3. JobSteps(r) = 2 * (Top - job[r].cursor) + 5
  <2>1. Cardinality(job[r].page) = 0
    BY <1>2, FS_EmptySet, Zenon
  <2>2. JobSteps(r) = 2 * (Top - job[r].cursor) + Cardinality(job[r].page) + 5
    BY <1>2 DEF JobSteps
  <2> QED
    BY <1>1, <2>1, <2>2
<1>4. CASE NextPage(r) = {}
  <2>1. job'[r].at = "seal"
    BY <1>4 DEF ListPage, JobRecords
  <2>2. JobSteps(r)' = 3
    BY <2>1 DEF JobSteps
  <2> QED
    BY <1>1, <1>3, <2>2
<1>5. CASE NextPage(r) # {}
  <2> DEFINE c == job[r].cursor
             d == job'[r].cursor
             page == job'[r].page
  <2>1. job'[r].at = "list" /\ page = NextPage(r) /\ d = Max(NextPage(r))
    BY <1>2, <1>5 DEF ListPage, JobRecords
  <2>2. /\ d \in page /\ page \subseteq Nat
        /\ \A k \in page : c < k
    <3>1. \A k \in NextPage(r) : k > c /\ k \in Nat
      BY DEF NextPage, KeysInv, Bounded
    <3> QED
      BY <1>5, <2>1, <3>1, ListFacts
  <2>3. page \subseteq (c + 1)..d
    <3>1. Bounded(page)
      <4>1. Bounded(bucket) /\ page \subseteq bucket
        BY <2>1, ListFacts DEF KeysInv
      <4> QED
        BY <4>1, BoundedSets
    <3>2. \A k \in page : k <= d
      BY <2>1, <2>2, <3>1, MaxIn
    <3> QED
      BY <1>1, <2>2, <3>2
  <2>0. d \in 0..Top
    <3>1. d \in bucket /\ d \in Nat
      BY <2>1, <2>2, ListFacts
    <3>2. d <= Room /\ Room \in Nat /\ Room <= Top
      BY <3>1, RoomFacts DEF CapInv
    <3> QED
      BY <1>1, <3>1, <3>2
  <2>4. c \in 0..Top /\ d \in 0..Top /\ c < d /\ Top \in Nat
    BY <1>1, <2>0, <2>2
  <2>5. Cardinality(page) <= d - c /\ Cardinality(page) \in Nat
    <3> HIDE DEF c, d, page
    <3>1. c + 1 \in Int /\ d \in Int /\ ~ (c + 1 > d) /\ d - (c + 1) + 1 = d - c
      BY <2>4
    <3>2. IsFiniteSet((c + 1)..d)
      BY <3>1, FS_Interval
    <3>3. Cardinality((c + 1)..d) = d - c
      BY <3>1, FS_Interval
    <3>4. IsFiniteSet(page) /\ Cardinality(page) <= Cardinality((c + 1)..d)
      BY <2>3, <3>2, FS_Subset
    <3>5. Cardinality(page) \in Nat
      BY <3>4, FS_CardinalityType
    <3> QED
      BY <3>3, <3>4, <3>5
  <2>6. JobSteps(r)' = 2 * (Top - d) + Cardinality(page) + 5
    BY <2>1 DEF JobSteps
  <2>7. JobSteps(r) = 2 * (Top - c) + 5
    BY <1>3
  <2> HIDE DEF c, d, page
  <2> QED
    BY <2>4, <2>5, <2>6, <2>7
<1> QED
  BY <1>4, <1>5

\* Each step of a backup leaves it fewer; no other step gives it one back.
LEMMA JobDecreases ==
  ASSUME IInv, CapInv, TodoInv, [Next]_vars, NEW r \in Records
  PROVE  /\ Backup(r) => JobSteps(r)' < JobSteps(r)
         /\ job'[r] = job[r] \/ JobSteps(r)' < JobSteps(r)
<1> USE DEF IInv, TypeInv
<1>1. ASSUME NEW type \in Types, StartBackup(r, type)
      PROVE  JobSteps(r)' < JobSteps(r)
  <2>1. job[r].at = "none" /\ job[r].cursor = 0 /\ job[r].page = {} /\ Top \in Nat
    BY <1>1, Sizes DEF StartBackup, StageInv
  <2>2. job'[r].at \in {"list", "produce"} /\ job'[r].cursor = 0 /\ job'[r].page = {}
    BY <1>1, <2>1 DEF StartBackup, JobRecords
  <2>3. Cardinality(job'[r].page) = 0
    BY <2>2, FS_EmptySet, Zenon
  <2>4. JobSteps(r) = 2 * Top + 6
    BY <2>1 DEF JobSteps
  <2>5. CASE job'[r].at = "list"
    <3>1. JobSteps(r)' = 2 * (Top - job'[r].cursor) + Cardinality(job'[r].page) + 5
      BY <2>5 DEF JobSteps
    <3> QED
      BY <2>1, <2>2, <2>3, <2>4, <3>1
  <2>6. CASE job'[r].at = "produce"
    <3>1. JobSteps(r)' = 4
      BY <2>6 DEF JobSteps
    <3> QED
      BY <2>1, <2>4, <3>1
  <2> QED
    BY <2>2, <2>5, <2>6
<1>2. ASSUME job'[r] = [NoJob EXCEPT !.at = "ended"], job[r].at # "ended"
      PROVE  JobSteps(r)' < JobSteps(r)
  <2>1. JobSteps(r)' = 0
    BY <1>2 DEF JobSteps, NoJob
  <2> QED
    BY <1>2, <2>1, JobCount
<1>3. ASSUME SaveRecord(r) \/ ProduceFails(r) \/ OutsideFails(r) \/ BackupKilled(r)
      PROVE  JobSteps(r)' < JobSteps(r)
  <2>1. job'[r] = [NoJob EXCEPT !.at = "ended"] /\ job[r].at # "ended"
    BY <1>3 DEF SaveRecord, ProduceFails, GiveUp, OutsideFails, BackupKilled
  <2> QED
    BY <1>2, <2>1
<1>4. ASSUME Produce(r)
      PROVE  JobSteps(r)' < JobSteps(r)
  <2>1. job[r].at = "produce" /\ job'[r].at \in {"seal", "save"}
    BY <1>4 DEF Produce, JobRecords
  <2> QED
    BY <2>1 DEF JobSteps
<1>5. ASSUME Seal(r)
      PROVE  JobSteps(r)' < JobSteps(r)
  <2>1. job[r].at = "seal" /\ job'[r].at \in {"save", "ended"}
    BY <1>5 DEF Seal, JobRecords
  <2> QED
    BY <2>1 DEF JobSteps
<1>6. ASSUME ReadObject(r)
      PROVE  JobSteps(r)' < JobSteps(r)
  <2>1. job[r].at = "list" /\ Min(job[r].page) \in job[r].page
    BY <1>6, ReadFacts DEF ReadObject, StageInv
  <2>2. CASE GiveUp(r, {})
    <3>1. job'[r] = [NoJob EXCEPT !.at = "ended"]
      BY <2>2 DEF GiveUp
    <3> QED
      BY <1>2, <2>1, <3>1
  <2>3. CASE job' = [job EXCEPT ![r].page = @ \ {Min(job[r].page)}]
    <3> DEFINE k == Min(job[r].page)
    <3>1. /\ job'[r].at = "list" /\ job'[r].cursor = job[r].cursor
          /\ job'[r].page = job[r].page \ {k}
      BY <2>1, <2>3 DEF JobRecords
    <3>2. Top \in Nat /\ job[r].cursor \in 0..Top /\ Cardinality(job[r].page) \in Nat
      BY Sizes
    <3>3. IsFiniteSet(job[r].page)
      BY Sizes
    <3>0. k \in job[r].page
      BY <2>1
    <3> HIDE DEF k
    <3>4. Cardinality(job[r].page \ {k}) = Cardinality(job[r].page) - 1
      BY <3>0, <3>3, FS_RemoveElement
    <3>5. JobSteps(r) = 2 * (Top - job[r].cursor) + Cardinality(job[r].page) + 5
      BY <2>1 DEF JobSteps
    <3>6. JobSteps(r)' = 2 * (Top - job[r].cursor) + Cardinality(job[r].page \ {k}) + 5
      BY <3>1 DEF JobSteps
    <3> QED
      BY <3>2, <3>4, <3>5, <3>6
  <2> QED
    BY <1>6, <2>2, <2>3 DEF ReadObject
<1>7. ASSUME ListPage(r)
      PROVE  JobSteps(r)' < JobSteps(r)
  BY <1>7, ListUses
<1>8. ASSUME NEW q \in Records, q # r,
             (\E type \in Types : StartBackup(q, type)) \/ Backup(q)
             \/ ProduceFails(q) \/ OutsideFails(q) \/ BackupKilled(q)
      PROVE  job'[r] = job[r]
  BY <1>8 DEF StartBackup, Backup, Produce, ListPage, ReadObject, GiveUp, Seal, SaveRecord,
           ProduceFails, OutsideFails, BackupKilled
<1>9. ASSUME NEW k \in UserKeys, PutObject(k) \/ DeleteObject(k)
      PROVE  job'[r] = job[r]
  BY <1>9 DEF PutObject, DeleteObject
<1>10. ASSUME NEW v \in Verifiers,
              (\E type \in Types : StartVerify(v, type)) \/ Verify(v) \/ Unanswered(v) \/ VerifyKilled(v)
      PROVE  job'[r] = job[r]
  <2>1. CASE \E type \in Types : StartVerify(v, type)
    BY <2>1 DEF StartVerify
  <2>2. CASE Verify(v)
    <3>1. UNCHANGED job
      BY <2>2 DEF Verify, CreateDatabase, CopyObject, ReadBack, Restored, Cleanup, SaveVerdict
    <3> QED
      BY <3>1
  <2>3. CASE VerifyKilled(v)
    BY <2>3 DEF VerifyKilled
  <2>4. CASE Unanswered(v)
    BY <2>4 DEF Unanswered
  <2> QED
    BY <1>10, <2>1, <2>2, <2>3, <2>4
<1>11. ASSUME UNCHANGED vars
       PROVE  job'[r] = job[r]
  BY <1>11 DEF vars
<1>12. Backup(r) => JobSteps(r)' < JobSteps(r)
  BY <1>3, <1>4, <1>5, <1>6, <1>7 DEF Backup
<1>13. ASSUME NEW q \in Records,
             (\E type \in Types : StartBackup(q, type)) \/ Backup(q)
             \/ ProduceFails(q) \/ OutsideFails(q) \/ BackupKilled(q)
       PROVE  job'[r] = job[r] \/ JobSteps(r)' < JobSteps(r)
  <2>1. CASE q = r
    BY <1>1, <1>3, <1>12, <1>13, <2>1
  <2>2. CASE q # r
    BY <1>8, <1>13, <2>2
  <2> QED
    BY <2>1, <2>2
<1> QED
  BY <1>9, <1>10, <1>11, <1>12, <1>13 DEF Next

\* Each step of a verification leaves it fewer; no other step gives it one back.
LEMMA VerDecreases ==
  ASSUME IInv, CapInv, TodoInv, [Next]_vars, NEW v \in Verifiers
  PROVE  /\ Verify(v) => VerSteps(v)' < VerSteps(v)
         /\ ver'[v] = ver[v] \/ VerSteps(v)' < VerSteps(v)
<1> USE DEF IInv, TypeInv
<1>1. Top \in Nat /\ IsFiniteSet(ver[v].todo) /\ Cardinality(ver[v].todo) \in Nat
  BY Sizes
<1>2. ASSUME NEW type \in Types, StartVerify(v, type)
      PROVE  VerSteps(v)' < VerSteps(v)
  <2> DEFINE r == Max(Candidates(type))
             n == Cardinality(archive[r])
  <2>1. r \in Done
    BY <1>2, VerifyFacts DEF StartVerify, Done
  <2>2. n \in 0..(Top + 1)
    BY <2>1, Sizes
  <2>3. ver[v].at = "none" /\ ver'[v].at \in {"create", "copy"} /\ ver'[v].todo = archive[r]
    BY <1>2 DEF StartVerify, Resting, VerRecords
  <2>4. VerSteps(v) = 2 * Top + 10
    BY <2>3 DEF VerSteps
  <2>5. VerSteps(v)' = 2 * n + 7 \/ VerSteps(v)' = 2 * n + 5
    BY <2>3 DEF VerSteps
  <2> HIDE DEF n
  <2> QED
    BY <1>1, <2>2, <2>4, <2>5
<1>3. ASSUME CreateDatabase(v)
      PROVE  VerSteps(v)' < VerSteps(v)
  <2>1. ver[v].at = "create" /\ ver'[v].at \in {"copy", "save"} /\ ver'[v].todo = ver[v].todo
    BY <1>3 DEF CreateDatabase, VerRecords
  <2>2. VerSteps(v) = 2 * Cardinality(ver[v].todo) + 7
    BY <2>1 DEF VerSteps
  <2>3. VerSteps(v)' = 2 * Cardinality(ver[v].todo) + 5 \/ VerSteps(v)' = 2
    BY <2>1 DEF VerSteps
  <2> QED
    BY <1>1, <2>2, <2>3
<1>4. ASSUME CopyObject(v)
      PROVE  VerSteps(v)' < VerSteps(v)
  <2> DEFINE k == Min(ver[v].todo)
  <2>1. k \in ver[v].todo /\ ver[v].at = "copy"
    BY <1>4, CopyFacts DEF CopyObject
  <2>2. ver'[v].at = "reread" /\ ver'[v].todo = ver[v].todo \ {k}
    BY <1>4 DEF CopyObject, VerRecords
  <2> HIDE DEF k
  <2>3. Cardinality(ver[v].todo \ {k}) = Cardinality(ver[v].todo) - 1
    BY <1>1, <2>1, FS_RemoveElement
  <2>4. VerSteps(v) = 2 * Cardinality(ver[v].todo) + 5
    BY <2>1 DEF VerSteps
  <2>5. VerSteps(v)' = 2 * Cardinality(ver[v].todo \ {k}) + 6
    BY <2>2 DEF VerSteps
  <2> QED
    BY <1>1, <2>3, <2>4, <2>5
<1>5. ASSUME ReadBack(v) \/ Restored(v)
      PROVE  VerSteps(v)' < VerSteps(v)
  <2>1. \/ ver[v].at = "reread" /\ ver'[v].at \in {"copy", "cleanup"}
        \/ ver[v].at = "copy" /\ ver'[v].at = "cleanup"
    BY <1>5 DEF ReadBack, Restored, VerRecords
  <2>2. ver'[v].todo = ver[v].todo
    BY <1>5 DEF ReadBack, Restored, VerRecords
  <2> QED
    BY <1>1, <2>1, <2>2 DEF VerSteps
<1>6. ASSUME Cleanup(v) \/ SaveVerdict(v) \/ VerifyKilled(v)
      PROVE  VerSteps(v)' < VerSteps(v)
  <2>1. \/ ver[v].at = "cleanup" /\ ver'[v].at = "save"
        \/ ver[v].at \notin {"none", "ended"} /\ ver'[v].at = "ended"
    BY <1>6 DEF Cleanup, SaveVerdict, VerifyKilled, Resting, VerRecords
  <2>2. CASE ver[v].at = "cleanup" /\ ver'[v].at = "save"
    BY <2>2 DEF VerSteps
  <2>3. CASE ver[v].at \notin {"none", "ended"} /\ ver'[v].at = "ended"
    <3>1. VerSteps(v)' = 0
      BY <2>3 DEF VerSteps
    <3> QED
      BY <2>3, <3>1, VerCount
  <2> QED
    BY <2>1, <2>2, <2>3
<1>7. Verify(v) => VerSteps(v)' < VerSteps(v)
  BY <1>3, <1>4, <1>5, <1>6 DEF Verify
<1>0. ASSUME Unanswered(v)
       PROVE  VerSteps(v)' < VerSteps(v)
  <2>1. \/ ver[v].at = "create" /\ ver'[v].at = "save"
        \/ ver[v].at = "copy" /\ ver'[v].at = "cleanup"
    BY <1>0, UnansweredFacts
  <2> QED
    BY <1>1, <2>1 DEF VerSteps
<1>8. ASSUME NEW w \in Verifiers,
             (\E type \in Types : StartVerify(w, type)) \/ Verify(w) \/ Unanswered(w) \/ VerifyKilled(w)
      PROVE  ver'[v] = ver[v] \/ VerSteps(v)' < VerSteps(v)
  <2>1. CASE w = v
    BY <1>0, <1>2, <1>6, <1>7, <1>8, <2>1
  <2>2. CASE w # v
    <3>1. CASE \E type \in Types : StartVerify(w, type)
      BY <2>2, <3>1 DEF StartVerify
    <3>2. CASE VerifyKilled(w)
      BY <2>2, <3>2 DEF VerifyKilled
    <3>3. CASE Verify(w)
      BY <2>2, <3>3 DEF Verify, CreateDatabase, CopyObject, ReadBack, Restored, Cleanup, SaveVerdict
    <3>4. CASE Unanswered(w)
      BY <2>2, <3>4, UnansweredFacts
    <3> QED
      BY <1>8, <3>1, <3>2, <3>3, <3>4
  <2> QED
    BY <2>1, <2>2
<1>9. ASSUME NEW k \in UserKeys, PutObject(k) \/ DeleteObject(k)
      PROVE  ver'[v] = ver[v]
  BY <1>9 DEF PutObject, DeleteObject
<1>10. ASSUME NEW r \in Records, (\E type \in Types : StartBackup(r, type)) \/ ProduceFails(r)
              \/ OutsideFails(r) \/ BackupKilled(r)
       PROVE  ver'[v] = ver[v]
  BY <1>10 DEF StartBackup, ProduceFails, OutsideFails, BackupKilled
<1>11. ASSUME NEW r \in Records, Backup(r)
       PROVE  ver'[v] = ver[v]
  BY <1>11 DEF Backup, Produce, ListPage, ReadObject, Seal, SaveRecord
<1>12. ASSUME UNCHANGED vars
       PROVE  ver'[v] = ver[v]
  BY <1>12 DEF vars
<1> QED
  BY <1>7, <1>8, <1>9, <1>10, <1>11, <1>12 DEF Next

\* Backups and verifications are over within a number of steps that is fixed from
\* the start, 2 * Top + 6 and 2 * Top + 10, whatever users store and delete in
\* the meantime, whatever fails, and although listings meet the keys that
\* verifications make and archive them for later ones to restore (list_all_keys,
\* run_backup, verify_backup_restorable): the part of BackupsEnd that fairness
\* adds nothing to.
THEOREM BackupsAreBounded ==
  Spec => /\ [](/\ \A r \in Records : /\ JobSteps(r) \in 0 .. (2 * Top + 6)
                                      /\ JobSteps(r) = 0 <=> job[r].at = "ended"
                /\ \A v \in Verifiers : /\ VerSteps(v) \in 0 .. (2 * Top + 10)
                                        /\ VerSteps(v) = 0 <=> ver[v].at = "ended")
          /\ [][/\ \A r \in Records : Backup(r) \/ job'[r] # job[r] => JobSteps(r)' < JobSteps(r)
                /\ \A v \in Verifiers : Verify(v) \/ ver'[v] # ver[v] => VerSteps(v)' < VerSteps(v)]_vars
<1> DEFINE Few == /\ \A r \in Records : JobSteps(r) <= 2 * Top + 6
                  /\ \A v \in Verifiers : VerSteps(v) <= 2 * Top + 10
           Numbers == /\ \A r \in Records : JobSteps(r) \in Nat
                                            /\ (JobSteps(r) = 0 <=> job[r].at = "ended")
                      /\ \A v \in Verifiers : VerSteps(v) \in Nat
                                              /\ (VerSteps(v) = 0 <=> ver[v].at = "ended")
           Enough == /\ \A r \in Records : /\ JobSteps(r) \in 0 .. (2 * Top + 6)
                                           /\ JobSteps(r) = 0 <=> job[r].at = "ended"
                     /\ \A v \in Verifiers : /\ VerSteps(v) \in 0 .. (2 * Top + 10)
                                             /\ VerSteps(v) = 0 <=> ver[v].at = "ended"
           Used == /\ \A r \in Records : Backup(r) \/ job'[r] # job[r] => JobSteps(r)' < JobSteps(r)
                   /\ \A v \in Verifiers : Verify(v) \/ ver'[v] # ver[v] => VerSteps(v)' < VerSteps(v)
           Caps == IInv /\ CapInv /\ TodoInv
<1>0. Top \in Nat
  BY RoomFacts
<1>1. Init => Caps /\ Few
  <2> SUFFICES ASSUME Init PROVE CapInv /\ TodoInv /\ Few
    BY InitIInv
  <2>1. Done = {}
    BY DEF Init, NoRecord, Done
  <2>2. \A k \in 0..MaxKey : k <= Room /\ \A r \in Records : k <= Limit(r)
    <3>1. MaxKey <= Room /\ Room \in Nat /\ \A r \in Records : Limit(r) = Room
      BY <2>1, RoomFacts
    <3> QED
      BY <3>1, Counts
  <2>3. CapInv
    BY <2>2, Counts DEF Init, CapInv, NoJob, UserKeys
  <2>4. TodoInv
    BY DEF Init, TodoInv, Resting
  <2>5. Few
    BY <1>0 DEF Init, JobSteps, VerSteps, NoJob, Resting
  <2> QED
    BY <2>3, <2>4, <2>5
<1>2. Caps => Numbers
  BY JobCount, VerCount
<1>3. Caps /\ [Next]_vars => Caps'
  BY NextIInv, CapNext, TodoNext
<1>4. Caps /\ [Next]_vars => [Used]_vars
  BY JobDecreases, VerDecreases
<1>5. Few /\ Numbers /\ Numbers' /\ Caps /\ [Next]_vars => Few'
  <2> SUFFICES ASSUME Few, Numbers, Numbers', Caps, [Next]_vars PROVE Few'
    OBVIOUS
  <2>1. ASSUME NEW r \in Records PROVE JobSteps(r)' <= 2 * Top + 6
    <3>1. job'[r] = job[r] \/ JobSteps(r)' < JobSteps(r)
      BY JobDecreases
    <3>2. job'[r] = job[r] => JobSteps(r)' = JobSteps(r)
      BY DEF JobSteps
    <3> QED
      BY <1>0, <3>1, <3>2
  <2>2. ASSUME NEW v \in Verifiers PROVE VerSteps(v)' <= 2 * Top + 10
    <3>1. ver'[v] = ver[v] \/ VerSteps(v)' < VerSteps(v)
      BY VerDecreases
    <3>2. ver'[v] = ver[v] => VerSteps(v)' = VerSteps(v)
      BY DEF VerSteps
    <3> QED
      BY <1>0, <3>1, <3>2
  <2> QED
    BY <2>1, <2>2
<1>6. Few /\ Numbers => Enough
  BY <1>0
<1> QED
  BY <1>1, <1>2, <1>3, <1>4, <1>5, <1>6, PTL DEF Spec
=============================================================================
