--------------------------- MODULE FileStoreProofs ----------------------------
(***************************************************************************)
(* Proofs about FileStore, for every set of requests and places, both      *)
(* kinds of bucket and every set of faults.                                *)
(*                                                                         *)
(* The argument rests on keys: a key is named by rows and versions only    *)
(* after the upload that drew it has saved (Issued), and then only for the *)
(* file of that upload (Owner).  So a key about to be saved is new, and    *)
(* the key a version upload deletes is the key of no other file.           *)
(***************************************************************************)
EXTENDS FileStore, TLAPS

\* The keys that rows and versions may name, and the file each is content of.
Issued(k) == k = File0 \/ (Writes(k) /\ pc[k] \in {"drop", "done", "failed"})
Owner(k)  == IF k = File0 THEN File0 ELSE want[k].file

\* Which operation can stand at which stage.
StageInv ==
  \A r \in Requests :
    /\ pc[r] = "put" => Writes(r)
    /\ pc[r] = "get" => want[r].op = "download"
    /\ pc[r] = "save" => want[r].op # "download"
    /\ pc[r] = "idle" => want[r].op = "upload"
    /\ want[r].op = "upload" => want[r].file = r

KeyInv ==
  /\ \A f \in Files : Exists(f) => Issued(rows[f].key) /\ Owner(rows[f].key) = f
  /\ \A v \in versions : Issued(v.key) /\ Owner(v.key) = v.file
  /\ \A f \in Files : \A k \in reverted[f] : Issued(k) /\ Owner(k) = f /\ Exists(f)
  /\ \A r \in Requests : Exists(r) => want[r].op = "upload" /\ Issued(r)
  /\ \A r \in Requests : want[r].op # "upload" =>
       /\ Exists(want[r].file) /\ held[r].status # "none"
       /\ Issued(held[r].key) /\ Owner(held[r].key) = want[r].file

SumInv ==
  /\ \A f \in Files : rows[f].sum = rows[f].key
  /\ \A v \in versions : v.sum = v.key
  /\ \A r \in Requests : held[r].sum = held[r].key

IInv == TypeOK /\ StageInv /\ KeyInv /\ SumInv

-----------------------------------------------------------------------------
(***************************************************************************)
(* Facts about one step.                                                   *)
(***************************************************************************)

\* A key stays issued, and to the same file.
LEMMA IssuedStable ==
  ASSUME TypeOK, NEW r \in Requests, NEW k \in Keys, Issued(k),
         NEW stage, pc' = [pc EXCEPT ![r] = stage],
         want' = want \/ (pc[r] = "idle" /\ \E w : want' = [want EXCEPT ![r] = w]),
         pc[r] \in {"drop", "done", "failed"} => stage \in {"done", "failed"}
  PROVE  Issued(k)' /\ Owner(k)' = Owner(k)
<1> USE FileStoreAssumption
<1>1. CASE k = File0
  BY <1>1 DEF Issued, Owner
<1>2. CASE k # File0
  <2>1. k \in Requests /\ pc[k] \in {"drop", "done", "failed"} /\ Writes(k)
    BY <1>2 DEF Issued, Keys, Files
  <2>2. want'[k] = want[k]
    BY <2>1 DEF TypeOK
  <2>3. pc'[k] \in {"drop", "done", "failed"}
    BY <2>1 DEF TypeOK
  <2> QED
    BY <1>2, <2>1, <2>2, <2>3 DEF Issued, Owner, Writes
<1> QED
  BY <1>1, <1>2

\* The row a save writes.
LEMMA NewRowType ==
  ASSUME TypeOK, NEW r \in Requests
  PROVE  NewRow(r) \in Row
<1>1. want[r].file \in Files /\ want[r].place \in Places /\ held[r] \in Row /\ r \in Keys
  BY DEF TypeOK, Keys, Files
<1>2. Source(r) \in Row
  BY <1>1 DEF Source, TypeOK
<1>3. NewStatus(r) \in Statuses
  BY <1>1 DEF NewStatus, UploadStatus, Statuses, Row
<1> QED
  BY <1>1, <1>2, <1>3 DEF NewRow, Row

-----------------------------------------------------------------------------
(***************************************************************************)
(* IInv is inductive: one lemma per action, the steps that only move a     *)
(* request on together.                                                    *)
(***************************************************************************)

LEMMA InitIInv == Init => IInv
<1> SUFFICES ASSUME Init PROVE IInv
  OBVIOUS
<1> USE FileStoreAssumption DEF Files, Keys
<1>1. PICK p \in Places :
        /\ stored = {File0} /\ versions = {} /\ reverted = [f \in Files |-> {}]
        /\ rows = [f \in Files |-> [status |-> IF f = File0 THEN "active" ELSE "none",
                                    key |-> f, sum |-> f, place |-> p]]
        /\ want = [r \in Requests |-> [op |-> "upload", file |-> r, place |-> p,
                                       clean |-> TRUE]]
        /\ held = [r \in Requests |-> [status |-> IF r = File0 THEN "active" ELSE "none",
                                       key |-> r, sum |-> r, place |-> p]]
        /\ pc = [r \in Requests |-> "idle"]
  BY DEF Init
<1>2. TypeOK
  BY <1>1 DEF TypeOK, Row, Statuses, FirstStage
<1>3. StageInv
  BY <1>1 DEF StageInv
<1>4. KeyInv
  BY <1>1 DEF KeyInv, Exists, Issued, Owner
<1>5. SumInv
  BY <1>1 DEF SumInv
<1> QED
  BY <1>2, <1>3, <1>4, <1>5 DEF IInv

\* A step that only ends a request.
Moves(r) ==
  /\ UNCHANGED <<stored, rows, versions, reverted, want, held>>
  /\ pc[r] \in {"put", "save", "drop", "get"}
  /\ \E stage \in {"failed", "done", "missing"} :
       /\ GoTo(r, stage)
       /\ pc[r] # "get" => stage = "failed"
       /\ stage = "missing" => held[r].key \notin stored

LEMMA MoveCases ==
  ASSUME NEW r \in Requests,
         PutFails(r) \/ SaveFails(r) \/ DropFails(r) \/ Get(r) \/ Crash(r)
  PROVE  Moves(r)
BY DEF PutFails, SaveFails, DropFails, Get, Crash, Moves

LEMMA MoveIInv ==
  ASSUME IInv, NEW r \in Requests, Moves(r)
  PROVE  IInv'
<1> USE DEF IInv
<1>1. PICK stage \in {"failed", "done", "missing"} :
        pc' = [pc EXCEPT ![r] = stage] /\ (pc[r] # "get" => stage = "failed")
  BY DEF Moves, GoTo
<1>2. UNCHANGED <<stored, rows, versions, reverted, want, held>> /\ pc[r] \in {"put", "save", "drop", "get"}
  BY DEF Moves
<1>3. TypeOK'
  BY <1>1, <1>2 DEF TypeOK
<1>4. StageInv'
  BY <1>1, <1>2 DEF StageInv, TypeOK, Writes
<1>5. \A k \in Keys : Issued(k) => Issued(k)' /\ Owner(k)' = Owner(k)
  BY <1>1, <1>2, IssuedStable
<1>6. KeyInv'
  <2>1. \A f \in Files : rows[f].key \in Keys
    BY DEF TypeOK, Row
  <2>2. \A v \in versions : v.key \in Keys
    BY DEF TypeOK
  <2>3. \A q \in Requests : held[q].key \in Keys /\ q \in Keys
    BY DEF TypeOK, Row, Keys, Files
  <2>4. \A f \in Files : \A k \in reverted[f] : k \in Keys
    BY DEF TypeOK
  <2> QED
    BY <1>2, <1>5, <2>1, <2>2, <2>3, <2>4 DEF KeyInv, Exists
<1>7. SumInv'
  BY <1>2 DEF SumInv
<1> QED
  BY <1>3, <1>4, <1>6, <1>7

LEMMA BeginIInv ==
  ASSUME IInv, NEW r \in Requests, Begin(r)
  PROVE  IInv'
<1> USE DEF IInv
<1>1. PICK op \in DOMAIN FirstStage, f \in Files, p \in Places, c \in BOOLEAN :
        /\ IF op = "upload" THEN f = r ELSE Exists(f) /\ MayBegin(op, f)
        /\ op \notin {"upload", "patch"} => p = rows[f].place
        /\ op \notin {"upload", "version"} => c
        /\ want' = [want EXCEPT ![r] = [op |-> op, file |-> f, place |-> p, clean |-> c]]
        /\ held' = [held EXCEPT ![r] = rows[f]]
        /\ pc' = [pc EXCEPT ![r] = FirstStage[op]]
  BY DEF Begin, GoTo
<1>2. pc[r] = "idle" /\ UNCHANGED <<stored, rows, versions, reverted>>
  BY DEF Begin
<1>3. op \in {"upload", "version", "patch", "delete", "restore", "download"}
      /\ FirstStage[op] = IF op \in {"upload", "version"} THEN "put"
                          ELSE IF op = "download" THEN "get" ELSE "save"
  BY <1>1 DEF FirstStage
<1>4. TypeOK'
  BY <1>1, <1>2, <1>3 DEF TypeOK, Row
<1>5. StageInv'
  BY <1>1, <1>2, <1>3 DEF StageInv, TypeOK, Writes
<1>6. \A k \in Keys : Issued(k) => Issued(k)' /\ Owner(k)' = Owner(k)
  BY <1>1, <1>2, IssuedStable
<1>7. \A g \in Files : rows[g].key \in Keys
  BY DEF TypeOK, Row
<1>8. KeyInv'
  <2>1. \A v \in versions : v.key \in Keys
    BY DEF TypeOK
  <2>2. \A q \in Requests : held[q].key \in Keys /\ q \in Keys
    BY DEF TypeOK, Row, Keys, Files
  <2>3. ~Exists(r)
    BY <1>2, FileStoreAssumption DEF KeyInv, Issued
  <2>4. \A q \in Requests : q # r => want'[q] = want[q] /\ held'[q] = held[q]
    BY <1>1 DEF TypeOK
  <2>5. want'[r].op = op /\ want'[r].file = f /\ held'[r] = rows[f]
    BY <1>1 DEF TypeOK
  <2>6. ASSUME want'[r].op # "upload"
        PROVE  /\ rows'[want'[r].file].status # "none" /\ held'[r].status # "none"
               /\ Issued(held[r].key)' /\ Owner(held[r].key)' = want'[r].file
    <3>1. Exists(f) /\ Issued(rows[f].key) /\ Owner(rows[f].key) = f
      BY <1>1, <2>5, <2>6 DEF KeyInv
    <3> QED
      BY <1>2, <1>6, <1>7, <2>5, <3>1 DEF Exists
  <2>7. \A g \in Files : Exists(g)' => Issued(rows[g].key)' /\ Owner(rows[g].key)' = g
    BY <1>2, <1>6, <1>7 DEF KeyInv, Exists
  <2>8. \A v \in versions' : Issued(v.key)' /\ Owner(v.key)' = v.file
    BY <1>2, <1>6, <2>1 DEF KeyInv
  <2>9. \A q \in Requests : Exists(q)' => want'[q].op = "upload" /\ Issued(q)'
    BY <1>2, <1>6, <2>2, <2>3, <2>4 DEF KeyInv, Exists
  <2>10. ASSUME NEW q \in Requests, q # r, want'[q].op # "upload"
         PROVE  /\ rows'[want'[q].file].status # "none" /\ held'[q].status # "none"
                /\ Issued(held[q].key)' /\ Owner(held[q].key)' = want'[q].file
    BY <1>2, <1>6, <2>2, <2>4, <2>10 DEF KeyInv, Exists
  <2>11. ASSUME NEW q \in Requests, want'[q].op # "upload"
         PROVE  /\ rows'[want'[q].file].status # "none" /\ held'[q].status # "none"
                /\ Issued(held[q].key)' /\ Owner(held[q].key)' = want'[q].file
    BY <2>6, <2>10, <2>11
  <2>12. ASSUME NEW g \in Files, NEW k \in reverted'[g]
         PROVE  Issued(k)' /\ Owner(k)' = g /\ Exists(g)'
    <3>1. k \in Keys /\ Issued(k) /\ Owner(k) = g /\ Exists(g)
      BY <1>2, <2>12 DEF TypeOK, KeyInv
    <3> QED
      BY <1>2, <1>6, <3>1 DEF Exists
  <2> QED
    BY <2>7, <2>8, <2>9, <2>11, <2>12 DEF KeyInv, Exists
<1>9. SumInv'
  BY <1>1, <1>2 DEF SumInv, TypeOK
<1> QED
  BY <1>4, <1>5, <1>8, <1>9

LEMMA PutIInv ==
  ASSUME IInv, NEW r \in Requests, Put(r)
  PROVE  IInv'
<1> USE DEF IInv
<1>1. PICK stage \in {"save", "failed"} : pc' = [pc EXCEPT ![r] = stage]
  BY DEF Put, GoTo
<1>2. /\ pc[r] = "put" /\ stored' = stored \cup {r}
      /\ UNCHANGED <<rows, versions, reverted, want, held>>
  BY DEF Put
<1>3. TypeOK'
  BY <1>1, <1>2 DEF TypeOK, Keys, Files
<1>4. StageInv'
  BY <1>1, <1>2 DEF StageInv, TypeOK, Writes
<1>5. \A k \in Keys : Issued(k) => Issued(k)' /\ Owner(k)' = Owner(k)
  BY <1>1, <1>2, IssuedStable
<1>6. KeyInv'
  <2>1. \A f \in Files : rows[f].key \in Keys
    BY DEF TypeOK, Row
  <2>2. \A v \in versions : v.key \in Keys
    BY DEF TypeOK
  <2>3. \A q \in Requests : held[q].key \in Keys /\ q \in Keys
    BY DEF TypeOK, Row, Keys, Files
  <2>4. \A f \in Files : \A k \in reverted[f] : k \in Keys
    BY DEF TypeOK
  <2> QED
    BY <1>2, <1>5, <2>1, <2>2, <2>3, <2>4 DEF KeyInv, Exists
<1>7. SumInv'
  BY <1>2 DEF SumInv
<1> QED
  BY <1>3, <1>4, <1>6, <1>7

LEMMA DropIInv ==
  ASSUME IInv, NEW r \in Requests, Drop(r)
  PROVE  IInv'
<1> USE DEF IInv
<1>1. PICK stage \in {"done", "failed"} : pc' = [pc EXCEPT ![r] = stage]
  BY DEF Drop, GoTo
<1>2. /\ pc[r] = "drop" /\ stored' \subseteq stored
      /\ UNCHANGED <<rows, versions, reverted, want, held>>
  BY DEF Drop
<1>3. TypeOK'
  BY <1>1, <1>2 DEF TypeOK
<1>4. StageInv'
  BY <1>1, <1>2 DEF StageInv, TypeOK, Writes
<1>5. \A k \in Keys : Issued(k) => Issued(k)' /\ Owner(k)' = Owner(k)
  BY <1>1, <1>2, IssuedStable
<1>6. KeyInv'
  <2>1. \A f \in Files : rows[f].key \in Keys
    BY DEF TypeOK, Row
  <2>2. \A v \in versions : v.key \in Keys
    BY DEF TypeOK
  <2>3. \A q \in Requests : held[q].key \in Keys /\ q \in Keys
    BY DEF TypeOK, Row, Keys, Files
  <2>4. \A f \in Files : \A k \in reverted[f] : k \in Keys
    BY DEF TypeOK
  <2> QED
    BY <1>2, <1>5, <2>1, <2>2, <2>3, <2>4 DEF KeyInv, Exists
<1>7. SumInv'
  BY <1>2 DEF SumInv
<1> QED
  BY <1>3, <1>4, <1>6, <1>7

\* What Save does, without its disjunctions.
LEMMA SaveFacts ==
  ASSUME IInv, NEW r \in Requests, Save(r)
  PROVE  /\ pc[r] = "save" /\ Accepts(r)
         /\ want[r].file \in Files /\ held[r] \in Row /\ held[r].key \in Keys
         /\ rows' = [rows EXCEPT ![want[r].file] = NewRow(r)]
         /\ NewRow(r) \in Row
         /\ \A f \in Files : f # want[r].file => rows'[f] = rows[f]
         /\ rows'[want[r].file] = NewRow(r)
         /\ versions' = IF KeepsVersion(r) THEN versions \cup {OldVersion(r)} ELSE versions
         /\ reverted' = [reverted EXCEPT ![want[r].file] = @ \cup Displaced(r)]
         /\ \A f \in Files : f # want[r].file => reverted'[f] = reverted[f]
         /\ reverted'[want[r].file] = reverted[want[r].file] \cup Displaced(r)
         /\ UNCHANGED <<stored, want, held>>
         /\ \E stage \in {"drop", "done", "failed"} :
              /\ pc' = [pc EXCEPT ![r] = stage]
              /\ stage = "drop" => DropsOld(r)
              /\ stage = "done" => ~DropsOld(r)
<1>1. want[r].file \in Files /\ held[r] \in Row /\ held[r].key \in Keys
  BY DEF IInv, TypeOK, Row
<1>2. NewRow(r) \in Row
  BY NewRowType DEF IInv
<1>3. rows' = [rows EXCEPT ![want[r].file] = NewRow(r)]
  BY DEF Save
<1>4. /\ \A f \in Files : f # want[r].file => rows'[f] = rows[f]
      /\ rows'[want[r].file] = NewRow(r)
  BY <1>1, <1>3 DEF IInv, TypeOK
<1>5. versions' = IF KeepsVersion(r) THEN versions \cup {OldVersion(r)} ELSE versions
  BY DEF Save
<1>6. \E stage \in {"drop", "done", "failed"} :
        /\ pc' = [pc EXCEPT ![r] = stage]
        /\ stage = "drop" => DropsOld(r)
        /\ stage = "done" => ~DropsOld(r)
  BY DEF Save, GoTo
<1>7. reverted' = [reverted EXCEPT ![want[r].file] = @ \cup Displaced(r)]
  BY DEF Save
<1>8. /\ \A f \in Files : f # want[r].file => reverted'[f] = reverted[f]
      /\ reverted'[want[r].file] = reverted[want[r].file] \cup Displaced(r)
  BY <1>1, <1>7 DEF IInv, TypeOK
<1>9. pc[r] = "save" /\ Accepts(r) /\ UNCHANGED <<stored, want, held>>
  BY DEF Save
<1> QED
  BY <1>1, <1>2, <1>3, <1>4, <1>5, <1>6, <1>7, <1>8, <1>9

LEMMA SaveIInv ==
  ASSUME IInv, NEW r \in Requests, Save(r)
  PROVE  IInv'
<1> DEFINE f == want[r].file
<1> USE DEF IInv
<1>1. /\ pc[r] = "save" /\ f \in Files /\ held[r] \in Row /\ held[r].key \in Keys
      /\ NewRow(r) \in Row /\ rows'[f] = NewRow(r)
      /\ \A g \in Files : g # f => rows'[g] = rows[g]
      /\ versions' = IF KeepsVersion(r) THEN versions \cup {OldVersion(r)} ELSE versions
      /\ UNCHANGED <<stored, want, held>>
  BY SaveFacts
<1>2. PICK stage \in {"drop", "done", "failed"} :
        pc' = [pc EXCEPT ![r] = stage] /\ (stage = "drop" => DropsOld(r))
  BY SaveFacts
<1>3. rows' \in [Files -> Row]
  <2>1. rows' = [rows EXCEPT ![f] = NewRow(r)]
    BY DEF Save
  <2>2. rows \in [Files -> Row] /\ NewRow(r) \in Row
    BY <1>1 DEF TypeOK
  <2> HIDE DEF f, IInv
  <2> QED
    BY ONLY <2>1, <2>2
<1>4. TypeOK'
  <2>1. versions' \in SUBSET [file : Files, key : Keys, sum : Keys]
    BY <1>1 DEF TypeOK, OldVersion, Row
  <2>2. \A q \in Requests : pc'[q] = "drop" => want[q].op = "version" /\ ~Versioning
    BY <1>2 DEF TypeOK, DropsOld
  <2>3. reverted' \in [Files -> SUBSET Keys]
    <3>1. Displaced(r) \subseteq Keys
      BY <1>1 DEF Displaced, TypeOK, Row
    <3>2. reverted' = [reverted EXCEPT ![f] = @ \cup Displaced(r)]
      BY SaveFacts
    <3> QED
      BY <3>1, <3>2 DEF TypeOK
  <2> QED
    BY <1>1, <1>2, <1>3, <2>1, <2>2, <2>3 DEF TypeOK
<1>5. StageInv'
  BY <1>1, <1>2 DEF StageInv, TypeOK, Writes
<1>6. \A k \in Keys : Issued(k) => Issued(k)' /\ Owner(k)' = Owner(k)
  BY <1>1, <1>2, IssuedStable
<1>7. r \in Keys /\ r # File0
  BY FileStoreAssumption DEF Keys, Files
<1>8. Writes(r) => Issued(r)' /\ Owner(r)' = f
  BY <1>1, <1>2, <1>7 DEF Issued, Owner, Writes, TypeOK
<1>9. ~Writes(r) => Exists(f) /\ Issued(Source(r).key) /\ Owner(Source(r).key) = f
                    /\ Source(r).status # "none" /\ Source(r).key \in Keys
  BY <1>1 DEF KeyInv, Writes, Source, Exists, TypeOK, Row
<1>10. PICK k \in Keys : k = NewRow(r).key /\ Issued(k)' /\ Owner(k)' = f
  BY <1>6, <1>7, <1>8, <1>9 DEF NewRow
<1>11. NewRow(r).status # "none" /\ NewRow(r).sum = k
  <2>1. NewStatus(r) # "none"
    BY <1>1, <1>9 DEF NewStatus, UploadStatus, Source, Writes
  <2>2. Source(r).sum = Source(r).key
    BY <1>1 DEF SumInv, Source
  <2> QED
    BY <1>10, <2>1, <2>2 DEF NewRow
<1>12. rows'[f].key = k /\ rows'[f].sum = k /\ rows'[f].status # "none"
  BY <1>1, <1>10, <1>11
<1>13. KeyInv'
  <2>1. ASSUME NEW g \in Files, rows'[g].status # "none"
        PROVE  Issued(rows[g].key)' /\ Owner(rows[g].key)' = g
    <3>1. CASE g = f
      BY <1>10, <1>12, <3>1
    <3>2. CASE g # f
      <4>1. Issued(rows[g].key) /\ Owner(rows[g].key) = g /\ rows[g].key \in Keys
        BY <1>1, <2>1, <3>2 DEF KeyInv, Exists, TypeOK, Row
      <4> QED
        BY <1>1, <1>6, <3>2, <4>1
    <3> QED
      BY <3>1, <3>2
  <2>2. ASSUME NEW v \in versions'
        PROVE  Issued(v.key)' /\ Owner(v.key)' = v.file
    <3>1. CASE v \in versions
      <4>1. Issued(v.key) /\ Owner(v.key) = v.file /\ v.key \in Keys
        BY <3>1 DEF KeyInv, TypeOK
      <4> QED
        BY <1>6, <4>1
    <3>2. CASE KeepsVersion(r) /\ v = OldVersion(r)
      <4>1. v.key = held[r].key /\ v.file = f /\ want[r].op # "upload"
        BY <3>2 DEF OldVersion, KeepsVersion
      <4>2. Issued(held[r].key) /\ Owner(held[r].key) = f
        BY <4>1 DEF KeyInv
      <4> QED
        BY <1>1, <1>6, <4>1, <4>2
    <3> QED
      BY <1>1, <3>1, <3>2
  <2>3. ASSUME NEW q \in Requests, rows'[q].status # "none"
        PROVE  want[q].op = "upload" /\ Issued(q)'
    <3>1. CASE Exists(q)
      <4>1. want[q].op = "upload" /\ Issued(q) /\ q \in Keys
        BY <3>1 DEF KeyInv, Keys, Files
      <4> QED
        BY <1>6, <4>1
    <3>2. CASE ~Exists(q)
      <4>1. q = f
        BY <1>1, <2>3, <3>2 DEF Exists, Files
      <4>2. Writes(r) /\ want[r].op = "upload"
        BY <1>9, <3>2, <4>1 DEF KeyInv, Writes
      <4>3. q = r
        BY <4>1, <4>2 DEF StageInv
      <4> QED
        BY <1>8, <4>2, <4>3
    <3> QED
      BY <3>1, <3>2
  <2>4. ASSUME NEW q \in Requests, want[q].op # "upload"
        PROVE  /\ rows'[want[q].file].status # "none" /\ held[q].status # "none"
               /\ Issued(held[q].key)' /\ Owner(held[q].key)' = want[q].file
    <3>1. /\ Exists(want[q].file) /\ held[q].status # "none"
          /\ Issued(held[q].key) /\ Owner(held[q].key) = want[q].file
          /\ held[q].key \in Keys /\ want[q].file \in Files
      BY <2>4 DEF KeyInv, TypeOK, Row
    <3>2. rows'[want[q].file].status # "none"
      BY <1>1, <1>12, <3>1 DEF Exists
    <3> QED
      BY <1>1, <1>6, <3>1, <3>2
  <2>5. ASSUME NEW g \in Files, NEW j \in reverted'[g]
        PROVE  Issued(j)' /\ Owner(j)' = g /\ Exists(g)'
    <3>1. CASE j \in reverted[g]
      <4>1. j \in Keys /\ Issued(j) /\ Owner(j) = g /\ Exists(g)
        BY <3>1 DEF TypeOK, KeyInv
      <4>2. Exists(g)'
        BY <1>1, <1>12, <4>1 DEF Exists
      <4> QED
        BY <1>6, <4>1, <4>2
    <3>2. CASE j \notin reverted[g]
      <4>1. g = f /\ j = rows[f].key /\ want[r].op = "patch"
        BY <2>5, <3>2, SaveFacts DEF Displaced
      <4>2. Exists(f) /\ Issued(j) /\ Owner(j) = f /\ j \in Keys
        BY <1>1, <4>1 DEF KeyInv, TypeOK, Row
      <4> QED
        BY <1>6, <1>12, <4>1, <4>2 DEF Exists
    <3> QED
      BY <3>1, <3>2
  <2> QED
    BY <1>1, <2>1, <2>2, <2>3, <2>4, <2>5 DEF KeyInv, Exists
<1>14. SumInv'
  <2>1. \A g \in Files : rows'[g].sum = rows'[g].key
    BY <1>1, <1>12 DEF SumInv
  <2>2. \A v \in versions' : v.sum = v.key
    BY <1>1 DEF SumInv, OldVersion
  <2> QED
    BY <1>1, <2>1, <2>2 DEF SumInv
<1> QED
  BY <1>4, <1>5, <1>13, <1>14

LEMMA NextIInv == IInv /\ [Next]_vars => IInv'
<1> SUFFICES ASSUME IInv, [Next]_vars PROVE IInv'
  OBVIOUS
<1>1. CASE UNCHANGED vars
  BY <1>1 DEF vars, IInv, TypeOK, StageInv, KeyInv, SumInv, Exists, Issued, Owner, Writes
<1>2. CASE \E r \in Requests : Begin(r)
  BY <1>2, BeginIInv
<1>3. CASE \E r \in Requests : Put(r)
  BY <1>3, PutIInv
<1>4. CASE \E r \in Requests : Save(r)
  BY <1>4, SaveIInv
<1>5. CASE \E r \in Requests : Drop(r)
  BY <1>5, DropIInv
<1>6. CASE \E r \in Requests : PutFails(r) \/ SaveFails(r) \/ DropFails(r) \/ Get(r) \/ Crash(r)
  BY <1>6, MoveCases, MoveIInv
<1>7. CASE Ended
  BY <1>1, <1>7 DEF Ended
<1> QED
  BY <1>1, <1>2, <1>3, <1>4, <1>5, <1>6, <1>7 DEF Next

\* IInv holds in every reachable state.
THEOREM Invariant == Spec => []IInv
BY InitIInv, NextIInv, PTL DEF Spec

-----------------------------------------------------------------------------
\* The variables keep their types, and only version uploads to unversioned
\* buckets get as far as deleting an object (upload_new_version).
THEOREM TypeCorrect == Spec => []TypeOK
<1>1. IInv => TypeOK
  BY DEF IInv
<1> QED
  BY <1>1, Invariant, PTL

\* Whatever fails and whichever requests overlap, the checksum in a row or a
\* version is that of the object it names: no save mixes the two fields of
\* different uploads (upload_new_version, FileDetailView.patch).
THEOREM ChecksumsCorrect == Spec => []ChecksumsMatch
<1>1. IInv => ChecksumsMatch
  BY DEF IInv, SumInv, ChecksumsMatch
<1> QED
  BY <1>1, Invariant, PTL

-----------------------------------------------------------------------------
(***************************************************************************)
(* What every step leaves as it is: the wishes and copies of requests that *)
(* have begun, and the end of those that ended.                            *)
(***************************************************************************)
Onward ==
  \A q \in Requests : pc[q] # "idle" =>
    /\ want'[q] = want[q] /\ held'[q] = held[q] /\ pc'[q] # "idle"
    /\ pc[q] \in {"done", "failed", "missing"} => pc'[q] = pc[q]
    /\ pc[q] = "drop" => pc'[q] \in {"drop", "done", "failed"}
    /\ pc[q] \notin {"idle", "put"} => pc'[q] # "put"

\* A begin concerns a request that was idle; its copy is the row it loaded.
LEMMA BeginFacts ==
  ASSUME IInv, NEW r \in Requests, Begin(r)
  PROVE  /\ Onward /\ pc[r] = "idle" /\ UNCHANGED <<stored, rows, versions, reverted>>
         /\ \A q \in Requests : q # r => want'[q] = want[q] /\ held'[q] = held[q]
                                         /\ pc'[q] = pc[q]
         /\ want'[r].file \in Files /\ held'[r] = rows[want'[r].file]
         /\ want'[r].op # "upload" => Exists(want'[r].file)
         /\ pc'[r] \in {"put", "save", "get"} /\ (pc'[r] = "get" => want'[r].op # "upload")
         /\ pc'[r] = "save" => ~Writes(r)'
<1>1. PICK op \in DOMAIN FirstStage, f \in Files, p \in Places, c \in BOOLEAN :
        /\ IF op = "upload" THEN f = r ELSE Exists(f) /\ MayBegin(op, f)
        /\ op \notin {"upload", "patch"} => p = rows[f].place
        /\ op \notin {"upload", "version"} => c
        /\ want' = [want EXCEPT ![r] = [op |-> op, file |-> f, place |-> p, clean |-> c]]
        /\ held' = [held EXCEPT ![r] = rows[f]]
        /\ pc' = [pc EXCEPT ![r] = FirstStage[op]]
  BY DEF Begin, GoTo
<1>2. pc[r] = "idle" /\ UNCHANGED <<stored, rows, versions, reverted>>
  BY DEF Begin
<1>3. /\ FirstStage[op] \in {"put", "save", "get"} /\ (FirstStage[op] = "get" => op # "upload")
      /\ FirstStage[op] = "save" => op \notin {"upload", "version"}
  BY DEF FirstStage
<1>4. \A q \in Requests : q # r => want'[q] = want[q] /\ held'[q] = held[q]
                                    /\ pc'[q] = pc[q]
  BY <1>1 DEF IInv, TypeOK
<1>5. want'[r].op = op /\ want'[r].file = f /\ held'[r] = rows[f] /\ pc'[r] = FirstStage[op]
  BY <1>1 DEF IInv, TypeOK
<1> QED
  BY <1>1, <1>2, <1>3, <1>4, <1>5 DEF Onward, Writes

\* A step that only moves request r on.
LEMMA MovesOnward ==
  ASSUME IInv, NEW r \in Requests, pc[r] \in {"put", "save", "drop", "get"},
         UNCHANGED <<want, held>>,
         NEW stage \in {"save", "drop", "failed", "done", "missing"},
         pc[r] = "drop" => stage \in {"failed", "done"},
         pc' = [pc EXCEPT ![r] = stage]
  PROVE  Onward /\ pc'[r] = stage /\ \A q \in Requests : q # r => pc'[q] = pc[q]
BY DEF IInv, TypeOK, Onward

\* The steps that save nothing.
LEMMA QuietFacts ==
  ASSUME IInv, NEW r \in Requests, Begin(r) \/ Put(r) \/ Drop(r) \/ Moves(r)
  PROVE  /\ Onward /\ UNCHANGED <<rows, versions, reverted>>
         /\ \A q \in Requests : pc[q] = "idle" =>
              \/ want'[q] = want[q] /\ held'[q] = held[q] /\ pc'[q] = pc[q]
              \/ /\ held'[q] = rows[want'[q].file] /\ pc'[q] \in {"put", "save", "get"}
                 /\ want'[q].op # "upload" => Exists(want'[q].file)
         /\ \A q \in Requests : Writes(q)' /\ pc'[q] \in {"drop", "done"} =>
              pc[q] \in {"drop", "done"}
<1>1. CASE Begin(r)
  <2>1. /\ Onward /\ pc[r] = "idle" /\ UNCHANGED <<rows, versions, reverted>>
        /\ \A q \in Requests : q # r => want'[q] = want[q] /\ held'[q] = held[q]
                                        /\ pc'[q] = pc[q]
        /\ held'[r] = rows[want'[r].file]
        /\ want'[r].op # "upload" => Exists(want'[r].file)
        /\ pc'[r] \in {"put", "save", "get"}
    BY <1>1, BeginFacts
  <2> QED
    BY <2>1
<1>2. CASE Put(r) \/ Drop(r) \/ Moves(r)
  <2>1. /\ UNCHANGED <<rows, versions, reverted, want, held>>
        /\ pc[r] \in {"put", "save", "drop", "get"}
        /\ \E stage \in {"save", "failed", "done", "missing"} :
             /\ pc' = [pc EXCEPT ![r] = stage]
             /\ pc[r] = "drop" => stage \in {"failed", "done"}
             /\ stage = "done" => pc[r] \in {"drop", "get"}
    BY <1>2 DEF Put, Drop, Moves, GoTo
  <2>2. PICK stage \in {"save", "failed", "done", "missing"} :
          /\ pc' = [pc EXCEPT ![r] = stage]
          /\ pc[r] = "drop" => stage \in {"failed", "done"}
          /\ stage = "done" => pc[r] \in {"drop", "get"}
    BY <2>1
  <2>3. Onward /\ pc'[r] = stage /\ \A q \in Requests : q # r => pc'[q] = pc[q]
    BY <2>1, <2>2, MovesOnward
  <2>4. pc[r] = "get" => ~Writes(r)
    BY DEF IInv, StageInv, Writes
  <2> QED
    BY <2>1, <2>2, <2>3, <2>4 DEF Writes
<1> QED
  BY <1>1, <1>2

\* A version upload, and a PATCH, has begun.
LEMMA OthersHaveBegun ==
  ASSUME IInv, NEW r \in Requests, want[r].op # "upload"
  PROVE  pc[r] # "idle"
BY DEF IInv, StageInv

\* A save moves its request on to "drop" only where an object is to be deleted.
LEMMA SaveOnward ==
  ASSUME IInv, NEW r \in Requests, Save(r)
  PROVE  /\ Onward /\ UNCHANGED <<stored, want, held>> /\ pc[r] = "save"
         /\ pc'[r] \in {"drop", "done", "failed"}
         /\ pc'[r] = "drop" => DropsOld(r)
         /\ pc'[r] = "done" => ~DropsOld(r)
         /\ \A q \in Requests : q # r => pc'[q] = pc[q]
<1>1. PICK stage \in {"drop", "done", "failed"} :
        /\ pc' = [pc EXCEPT ![r] = stage]
        /\ stage = "drop" => DropsOld(r)
        /\ stage = "done" => ~DropsOld(r)
  BY SaveFacts
<1>2. UNCHANGED <<stored, want, held>> /\ pc[r] = "save"
  BY SaveFacts
<1>3. Onward /\ pc'[r] = stage /\ \A q \in Requests : q # r => pc'[q] = pc[q]
  BY <1>1, <1>2, MovesOnward
<1> QED
  BY <1>1, <1>2, <1>3

\* What explains an object stays.
LEMMA ReplacedStays ==
  ASSUME IInv, Onward, NEW f, ReplacedTwice(f)
  PROVE  ReplacedTwice(f)'
<1>1. PICK q \in Requests, r \in Requests :
        /\ q # r /\ held[q].key = held[r].key
        /\ \A u \in {q, r} : want[u].op = "version" /\ want[u].file = f
  BY DEF ReplacedTwice
<1>2. \A u \in {q, r} : want'[u] = want[u] /\ held'[u] = held[u]
  BY <1>1, OthersHaveBegun DEF Onward
<1> QED
  BY <1>1, <1>2 DEF ReplacedTwice

\* A save of anything but an upload, a version or a PATCH leaves the key as it
\* is, and an upload saves the first row of its file.
LEMMA SaveKeys ==
  ASSUME IInv, NEW r \in Requests, Save(r)
  PROVE  /\ Writes(r) => rows'[want[r].file].key = r /\ ~Issued(r)
         /\ want[r].op = "upload" =>
              /\ ~Exists(want[r].file) /\ reverted[want[r].file] = {}
              /\ Kept(want[r].file) = {}
         /\ ~Writes(r) /\ want[r].op # "patch" =>
              rows'[want[r].file].key = rows[want[r].file].key
         /\ want[r].op = "patch" => rows'[want[r].file].key = held[r].key
         /\ \A g \in Files : g # want[r].file => rows'[g] = rows[g]
         /\ want[r].op # "upload" => Exists(want[r].file)
         /\ Exists(want[r].file)'
<1>1. /\ pc[r] = "save" /\ rows'[want[r].file] = NewRow(r) /\ UNCHANGED <<want, held>>
      /\ \A g \in Files : g # want[r].file => rows'[g] = rows[g]
  BY SaveFacts
<1>2. r # File0 /\ ~Issued(r)
  BY <1>1, FileStoreAssumption DEF Issued
<1>3. NewRow(r).key = IF Writes(r) THEN r ELSE Source(r).key
  BY DEF NewRow
<1>4. want[r].op # "upload" => Exists(want[r].file)
  BY DEF IInv, KeyInv
<1>5. want[r].op = "upload" =>
        /\ ~Exists(want[r].file) /\ reverted[want[r].file] = {}
        /\ Kept(want[r].file) = {}
  <2> SUFFICES ASSUME want[r].op = "upload"
               PROVE  ~Exists(r) /\ reverted[r] = {} /\ Kept(r) = {}
    BY DEF IInv, StageInv
  <2>1. ~Exists(r)
    BY <1>2 DEF IInv, StageInv, KeyInv
  <2>2. r \in Files
    BY DEF Files
  <2>3. reverted[r] = {}
    BY <2>1, <2>2 DEF IInv, KeyInv, TypeOK
  <2>4. ASSUME NEW v \in versions, v.file = r
        PROVE  FALSE
    <3>1. Issued(v.key) /\ Owner(v.key) = r /\ v.key \in Keys
      BY <2>4 DEF IInv, KeyInv, TypeOK
    <3>2. v.key \in Requests /\ Writes(v.key) /\ want[v.key].file = r
      BY <1>2, <3>1 DEF Issued, Owner, Keys, Files
    <3>3. want[v.key].op = "upload"
      BY <2>1, <3>2 DEF IInv, KeyInv, Writes
    <3>4. v.key = r
      BY <3>2, <3>3 DEF IInv, StageInv
    <3> QED
      BY <1>2, <3>1, <3>4
  <2> QED
    BY <2>1, <2>3, <2>4 DEF Kept
<1>6. want[r].op # "patch" => Source(r).key = rows[want[r].file].key
  BY DEF Source
<1>7. want[r].op = "patch" => Source(r).key = held[r].key /\ ~Writes(r)
  BY DEF Source, Writes
<1>8. Exists(want[r].file)'
  <2>1. held[r].status # "none" \/ want[r].op # "patch"
    BY DEF IInv, KeyInv
  <2>2. NewRow(r).status # "none"
    BY <2>1 DEF NewRow, NewStatus, UploadStatus
  <2> QED
    BY <1>1, <2>2 DEF Exists
<1> QED
  BY <1>1, <1>2, <1>3, <1>4, <1>5, <1>6, <1>7, <1>8

-----------------------------------------------------------------------------
(***************************************************************************)
(* The contents of a file.  Those the row named once are current, or were  *)
(* taken out of the row by a PATCH, or were replaced by a version upload,  *)
(* which holds what it replaces: one that is not replaced is the latest,   *)
(* and there is only one.  In a bucket without versions this ends where    *)
(* two version uploads hold the same content.                              *)
(***************************************************************************)
Replacers(f) == {u \in Requests : want[u].op = "version" /\ want[u].file = f
                                  /\ pc[u] \in {"drop", "done", "failed"}}

Gone(f) == IF Versioning THEN Kept(f) ELSE {held[u].key : u \in Replacers(f)}

Known(f) == Current(f) \cup reverted[f] \cup Gone(f)

OneLatest(f) ==
  \A k, l \in (Current(f) \cup reverted[f]) \ Gone(f) : k = l

Doubtful(f) == ~Versioning /\ ReplacedTwice(f)

\* Whether the first content of File0 has never been replaced or taken out.
Untouched ==
  /\ rows[File0].key = File0
  /\ \A r \in Requests : want[r].op # "upload" /\ want[r].file = File0 => held[r].key = File0

LineInv ==
  /\ \A f \in Files : Doubtful(f) \/ OneLatest(f)
  /\ \A r \in Requests : want[r].op # "upload" =>
       held[r].key \in Known(want[r].file) \/ Doubtful(want[r].file)
  /\ \A r \in Requests : Writes(r) /\ pc[r] \in {"drop", "done"} =>
       r \in Known(want[r].file) \/ Doubtful(want[r].file)
  /\ Exists(File0)
  /\ Untouched \/ File0 \in reverted[File0] \cup Gone(File0)

LEMMA InitLineInv == Init => LineInv
<1> SUFFICES ASSUME Init PROVE LineInv
  OBVIOUS
<1>0. PICK p \in Places :
        /\ rows = [f \in Files |-> [status |-> IF f = File0 THEN "active" ELSE "none",
                                    key |-> f, sum |-> f, place |-> p]]
        /\ reverted = [f \in Files |-> {}]
        /\ \A r \in Requests : want[r].op = "upload" /\ pc[r] = "idle"
  BY DEF Init
<1>1. /\ \A f \in Files : rows[f].key = f /\ reverted[f] = {}
      /\ File0 \in Files /\ Exists(File0)
      /\ \A r \in Requests : want[r].op = "upload" /\ pc[r] = "idle"
  BY <1>0 DEF Exists, Files
<1>2. \A f \in Files : OneLatest(f)
  BY <1>1 DEF OneLatest, Current
<1>3. Untouched
  BY <1>1 DEF Untouched
<1> QED
  BY <1>1, <1>2, <1>3 DEF LineInv

LEMMA DoubtStays ==
  ASSUME IInv, Onward, NEW f, Doubtful(f)
  PROVE  Doubtful(f)'
BY ReplacedStays DEF Doubtful

\* What was replaced stays replaced.
LEMMA GoneStays ==
  ASSUME IInv, Onward, versions \subseteq versions', NEW f \in Files, NEW k \in Gone(f)
  PROVE  k \in Gone(f)'
<1>1. CASE Versioning
  <2>1. PICK v \in versions : v.file = f /\ v.key = k
    BY <1>1 DEF Gone, Kept
  <2>2. v \in versions' /\ v.file = f /\ v.key = k
    BY <2>1
  <2> QED
    BY <1>1, <2>2 DEF Gone, Kept
<1>2. CASE ~Versioning
  <2>1. PICK u \in Replacers(f) : k = held[u].key
    BY <1>2 DEF Gone
  <2>2. want'[u] = want[u] /\ held'[u] = held[u] /\ pc'[u] \in {"drop", "done", "failed"}
    BY <2>1 DEF Replacers, Onward
  <2>3. u \in Replacers(f)' /\ k = held'[u].key
    BY <2>1, <2>2 DEF Replacers
  <2> QED
    BY <1>2, <2>3 DEF Gone
<1> QED
  BY <1>1, <1>2

LEMMA QuietLineInv ==
  ASSUME IInv, LineInv, NEW r \in Requests, Begin(r) \/ Put(r) \/ Drop(r) \/ Moves(r)
  PROVE  LineInv'
<1>1. /\ Onward /\ UNCHANGED <<rows, versions, reverted>>
      /\ \A q \in Requests : pc[q] = "idle" =>
           \/ want'[q] = want[q] /\ held'[q] = held[q] /\ pc'[q] = pc[q]
           \/ /\ held'[q] = rows[want'[q].file] /\ pc'[q] \in {"put", "save", "get"}
              /\ want'[q].op # "upload" => Exists(want'[q].file)
      /\ \A q \in Requests : Writes(q)' /\ pc'[q] \in {"drop", "done"} =>
           pc[q] \in {"drop", "done"}
  BY QuietFacts
<1>2. ASSUME NEW f \in Files
      PROVE  /\ Current(f)' = Current(f) /\ reverted'[f] = reverted[f]
             /\ Gone(f) \subseteq Gone(f)'
  BY <1>1, <1>2, GoneStays DEF Current, Exists
<1>3. \A f \in Files : Doubtful(f) => Doubtful(f)'
  BY <1>1, DoubtStays
<1>4. \A f \in Files : OneLatest(f) => OneLatest(f)'
  BY <1>2 DEF OneLatest
<1>5. \A f \in Files : Known(f) \subseteq Known(f)'
  BY <1>2 DEF Known
<1>6. ASSUME NEW q \in Requests, want'[q].op # "upload"
      PROVE  held'[q].key \in Known(want[q].file)' \/ Doubtful(want[q].file)'
  <2>1. IInv'
    BY BeginIInv, PutIInv, DropIInv, MoveIInv
  <2>2. want'[q].file \in Files
    BY <2>1 DEF IInv, TypeOK
  <2>3. CASE want'[q] = want[q] /\ held'[q] = held[q]
    <3>1. held[q].key \in Known(want[q].file) \/ Doubtful(want[q].file)
      BY <1>6, <2>3 DEF LineInv
    <3> QED
      BY <1>3, <1>5, <2>2, <2>3, <3>1
  <2>4. CASE held'[q] = rows[want'[q].file] /\ Exists(want'[q].file)
    <3>1. held'[q].key \in Current(want'[q].file)
      BY <2>4 DEF Current
    <3>2. Current(want'[q].file) \subseteq Known(want[q].file)'
      BY <1>5, <2>2 DEF Known
    <3> QED
      BY <3>1, <3>2
  <2> QED
    BY <1>1, <1>6, <2>3, <2>4 DEF Onward
<1>7. ASSUME NEW q \in Requests, Writes(q)', pc'[q] \in {"drop", "done"}
      PROVE  q \in Known(want[q].file)' \/ Doubtful(want[q].file)'
  <2>1. pc[q] \in {"drop", "done"}
    BY <1>1, <1>7
  <2>2. want'[q] = want[q] /\ want[q].file \in Files
    BY <1>1, <2>1 DEF Onward, IInv, TypeOK
  <2>3. q \in Known(want[q].file) \/ Doubtful(want[q].file)
    BY <1>7, <2>1, <2>2 DEF LineInv, Writes
  <2> QED
    BY <1>3, <1>5, <2>2, <2>3
<1>8. File0 \in Files
  BY DEF Files
<1>9. Untouched' \/ File0 \in reverted'[File0] \cup Gone(File0)'
  <2>1. CASE Untouched
    <3>1. ASSUME NEW q \in Requests, want'[q].op # "upload", want'[q].file = File0
          PROVE  held'[q].key = File0
      BY <1>1, <2>1, <3>1 DEF Untouched, Onward
    <3> QED
      BY <1>1, <2>1, <3>1 DEF Untouched
  <2>2. CASE File0 \in reverted[File0] \cup Gone(File0)
    BY <1>2, <1>8, <2>2
  <2> QED
    BY <2>1, <2>2 DEF LineInv
<1>10. Exists(File0)'
  BY <1>1 DEF LineInv, Exists
<1> QED
  BY <1>3, <1>4, <1>6, <1>7, <1>9, <1>10 DEF LineInv

\* A version upload that saves replaces the latest content.
LEMMA ReplacesLatest ==
  ASSUME IInv, LineInv, NEW r \in Requests, Save(r), want[r].op = "version",
         NEW f, f = want[r].file, NEW h, h = held[r].key
  PROVE  /\ h \in Gone(f)'
         /\ \/ Doubtful(f)
            \/ \A k \in (Current(f) \cup reverted[f]) \ Gone(f) : k = h
<1>1. UNCHANGED <<want, held>> /\ pc[r] = "save" /\ pc'[r] \in {"drop", "done", "failed"}
  BY SaveOnward
<1>2. f \in Files /\ Accepts(r)
      /\ versions' = IF KeepsVersion(r) THEN versions \cup {OldVersion(r)} ELSE versions
  BY SaveFacts
<1>3. h \in Gone(f)'
  <2>1. CASE Versioning
    <3>1. OldVersion(r) \in versions' /\ OldVersion(r).file = f /\ OldVersion(r).key = h
      BY <1>2, <2>1 DEF KeepsVersion, OldVersion
    <3> QED
      BY <1>1, <2>1, <3>1 DEF Gone, Kept
  <2>2. CASE ~Versioning
    <3>1. r \in Replacers(f)'
      BY <1>1 DEF Replacers
    <3> QED
      BY <1>1, <2>2, <3>1 DEF Gone
  <2> QED
    BY <2>1, <2>2
<1>4. h \notin Gone(f) \/ Doubtful(f)
  <2>1. CASE Versioning
    <3>1. \A v \in versions : v.key # h
      BY <1>2, <2>1 DEF Accepts, VersionIsNew, KeepsVersion
    <3> QED
      BY <2>1, <3>1 DEF Gone, Kept
  <2>2. CASE ~Versioning /\ h \in Gone(f)
    <3>1. PICK u \in Replacers(f) : held[u].key = h
      BY <2>2 DEF Gone
    <3>2. u \in Requests /\ u # r /\ want[u].op = "version" /\ want[u].file = f
      BY <1>1, <3>1 DEF Replacers
    <3>3. ReplacedTwice(f)
      BY <3>1, <3>2 DEF ReplacedTwice
    <3> QED
      BY <2>2, <3>3 DEF Doubtful
  <2> QED
    BY <2>1, <2>2
<1>5. h \in Known(f) \/ Doubtful(f)
  BY DEF LineInv
<1>6. OneLatest(f) \/ Doubtful(f)
  BY <1>2 DEF LineInv
<1>7. Doubtful(f) \/ \A k \in (Current(f) \cup reverted[f]) \ Gone(f) : k = h
  <2> SUFFICES ASSUME ~Doubtful(f), NEW k \in (Current(f) \cup reverted[f]) \ Gone(f)
               PROVE  k = h
    OBVIOUS
  <2>1. h \in (Current(f) \cup reverted[f]) \ Gone(f)
    BY <1>4, <1>5 DEF Known
  <2> QED
    BY <1>6, <2>1 DEF OneLatest
<1> QED
  BY <1>3, <1>7

\* What a save does to the contents of its file: nothing that was known is
\* lost, and no second latest appears.
LEMMA SaveLine ==
  ASSUME IInv, LineInv, NEW r \in Requests, Save(r), NEW f, f = want[r].file
  PROVE  /\ \A g \in Files : g # f => Current(g)' = Current(g) /\ reverted'[g] = reverted[g]
         /\ \A g \in Files : Gone(g) \subseteq Gone(g)' /\ reverted[g] \subseteq reverted'[g]
         /\ Doubtful(f) \/ Known(f) \subseteq Known(f)'
         /\ Doubtful(f) \/ OneLatest(f)'
<1>1. /\ Onward /\ UNCHANGED <<want, held>>
      /\ pc'[r] \in {"drop", "done", "failed"}
  BY SaveOnward
<1>2. /\ f \in Files
      /\ \A g \in Files : g # f => reverted'[g] = reverted[g] /\ rows'[g] = rows[g]
      /\ reverted'[f] = reverted[f] \cup Displaced(r)
      /\ versions' = IF KeepsVersion(r) THEN versions \cup {OldVersion(r)} ELSE versions
  BY SaveFacts
<1>3. ASSUME NEW g \in Files
      PROVE  Gone(g) \subseteq Gone(g)' /\ reverted[g] \subseteq reverted'[g]
  <2>1. versions \subseteq versions'
    BY <1>2
  <2>2. Gone(g) \subseteq Gone(g)'
    BY <1>1, <2>1, GoneStays
  <2> QED
    BY <1>2, <2>2
<1>4. \A g \in Files : g # f => Current(g)' = Current(g)
  BY <1>2 DEF Current, Exists
<1>5. Current(f)' = {rows'[f].key} /\ Current(f) \subseteq {rows[f].key}
  BY <1>1, SaveKeys DEF Current
<1>6. OneLatest(f) \/ Doubtful(f)
  BY <1>2 DEF LineInv
<1>7. CASE want[r].op = "upload"
  <2>1. Current(f) = {} /\ reverted[f] = {} /\ Displaced(r) = {} /\ Kept(f) = {}
    BY <1>7, SaveKeys DEF Current, Displaced
  <2>2. reverted'[f] = {}
    BY <1>2, <2>1
  <2>3. OneLatest(f)'
    BY <1>5, <2>2 DEF OneLatest
  <2>4. Known(f) \subseteq Known(f)'
    BY <1>2, <1>3, <2>1 DEF Known
  <2> QED
    BY <1>2, <1>3, <1>4, <2>3, <2>4
<1>8. CASE want[r].op = "version"
  <2>1. /\ held[r].key \in Gone(f)'
        /\ \/ Doubtful(f)
           \/ \A k \in (Current(f) \cup reverted[f]) \ Gone(f) : k = held[r].key
    BY <1>8, ReplacesLatest
  <2>2. Displaced(r) = {} /\ reverted'[f] = reverted[f]
    BY <1>2, <1>8 DEF Displaced
  <2>3. CASE Doubtful(f)
    BY <1>2, <1>3, <1>4, <2>3
  <2>4. CASE ~Doubtful(f)
    <3>1. \A k \in Current(f) \cup reverted[f] : k \in Gone(f)'
      BY <1>2, <1>3, <2>1, <2>4
    <3>2. Known(f) \subseteq Known(f)'
      BY <1>2, <1>3, <3>1 DEF Known
    <3>3. OneLatest(f)'
      BY <1>5, <2>2, <3>1 DEF OneLatest
    <3> QED
      BY <1>2, <1>3, <1>4, <3>2, <3>3
  <2> QED
    BY <2>3, <2>4
<1>9. CASE want[r].op = "patch"
  <2>1. Current(f) = {rows[f].key} /\ Current(f)' = {held[r].key}
    BY <1>5, <1>9, SaveKeys DEF Current
  <2>2. Displaced(r) = {rows[f].key} \ {held[r].key}
    BY <1>9 DEF Displaced
  <2>3. Current(f)' \cup reverted'[f] = Current(f) \cup reverted[f] \cup {held[r].key}
    BY <1>2, <2>1, <2>2
  <2>4. Known(f) \subseteq Known(f)'
    BY <1>2, <1>3, <2>3 DEF Known
  <2>5. held[r].key \in Known(f) \/ Doubtful(f)
    BY <1>9 DEF LineInv
  <2>6. OneLatest(f)' \/ Doubtful(f)
    <3> SUFFICES ASSUME ~Doubtful(f),
                        NEW k \in (Current(f)' \cup reverted'[f]) \ Gone(f)',
                        NEW l \in (Current(f)' \cup reverted'[f]) \ Gone(f)'
                 PROVE  k = l
      BY DEF OneLatest
    <3>1. \A j \in {k, l} : j \in (Current(f) \cup reverted[f]) \ Gone(f)
      BY <1>2, <1>3, <2>3, <2>5 DEF Known
    <3> QED
      BY <1>6, <3>1 DEF OneLatest
  <2> QED
    BY <1>2, <1>3, <1>4, <2>4, <2>6
<1>10. CASE want[r].op \notin {"upload", "version", "patch"}
  <2>1. Current(f)' = Current(f) /\ Displaced(r) = {} /\ reverted'[f] = reverted[f]
    BY <1>2, <1>5, <1>10, SaveKeys DEF Current, Displaced, Writes
  <2>2. Known(f) \subseteq Known(f)'
    BY <1>2, <1>3, <2>1 DEF Known
  <2>3. OneLatest(f) => OneLatest(f)'
    BY <1>2, <1>3, <2>1 DEF OneLatest
  <2> QED
    BY <1>2, <1>3, <1>4, <1>6, <2>2, <2>3
<1> QED
  BY <1>7, <1>8, <1>9, <1>10

LEMMA SaveLineInv ==
  ASSUME IInv, LineInv, NEW r \in Requests, Save(r)
  PROVE  LineInv'
<1>0. PICK f : f = want[r].file
  OBVIOUS
<1>1. /\ Onward /\ UNCHANGED <<want, held>>
      /\ pc'[r] \in {"drop", "done", "failed"} /\ pc[r] = "save"
      /\ \A q \in Requests : q # r => pc'[q] = pc[q]
  BY SaveOnward
<1>2. f \in Files /\ \A q \in Requests : want[q].file \in Files
  BY <1>0 DEF IInv, TypeOK
<1>3. /\ \A g \in Files : g # f => Current(g)' = Current(g) /\ reverted'[g] = reverted[g]
      /\ \A g \in Files : Gone(g) \subseteq Gone(g)' /\ reverted[g] \subseteq reverted'[g]
      /\ Doubtful(f) \/ Known(f) \subseteq Known(f)'
      /\ Doubtful(f) \/ OneLatest(f)'
  BY <1>0, SaveLine
<1>4. \A g \in Files : Doubtful(g) => Doubtful(g)'
  BY <1>1, DoubtStays
<1>5. ASSUME NEW g \in Files
      PROVE  /\ Doubtful(g)' \/ Known(g) \subseteq Known(g)'
             /\ Doubtful(g)' \/ OneLatest(g)'
  <2>1. CASE g = f
    BY <1>3, <1>4, <2>1
  <2>2. CASE g # f
    <3>1. Known(g) \subseteq Known(g)'
      BY <1>3, <2>2 DEF Known
    <3>2. OneLatest(g) => OneLatest(g)'
      BY <1>3, <2>2 DEF OneLatest
    <3>3. Doubtful(g) \/ OneLatest(g)
      BY DEF LineInv
    <3> QED
      BY <1>4, <3>1, <3>2, <3>3
  <2> QED
    BY <2>1, <2>2
<1>6. ASSUME NEW q \in Requests, want'[q].op # "upload"
      PROVE  held'[q].key \in Known(want[q].file)' \/ Doubtful(want[q].file)'
  <2>1. held[q].key \in Known(want[q].file) \/ Doubtful(want[q].file)
    BY <1>1, <1>6 DEF LineInv
  <2>2. want'[q].file = want[q].file /\ held'[q].key = held[q].key
    BY <1>1
  <2> QED
    BY <1>2, <1>4, <1>5, <2>1, <2>2
<1>7. ASSUME NEW q \in Requests, Writes(q)', pc'[q] \in {"drop", "done"}
      PROVE  q \in Known(want[q].file)' \/ Doubtful(want[q].file)'
  <2>1. want'[q] = want[q] /\ Writes(q)
    BY <1>1, <1>7 DEF Writes
  <2>2. CASE q = r
    <3>1. rows'[f].key = r /\ Exists(f)'
      BY <1>0, <1>1, <2>1, <2>2, SaveKeys
    <3>2. q \in Current(f)'
      BY <2>2, <3>1 DEF Current
    <3>3. Current(f)' \subseteq Known(f)'
      BY DEF Known
    <3> QED
      BY <1>0, <2>1, <2>2, <3>2, <3>3
  <2>3. CASE q # r
    <3>1. q \in Known(want[q].file) \/ Doubtful(want[q].file)
      BY <1>1, <1>7, <2>1, <2>3 DEF LineInv
    <3> QED
      BY <1>2, <1>4, <1>5, <2>1, <3>1
  <2> QED
    BY <2>2, <2>3
<1>8. Exists(File0)'
  <2>1. File0 \in Files /\ Exists(File0)
    BY DEF LineInv, Files
  <2>2. File0 # f => rows'[File0] = rows[File0]
    BY <1>0, <2>1, SaveFacts
  <2>3. Exists(f)'
    BY <1>0, <1>1, SaveKeys
  <2> QED
    BY <2>1, <2>2, <2>3 DEF Exists
<1>9. Untouched' \/ File0 \in reverted'[File0] \cup Gone(File0)'
  <2>0. File0 \in Files
    BY DEF Files
  <2>1. CASE File0 \in reverted[File0] \cup Gone(File0)
    BY <1>3, <2>0, <2>1
  <2>2. CASE Untouched /\ f # File0
    <3>1. rows'[File0] = rows[File0]
      BY <1>0, <2>0, <2>2, SaveFacts
    <3> QED
      BY <1>1, <2>2, <3>1 DEF Untouched
  <2>3. CASE Untouched /\ f = File0
    <3>1. want[r].op # "upload"
      BY <1>0, <2>3, FileStoreAssumption DEF IInv, StageInv
    <3>2. held[r].key = File0 /\ rows[File0].key = File0
      BY <1>0, <2>3, <3>1 DEF Untouched
    <3>3. CASE want[r].op = "version"
      <4>1. File0 \in Gone(f)'
        BY <1>0, <3>2, <3>3, ReplacesLatest
      <4> QED
        BY <1>1, <2>3, <4>1
    <3>4. CASE want[r].op # "version"
      <4>0. ~Writes(r)
        BY <3>1, <3>4 DEF Writes
      <4>1. rows'[File0].key = File0
        <5>1. /\ want[r].op # "patch" => rows'[want[r].file].key = rows[want[r].file].key
              /\ want[r].op = "patch" => rows'[want[r].file].key = held[r].key
          BY <4>0, SaveKeys
        <5> QED
          BY <1>0, <2>3, <3>2, <5>1
      <4> QED
        BY <1>1, <2>3, <4>1 DEF Untouched
    <3> QED
      BY <3>3, <3>4
  <2> QED
    BY <2>1, <2>2, <2>3 DEF LineInv
<1> QED
  BY <1>5, <1>6, <1>7, <1>8, <1>9 DEF LineInv

LEMMA NextLineInv == IInv /\ LineInv /\ [Next]_vars => LineInv'
<1> SUFFICES ASSUME IInv, LineInv, [Next]_vars PROVE LineInv'
  OBVIOUS
<1>1. CASE UNCHANGED vars
  BY <1>1 DEF vars, LineInv, Doubtful, ReplacedTwice, OneLatest, Known, Current, Gone, Kept,
     Replacers, Untouched, Exists, Writes
<1>2. CASE Next
  BY <1>1, <1>2, QuietLineInv, SaveLineInv, MoveCases DEF Next, Ended
<1> QED
  BY <1>1, <1>2

LEMMA LineInvariant == Spec => []LineInv
BY InitLineInv, NextLineInv, Invariant, PTL DEF Spec

-----------------------------------------------------------------------------
(***************************************************************************)
(* Which objects are there.  An object that a request holds is there until *)
(* a version upload that holds it too has deleted it; and where the row    *)
(* names a content about to be deleted, a PATCH has put it there.          *)
(***************************************************************************)
Dropped(r) ==
  /\ ~Versioning
  /\ \E q \in Requests : /\ want[q].op = "version" /\ want[q].file = want[r].file
                         /\ held[q].key = held[r].key /\ pc[q] \in {"done", "failed"}

\* A PATCH has written an earlier content into the row of f.
PutBack(f) ==
  /\ reverted[f] # {}
  /\ \E p \in Requests : /\ want[p].op = "patch" /\ want[p].file = f
                         /\ pc[p] \in {"done", "failed"} /\ held[p].key = rows[f].key

StoreInv ==
  /\ NothingDangles
  /\ versions # {} => Versioning
  /\ \A r \in Requests : pc[r] = "save" /\ Writes(r) => r \in stored
  /\ \A k \in stored : \/ k = File0
                       \/ Writes(k) /\ pc[k] \in {"save", "drop", "done", "failed"}
  /\ \A r \in Requests : want[r].op # "upload" => held[r].key \in stored \/ Dropped(r)
  /\ \A r \in Requests : pc[r] = "missing" => Dropped(r)
  /\ \A r \in Requests : pc[r] = "drop" =>
       rows[want[r].file].key # held[r].key \/ PutBack(want[r].file)
  /\ \A r \in Requests : want[r].op = "version" /\ pc[r] = "done" =>
       Versioning \/ held[r].key \notin stored

LEMMA InitStoreInv == Init => StoreInv
<1> SUFFICES ASSUME Init PROVE StoreInv
  OBVIOUS
<1>1. /\ stored = {File0} /\ versions = {}
      /\ \A f \in Files : Exists(f) => rows[f].key = File0
      /\ \A r \in Requests : want[r].op = "upload" /\ pc[r] = "idle"
  BY DEF Init, Exists
<1> QED
  BY <1>1 DEF StoreInv, NothingDangles

LEMMA DroppedStays ==
  ASSUME IInv, Onward, NEW r \in Requests, pc[r] # "idle", Dropped(r)
  PROVE  Dropped(r)'
<1>1. PICK q \in Requests :
        /\ want[q].op = "version" /\ want[q].file = want[r].file
        /\ held[q].key = held[r].key /\ pc[q] \in {"done", "failed"}
  BY DEF Dropped
<1>2. want'[q] = want[q] /\ held'[q] = held[q] /\ pc'[q] = pc[q]
  BY <1>1 DEF Onward
<1>3. want'[r] = want[r] /\ held'[r] = held[r] /\ ~Versioning
  BY DEF Onward, Dropped
<1> QED
  BY <1>1, <1>2, <1>3 DEF Dropped

\* What a PATCH has put back stays so until the row's key changes.
LEMMA PutBackStays ==
  ASSUME IInv, Onward, NEW f \in Files, PutBack(f),
         reverted[f] \subseteq reverted'[f], rows'[f].key = rows[f].key
  PROVE  PutBack(f)'
<1>1. PICK p \in Requests :
        /\ want[p].op = "patch" /\ want[p].file = f
        /\ pc[p] \in {"done", "failed"} /\ held[p].key = rows[f].key
  BY DEF PutBack
<1>2. want'[p] = want[p] /\ held'[p] = held[p] /\ pc'[p] = pc[p]
  BY <1>1 DEF Onward
<1> QED
  BY <1>1, <1>2 DEF PutBack

LEMMA RevivedStays ==
  ASSUME IInv, Onward, NEW f \in Files, Revived(f), rows'[f].key = rows[f].key
  PROVE  Revived(f)'
<1>1. PICK p \in Requests, v \in Requests :
        /\ want[p].op = "patch" /\ want[p].file = f /\ pc[p] \in {"done", "failed"}
        /\ want[v].op = "version" /\ want[v].file = f /\ pc[v] \in {"done", "failed"}
        /\ held[p].key = rows[f].key /\ held[v].key = rows[f].key
  BY DEF Revived
<1>2. /\ want'[p] = want[p] /\ held'[p] = held[p] /\ pc'[p] = pc[p]
      /\ want'[v] = want[v] /\ held'[v] = held[v] /\ pc'[v] = pc[v]
  BY <1>1 DEF Onward
<1> QED
  BY <1>1, <1>2 DEF Revived

\* What every quiet step but a drop leaves true, and what each has to show.
LEMMA GrowStoreInv ==
  ASSUME IInv, StoreInv, NEW r \in Requests, Begin(r) \/ Put(r) \/ Moves(r)
  PROVE  StoreInv'
<1>1. Onward /\ UNCHANGED <<rows, versions, reverted>> /\ stored \subseteq stored'
  BY QuietFacts DEF Begin, Put, Moves
<1>2. /\ \A q \in Requests : q # r => want'[q] = want[q] /\ held'[q] = held[q]
                                      /\ pc'[q] = pc[q]
      /\ stored' \subseteq stored \cup {r} /\ (~Put(r) => stored' = stored)
      /\ \/ /\ want'[r] = want[r] /\ held'[r] = held[r] /\ pc[r] # "idle"
            /\ pc'[r] \in {"save", "failed", "done", "missing"}
            /\ Put(r) => pc'[r] \in {"save", "failed"}
            /\ ~Put(r) /\ pc'[r] # "failed" => pc[r] = "get"
            /\ pc'[r] = "missing" => held[r].key \notin stored
         \/ /\ held'[r] = rows[want'[r].file] /\ want'[r].file \in Files /\ ~Put(r)
            /\ want'[r].op # "upload" => Exists(want'[r].file)
            /\ pc[r] = "idle" /\ pc'[r] \in {"put", "save", "get"}
            /\ pc'[r] = "save" => ~Writes(r)'
  <2>1. CASE Begin(r)
    BY <2>1, BeginFacts DEF Put
  <2>2. CASE Put(r)
    <3>1. /\ pc[r] = "put" /\ stored' = stored \cup {r} /\ UNCHANGED <<want, held>>
          /\ \E stage \in {"save", "failed"} : pc' = [pc EXCEPT ![r] = stage]
      BY <2>2 DEF Put, GoTo
    <3> QED
      BY <2>2, <3>1 DEF IInv, TypeOK
  <2>3. CASE Moves(r)
    <3>1. UNCHANGED <<stored, want, held>> /\ pc[r] \in {"put", "save", "drop", "get"}
      BY <2>3 DEF Moves
    <3>2. PICK stage \in {"failed", "done", "missing"} :
            /\ pc' = [pc EXCEPT ![r] = stage]
            /\ pc[r] # "get" => stage = "failed"
            /\ stage = "missing" => held[r].key \notin stored
      BY <2>3 DEF Moves, GoTo
    <3>3. pc'[r] = stage /\ \A q \in Requests : q # r => pc'[q] = pc[q]
      BY <3>2 DEF IInv, TypeOK
    <3>4. Put(r) => pc'[r] = "failed"
      BY <3>2, <3>3 DEF Put
    <3> QED
      BY <3>1, <3>2, <3>3, <3>4
  <2> QED
    BY <2>1, <2>2, <2>3
<1>3. NothingDangles'
  <2>1. ASSUME NEW f \in Files, Exists(f)'
        PROVE  rows'[f].key \in stored' \/ (~Versioning /\ reverted'[f] # {} /\ Revived(f)')
    <3>1. rows[f].key \in stored \/ (~Versioning /\ reverted[f] # {} /\ Revived(f))
      BY <1>1, <2>1 DEF StoreInv, NothingDangles, Exists
    <3> QED
      BY <1>1, <3>1, RevivedStays
  <2>2. \A v \in versions' : v.key \in stored'
    BY <1>1 DEF StoreInv, NothingDangles
  <2> QED
    BY <2>1, <2>2 DEF NothingDangles
<1>4. ASSUME NEW q \in Requests, pc'[q] = "save", Writes(q)'
      PROVE  q \in stored'
  <2>1. CASE q # r
    BY <1>1, <1>2, <1>4, <2>1 DEF StoreInv, Writes
  <2>2. CASE q = r
    <3>1. Put(r)
      BY <1>2, <1>4, <2>2 DEF Moves, GoTo, IInv, TypeOK, Begin
    <3> QED
      BY <2>2, <3>1 DEF Put
  <2> QED
    BY <2>1, <2>2
<1>5. ASSUME NEW k \in stored', k # File0
      PROVE  Writes(k)' /\ pc'[k] \in {"save", "drop", "done", "failed"}
  <2>0. k \in Requests
    BY <1>2, <1>5 DEF IInv, TypeOK, Keys, Files
  <2>1. CASE k \in stored
    <3>1. Writes(k) /\ pc[k] \in {"save", "drop", "done", "failed"}
      BY <1>5, <2>1 DEF StoreInv
    <3>2. want'[k] = want[k]
      BY <2>0, <3>1, <1>1 DEF Onward
    <3>3. pc'[k] \in {"save", "drop", "done", "failed"}
      <4>1. CASE k # r
        BY <1>2, <2>0, <3>1, <4>1
      <4>2. CASE k = r
        <5>1. Moves(r) /\ pc[r] \in {"save", "drop"}
          BY <3>1, <4>2 DEF Begin, Put, Moves
        <5>2. pc' = [pc EXCEPT ![r] = "failed"]
          BY <5>1 DEF Moves, GoTo
        <5> QED
          BY <4>2, <5>2 DEF IInv, TypeOK
      <4> QED
        BY <4>1, <4>2
    <3> QED
      BY <3>1, <3>2, <3>3 DEF Writes
  <2>2. CASE k \notin stored
    <3>1. k = r /\ Put(r)
      BY <1>2, <1>5, <2>2
    <3>2. Writes(r) /\ UNCHANGED want /\ \E stage \in {"save", "failed"} : GoTo(r, stage)
      BY <3>1 DEF Put, IInv, StageInv
    <3> QED
      BY <3>1, <3>2 DEF Writes, GoTo, IInv, TypeOK
  <2> QED
    BY <2>1, <2>2
<1>6. ASSUME NEW q \in Requests, want'[q].op # "upload"
      PROVE  held'[q].key \in stored' \/ Dropped(q)'
  <2>1. CASE want'[q] = want[q] /\ held'[q] = held[q] /\ pc[q] # "idle"
    BY <1>1, <1>6, <2>1, DroppedStays DEF StoreInv
  <2>2. CASE want'[q] = want[q] /\ pc[q] = "idle"
    BY <1>6, <2>2 DEF IInv, StageInv
  <2>3. CASE q = r /\ held'[r] = rows[want'[r].file] /\ Exists(want'[r].file)
             /\ want'[r].file \in Files
    <3>1. CASE rows[want'[r].file].key \in stored
      BY <1>1, <2>3, <3>1
    <3>2. CASE ~Versioning /\ Revived(want'[r].file)
      <4>1. PICK v \in Requests :
              /\ want[v].op = "version" /\ want[v].file = want'[r].file
              /\ pc[v] \in {"done", "failed"}
              /\ held[v].key = rows[want'[r].file].key
        BY <3>2 DEF Revived
      <4>2. want'[v] = want[v] /\ held'[v] = held[v] /\ pc'[v] = pc[v]
        BY <1>1, <4>1 DEF Onward
      <4>3. Dropped(r)'
        BY <2>3, <3>2, <4>1, <4>2 DEF Dropped
      <4> QED
        BY <2>3, <4>3
    <3> QED
      BY <2>3, <3>1, <3>2 DEF StoreInv, NothingDangles
  <2> QED
    BY <1>2, <1>6, <2>1, <2>2, <2>3
<1>7. ASSUME NEW q \in Requests, pc'[q] = "missing"
      PROVE  Dropped(q)'
  <2>1. CASE pc[q] = "missing"
    BY <1>1, <2>1, DroppedStays DEF StoreInv
  <2>2. CASE pc[q] # "missing"
    <3>1. q = r /\ pc[r] = "get" /\ held[r].key \notin stored
      BY <1>2, <1>7, <2>2
    <3>2. want[r].op = "download"
      BY <3>1 DEF IInv, StageInv
    <3> QED
      BY <1>1, <3>1, <3>2, DroppedStays DEF StoreInv
  <2> QED
    BY <2>1, <2>2
<1>8. ASSUME NEW q \in Requests, pc'[q] = "drop"
      PROVE  rows'[want'[q].file].key # held'[q].key \/ PutBack(want[q].file)'
  <2>1. pc[q] = "drop"
    <3>1. CASE q = r
      BY <1>2, <1>8, <3>1
    <3>2. CASE q # r
      BY <1>2, <1>8, <3>2
    <3> QED
      BY <3>1, <3>2
  <2>2. want'[q] = want[q] /\ held'[q] = held[q] /\ want[q].file \in Files
    BY <1>1, <2>1 DEF Onward, IInv, TypeOK
  <2>3. rows[want[q].file].key # held[q].key \/ PutBack(want[q].file)
    BY <2>1 DEF StoreInv
  <2>4. PutBack(want[q].file) => PutBack(want[q].file)'
    <3>1. PICK f \in Files : f = want[q].file /\ f = want'[q].file
      BY <2>2
    <3>2. PutBack(f) => PutBack(f)'
      BY <1>1, PutBackStays
    <3> QED
      BY <3>1, <3>2
  <2> QED
    BY <1>1, <2>2, <2>3, <2>4
<1>9. ASSUME NEW q \in Requests, want'[q].op = "version", pc'[q] = "done", ~Versioning
      PROVE  held'[q].key \notin stored'
  <2>1. pc[q] = "done" /\ want[q].op = "version"
    <3>1. CASE q = r
      BY <1>2, <1>9, <3>1 DEF IInv, StageInv
    <3>2. CASE q # r
      BY <1>2, <1>9, <3>2
    <3> QED
      BY <3>1, <3>2
  <2>2. held'[q] = held[q] /\ held[q].key \notin stored /\ Issued(held[q].key)
    BY <1>1, <1>9, <2>1 DEF Onward, StoreInv, IInv, KeyInv
  <2>3. Put(r) => ~Issued(r)
    BY FileStoreAssumption DEF Put, Issued
  <2> QED
    BY <1>2, <2>2, <2>3
<1>10. versions' # {} => Versioning
  BY <1>1 DEF StoreInv
<1> QED
  BY <1>3, <1>4, <1>5, <1>6, <1>7, <1>8, <1>9, <1>10 DEF StoreInv

LEMMA DropStoreInv ==
  ASSUME IInv, StoreInv, NEW r \in Requests, Drop(r)
  PROVE  StoreInv'
<1>1. PICK stage \in {"done", "failed"} : pc' = [pc EXCEPT ![r] = stage]
  BY DEF Drop, GoTo
<1>2. /\ pc[r] = "drop" /\ stored' = stored \ {held[r].key}
      /\ UNCHANGED <<rows, versions, reverted, want, held>>
  BY DEF Drop, DroppedKey
<1>3. Onward /\ pc'[r] = stage /\ \A q \in Requests : q # r => pc'[q] = pc[q]
  BY <1>1, <1>2, MovesOnward
<1>4. ~Versioning /\ want[r].op = "version" /\ want[r].file \in Files
      /\ Issued(held[r].key) /\ Owner(held[r].key) = want[r].file
  BY <1>2 DEF IInv, TypeOK, KeyInv
<1>5. NothingDangles'
  <2>1. ASSUME NEW f \in Files, Exists(f)'
        PROVE  rows'[f].key \in stored' \/ (~Versioning /\ reverted'[f] # {} /\ Revived(f)')
    <3>0. Exists(f)
      BY <1>2, <2>1 DEF Exists
    <3>1. CASE ~Versioning /\ reverted[f] # {} /\ Revived(f)
      BY <1>2, <1>3, <3>1, RevivedStays
    <3>2. CASE rows[f].key \in stored /\ rows[f].key # held[r].key
      BY <1>2, <3>2
    <3>3. CASE rows[f].key = held[r].key
      <4>1. f = want[r].file
        BY <1>4, <3>0, <3>3 DEF IInv, KeyInv
      <4>2. PutBack(f)
        BY <1>2, <3>3, <4>1 DEF StoreInv
      <4>3. PICK p \in Requests :
              /\ want[p].op = "patch" /\ want[p].file = f
              /\ pc[p] \in {"done", "failed"} /\ held[p].key = rows[f].key
        BY <4>2 DEF PutBack
      <4>4. pc'[p] = pc[p]
        BY <1>3, <4>3 DEF Onward
      <4>5. Revived(f)'
        BY <1>2, <1>3, <1>4, <3>3, <4>1, <4>3, <4>4 DEF Revived
      <4> QED
        BY <1>2, <1>4, <4>2, <4>5 DEF PutBack
    <3> QED
      BY <3>0, <3>1, <3>2, <3>3 DEF StoreInv, NothingDangles
  <2>2. versions' = {}
    BY <1>2, <1>4 DEF StoreInv
  <2> QED
    BY <2>1, <2>2 DEF NothingDangles
<1>6. ASSUME NEW q \in Requests, pc'[q] = "save", Writes(q)'
      PROVE  q \in stored'
  <2>1. pc[q] = "save" /\ Writes(q) /\ ~Issued(q)
    BY <1>2, <1>3, <1>6, FileStoreAssumption DEF Writes, Issued
  <2> QED
    BY <1>2, <1>4, <2>1 DEF StoreInv
<1>7. ASSUME NEW k \in stored', k # File0
      PROVE  Writes(k)' /\ pc'[k] \in {"save", "drop", "done", "failed"}
  <2>1. k \in Requests /\ Writes(k) /\ pc[k] \in {"save", "drop", "done", "failed"}
    BY <1>2, <1>7 DEF StoreInv, IInv, TypeOK, Keys, Files
  <2> QED
    BY <1>2, <1>3, <2>1 DEF Writes
<1>8. ASSUME NEW q \in Requests, want'[q].op # "upload"
      PROVE  held'[q].key \in stored' \/ Dropped(q)'
  <2>1. pc[q] # "idle" /\ want[q].op # "upload"
    BY <1>2, <1>8, OthersHaveBegun
  <2>2. CASE Dropped(q)
    BY <1>3, <2>1, <2>2, DroppedStays
  <2>3. CASE held[q].key \in stored /\ held[q].key # held[r].key
    BY <1>2, <2>3
  <2>4. CASE held[q].key = held[r].key
    <3>1. want[q].file = want[r].file
      BY <1>4, <2>1, <2>4 DEF IInv, KeyInv
    <3> QED
      BY <1>2, <1>3, <1>4, <2>4, <3>1 DEF Dropped
  <2> QED
    BY <2>1, <2>2, <2>3, <2>4 DEF StoreInv
<1>9. ASSUME NEW q \in Requests, pc'[q] = "missing"
      PROVE  Dropped(q)'
  <2>1. pc[q] = "missing"
    BY <1>3, <1>9
  <2> QED
    BY <1>3, <2>1, DroppedStays DEF StoreInv
<1>10. ASSUME NEW q \in Requests, pc'[q] = "drop"
       PROVE  rows'[want'[q].file].key # held'[q].key \/ PutBack(want[q].file)'
  <2>1. pc[q] = "drop" /\ want[q].file \in Files
    BY <1>3, <1>10 DEF IInv, TypeOK
  <2>2. PICK f \in Files : f = want[q].file /\ f = want'[q].file
    BY <1>2, <2>1
  <2>3. PutBack(f) => PutBack(f)'
    BY <1>2, <1>3, PutBackStays
  <2> QED
    BY <1>2, <2>1, <2>2, <2>3 DEF StoreInv
<1>11. ASSUME NEW q \in Requests, want'[q].op = "version", pc'[q] = "done", ~Versioning
       PROVE  held'[q].key \notin stored'
  BY <1>2, <1>3, <1>11 DEF StoreInv
<1>12. versions' # {} => Versioning
  BY <1>2 DEF StoreInv
<1> QED
  BY <1>5, <1>6, <1>7, <1>8, <1>9, <1>10, <1>11, <1>12 DEF StoreInv

LEMMA SaveStoreInv ==
  ASSUME IInv, StoreInv, NEW r \in Requests, Save(r)
  PROVE  StoreInv'
<1>0. PICK f : f = want[r].file
  OBVIOUS
<1>1. /\ Onward /\ UNCHANGED <<stored, want, held>> /\ pc[r] = "save"
      /\ pc'[r] \in {"drop", "done", "failed"}
      /\ pc'[r] = "drop" => DropsOld(r)
      /\ pc'[r] = "done" => ~DropsOld(r)
      /\ \A q \in Requests : q # r => pc'[q] = pc[q]
  BY SaveOnward
<1>2. /\ f \in Files
      /\ \A g \in Files : g # f => reverted'[g] = reverted[g] /\ rows'[g] = rows[g]
      /\ reverted'[f] = reverted[f] \cup Displaced(r)
      /\ versions' = IF KeepsVersion(r) THEN versions \cup {OldVersion(r)} ELSE versions
  BY <1>0, SaveFacts
<1>3. /\ Writes(r) => rows'[f].key = r /\ ~Issued(r)
      /\ ~Writes(r) /\ want[r].op # "patch" => rows'[f].key = rows[f].key
      /\ want[r].op = "patch" => rows'[f].key = held[r].key
      /\ want[r].op # "upload" => Exists(f)
  BY <1>0, SaveKeys
<1>4. rows'[f].key \in stored \/ (~Versioning /\ reverted'[f] # {} /\ Revived(f)')
  <2>1. CASE Writes(r)
    BY <1>1, <1>3, <2>1 DEF StoreInv
  <2>2. CASE ~Writes(r) /\ rows'[f].key = rows[f].key
    <3>1. Exists(f)
      BY <1>3, <2>2 DEF Writes
    <3>2. rows[f].key \in stored \/ (~Versioning /\ reverted[f] # {} /\ Revived(f))
      BY <1>2, <3>1 DEF StoreInv, NothingDangles
    <3> QED
      BY <1>1, <1>2, <2>2, <3>2, RevivedStays
  <2>3. CASE want[r].op = "patch" /\ held[r].key # rows[f].key /\ held[r].key \in stored
    BY <1>3, <2>3
  <2>4. CASE want[r].op = "patch" /\ held[r].key # rows[f].key /\ held[r].key \notin stored
    <3>1. rows[f].key \in reverted'[f]
      BY <1>0, <1>2, <2>4 DEF Displaced
    <3>2. Dropped(r)
      BY <2>4 DEF StoreInv
    <3>3. PICK v \in Requests :
            /\ want[v].op = "version" /\ want[v].file = f
            /\ held[v].key = held[r].key /\ pc[v] \in {"done", "failed"}
      BY <1>0, <3>2 DEF Dropped
    <3>4. v # r /\ pc'[v] = pc[v]
      BY <1>1, <3>3
    <3>5. pc'[r] \in {"done", "failed"}
      BY <1>1, <2>4 DEF DropsOld
    <3>6. Revived(f)'
      BY <1>0, <1>1, <1>3, <2>4, <3>3, <3>4, <3>5 DEF Revived
    <3> QED
      BY <3>1, <3>2, <3>6 DEF Dropped
  <2> QED
    BY <1>3, <2>1, <2>2, <2>3, <2>4 DEF Writes
<1>5. NothingDangles'
  <2>1. ASSUME NEW g \in Files, Exists(g)'
        PROVE  rows'[g].key \in stored' \/ (~Versioning /\ reverted'[g] # {} /\ Revived(g)')
    <3>1. CASE g = f
      BY <1>1, <1>4, <3>1
    <3>2. CASE g # f
      <4>1. rows'[g] = rows[g] /\ reverted'[g] = reverted[g] /\ Exists(g)
        BY <1>2, <2>1, <3>2 DEF Exists
      <4>2. rows[g].key \in stored \/ (~Versioning /\ reverted[g] # {} /\ Revived(g))
        BY <4>1 DEF StoreInv, NothingDangles
      <4> QED
        BY <1>1, <4>1, <4>2, RevivedStays
    <3> QED
      BY <3>1, <3>2
  <2>2. ASSUME NEW v \in versions'
        PROVE  v.key \in stored
    <3>1. CASE v \in versions
      BY <3>1 DEF StoreInv, NothingDangles
    <3>2. CASE KeepsVersion(r) /\ v = OldVersion(r)
      BY <3>2 DEF StoreInv, Dropped, KeepsVersion, OldVersion
    <3> QED
      BY <1>2, <3>1, <3>2
  <2> QED
    BY <1>1, <2>1, <2>2 DEF NothingDangles
<1>6. ASSUME NEW q \in Requests, pc'[q] = "save", Writes(q)'
      PROVE  q \in stored'
  BY <1>1, <1>6 DEF StoreInv, Writes
<1>7. ASSUME NEW k \in stored', k # File0
      PROVE  Writes(k)' /\ pc'[k] \in {"save", "drop", "done", "failed"}
  <2>1. k \in Requests /\ Writes(k) /\ pc[k] \in {"save", "drop", "done", "failed"}
    BY <1>1, <1>7 DEF StoreInv, IInv, TypeOK, Keys, Files
  <2> QED
    BY <1>1, <2>1 DEF Writes
<1>8. ASSUME NEW q \in Requests, want'[q].op # "upload"
      PROVE  held'[q].key \in stored' \/ Dropped(q)'
  BY <1>1, <1>8, OthersHaveBegun, DroppedStays DEF StoreInv
<1>9. ASSUME NEW q \in Requests, pc'[q] = "missing"
      PROVE  Dropped(q)'
  <2>1. pc[q] = "missing"
    BY <1>1, <1>9
  <2> QED
    BY <1>1, <2>1, DroppedStays DEF StoreInv
<1>10. ASSUME NEW q \in Requests, pc'[q] = "drop"
       PROVE  rows'[want'[q].file].key # held'[q].key \/ PutBack(want[q].file)'
  <2>0. want[q].op = "version" /\ (q = r \/ (q # r /\ pc[q] = "drop"))
    BY <1>1, <1>10 DEF DropsOld, IInv, TypeOK
  <2>1. PICK g \in Files : g = want[q].file /\ g = want'[q].file
    BY <1>1 DEF IInv, TypeOK
  <2>2. Issued(held[q].key) /\ Owner(held[q].key) = g
    BY <2>0, <2>1 DEF IInv, KeyInv
  <2>3. CASE g = f /\ Writes(r)
    BY <1>1, <1>3, <2>1, <2>2, <2>3
  <2>4. CASE g # f \/ ~Writes(r)
    <3>1. q # r /\ pc[q] = "drop"
      BY <1>0, <2>0, <2>1, <2>4 DEF Writes
    <3>2. rows[g].key # held[q].key \/ PutBack(g)
      BY <2>1, <3>1 DEF StoreInv
    <3>3. CASE rows'[g].key = rows[g].key
      <4>1. reverted[g] \subseteq reverted'[g]
        BY <1>2
      <4>2. PutBack(g) => PutBack(g)'
        BY <1>1, <3>3, <4>1, PutBackStays
      <4> QED
        BY <1>1, <2>1, <3>2, <3>3, <4>2
    <3>4. CASE rows'[g].key # rows[g].key /\ rows'[g].key = held[q].key
      <4>1. g = f /\ want[r].op = "patch"
        BY <1>2, <1>3, <2>4, <3>4
      <4>2. rows'[g].key = held[r].key /\ rows[g].key \in reverted'[g]
        BY <1>0, <1>2, <1>3, <3>4, <4>1 DEF Displaced
      <4>3. pc'[r] \in {"done", "failed"}
        BY <1>1, <4>1 DEF DropsOld
      <4>4. PutBack(g)'
        BY <1>0, <1>1, <4>1, <4>2, <4>3 DEF PutBack
      <4> QED
        BY <2>1, <4>4
    <3> QED
      BY <1>1, <2>1, <3>3, <3>4
  <2> QED
    BY <2>3, <2>4
<1>11. ASSUME NEW q \in Requests, want'[q].op = "version", pc'[q] = "done", ~Versioning
       PROVE  held'[q].key \notin stored'
  <2>1. q # r
    BY <1>1, <1>11 DEF DropsOld
  <2> QED
    BY <1>1, <1>11, <2>1 DEF StoreInv
<1>12. versions' # {} => Versioning
  BY <1>2 DEF StoreInv, KeepsVersion
<1> QED
  BY <1>5, <1>6, <1>7, <1>8, <1>9, <1>10, <1>11, <1>12 DEF StoreInv

LEMMA NextStoreInv == IInv /\ StoreInv /\ [Next]_vars => StoreInv'
<1> SUFFICES ASSUME IInv, StoreInv, [Next]_vars PROVE StoreInv'
  OBVIOUS
<1>1. CASE UNCHANGED vars
  BY <1>1 DEF vars, StoreInv, NothingDangles, Revived, PutBack, Dropped, Exists, Writes
<1>2. CASE Next
  BY <1>1, <1>2, GrowStoreInv, DropStoreInv, SaveStoreInv, MoveCases DEF Next, Ended
<1> QED
  BY <1>1, <1>2

LEMMA StoreInvariant == Spec => []StoreInv
BY InitStoreInv, NextStoreInv, Invariant, PTL DEF Spec

\* No row and no version names an object that is gone, whatever fails and
\* however requests overlap, but for one row: that of a file of an unversioned
\* bucket into which a PATCH wrote back a key that a version upload had loaded
\* too, and deletes (upload_new_version, FileDetailView.patch).
THEOREM NothingDanglesHolds == Spec => []NothingDangles
<1>1. StoreInv => NothingDangles
  BY DEF StoreInv
<1> QED
  BY <1>1, StoreInvariant, PTL

-----------------------------------------------------------------------------
(***************************************************************************)
(* What explains an object without a name, and a content that cannot be    *)
(* reached: the two invariants together.                                   *)
(***************************************************************************)

\* A content that was replaced is a version, or the version upload that holds it
\* has still to delete it.
LEMMA GoneAccounted ==
  ASSUME StoreInv, NEW f \in Files, NEW k \in Gone(f) \cap stored
  PROVE  \/ k \in Referenced
         \/ \E r \in Requests : want[r].op = "version" /\ held[r].key = k
                                /\ pc[r] \in {"drop", "failed"}
<1>1. CASE Versioning
  BY <1>1 DEF Gone, Kept, Referenced
<1>2. CASE ~Versioning
  <2>1. PICK u \in Replacers(f) : k = held[u].key
    BY <1>2 DEF Gone
  <2>2. pc[u] # "done"
    BY <1>2, <2>1 DEF StoreInv, Replacers
  <2> QED
    BY <2>1, <2>2 DEF Replacers
<1> QED
  BY <1>1, <1>2

LEMMA CurrentReferenced ==
  ASSUME NEW f \in Files, NEW k \in Current(f)
  PROVE  k \in Referenced
BY DEF Current, Referenced

LEMMA KeptReferenced ==
  ASSUME NEW f \in Files, NEW k \in Kept(f)
  PROVE  k \in Referenced
BY DEF Kept, Referenced

\* In either kind of bucket, whatever fails and however requests overlap, an
\* object without a name and a download without an object are explained by the
\* version uploads and the PATCHes that went before (upload_new_version,
\* FileDetailView.patch, FileDownloadView).
THEOREM ObjectsAlwaysAccounted == Spec => []ObjectsAccounted
<1>1. IInv /\ LineInv /\ StoreInv => OrphansAccounted
  <2> SUFFICES ASSUME IInv, LineInv, StoreInv, NEW k \in stored \ Referenced
               PROVE  \/ k \in Requests /\ pc[k] \in {"save", "failed"}
                      \/ \E r \in Requests : want[r].op = "version" /\ held[r].key = k
                                             /\ pc[r] \in {"drop", "failed"}
                      \/ k \in Requests /\ ReplacedTwice(want[k].file)
                      \/ \E f \in Files : k \in reverted[f]
    BY DEF OrphansAccounted
  <2>1. CASE k = File0
    <3>1. File0 \in Files
      BY DEF Files
    <3>2. File0 # rows[File0].key
      BY <2>1, <3>1, CurrentReferenced DEF LineInv, Current
    <3>3. File0 \in reverted[File0] \cup Gone(File0)
      BY <3>2 DEF LineInv, Untouched
    <3> QED
      BY <2>1, <3>1, <3>3, GoneAccounted
  <2>2. CASE k # File0
    <3>1. k \in Requests /\ Writes(k) /\ pc[k] \in {"save", "drop", "done", "failed"}
      BY <2>2 DEF StoreInv, IInv, TypeOK, Keys, Files
    <3>2. PICK f \in Files : f = want[k].file
      BY <3>1 DEF IInv, TypeOK
    <3>3. CASE pc[k] \in {"save", "failed"}
      BY <3>1, <3>3
    <3>4. CASE pc[k] \in {"drop", "done"} /\ Doubtful(f)
      BY <3>1, <3>2, <3>4 DEF Doubtful
    <3>5. CASE k \in Known(f)
      BY <3>5, CurrentReferenced, GoneAccounted DEF Known
    <3>6. pc[k] \in {"drop", "done"} => k \in Known(f) \/ Doubtful(f)
      BY <3>1, <3>2 DEF LineInv
    <3> QED
      BY <3>1, <3>3, <3>4, <3>5, <3>6
  <2> QED
    BY <2>1, <2>2
<1>2. StoreInv => MissingAccounted
  BY DEF StoreInv, MissingAccounted, Dropped
<1>3. IInv /\ LineInv /\ StoreInv => ObjectsAccounted
  BY <1>1, <1>2 DEF ObjectsAccounted
<1> QED
  BY <1>3, Invariant, LineInvariant, StoreInvariant, PTL

\* In a versioned bucket content that was uploaded with success stays current
\* or a version of its file through any later requests and faults, but for one
\* content of a file at a time: the latest, while a PATCH that loaded the row
\* before it shows an earlier one (upload_new_version, FileDetailView.patch).
THEOREM NothingIsLostHolds == Spec => []NothingIsLost
<1>1. IInv /\ LineInv => NothingIsLost
  <2> SUFFICES ASSUME IInv, LineInv, Versioning, NEW r \in Requests,
                      pc[r] = "done", Writes(r), r \notin Referenced, NEW f, f = want[r].file
               PROVE  /\ r \in reverted[f]
                      /\ \E v \in versions : v.file = f /\ v.key = rows[f].key
                      /\ \A q \in Requests \ {r} :
                           pc[q] = "done" /\ Writes(q) /\ want[q].file = f => q \in Referenced
    BY DEF NothingIsLost
  <2>1. f \in Files /\ ~Doubtful(f) /\ Gone(f) = Kept(f) /\ OneLatest(f)
    BY DEF IInv, TypeOK, Doubtful, Gone, LineInv
  <2>2. \A q \in Requests : pc[q] = "done" /\ Writes(q) /\ want[q].file = f =>
          q \in Current(f) \cup reverted[f] \cup Kept(f)
    BY <2>1 DEF LineInv, Known
  <2>3. r \in reverted[f] /\ r \notin Kept(f)
    BY <2>1, <2>2, CurrentReferenced, KeptReferenced
  <2>4. Exists(f)
    BY <2>1, <2>3 DEF IInv, KeyInv
  <2>5. rows[f].key \in Kept(f)
    <3>1. rows[f].key \in Current(f) /\ rows[f].key # r
      BY <2>1, <2>4, CurrentReferenced DEF Current
    <3> QED
      BY <2>1, <2>3, <3>1 DEF OneLatest
  <2>6. ASSUME NEW q \in Requests \ {r}, pc[q] = "done", Writes(q), want[q].file = f
        PROVE  q \in Referenced
    <3>1. CASE q \in Current(f) \cup Kept(f)
      BY <2>1, <3>1, CurrentReferenced, KeptReferenced
    <3>2. CASE q \in reverted[f] \ Kept(f)
      BY <2>1, <2>3, <2>6, <3>2 DEF OneLatest
    <3> QED
      BY <2>2, <2>6, <3>1, <3>2
  <2> QED
    BY <2>3, <2>5, <2>6 DEF Kept
<1> QED
  BY <1>1, Invariant, LineInvariant, PTL

-----------------------------------------------------------------------------
(***************************************************************************)
(* The refinement: a save of new content is Archive's Write, that of a     *)
(* PATCH its Show, every other step a stutter.                             *)
(***************************************************************************)
Shown  == [f \in Files |-> Current(f)]
Past   == [f \in Files |-> Kept(f)]
Latest == [f \in Files |-> (Current(f) \cup reverted[f]) \ Kept(f)]

LEMMA InitRefines == Init => Archive!Init
<1> SUFFICES ASSUME Init PROVE Archive!Init
  OBVIOUS
<1>0. PICK p \in Places :
        /\ rows = [f \in Files |-> [status |-> IF f = File0 THEN "active" ELSE "none",
                                    key |-> f, sum |-> f, place |-> p]]
        /\ versions = {} /\ reverted = [f \in Files |-> {}]
  BY DEF Init
<1>1. \A f \in Files : (Exists(f) <=> f = File0) /\ rows[f].key = f /\ reverted[f] = {}
  BY <1>0 DEF Exists
<1>2. \A f \in Files : Kept(f) = {} /\ Current(f) = IF f = File0 THEN {File0} ELSE {}
  BY <1>0, <1>1 DEF Kept, Current
<1>3. Shown = [g \in Files |-> IF g = File0 THEN {File0} ELSE {}] /\ Latest = Shown
  BY <1>1, <1>2 DEF Shown, Latest
<1>4. Past = [f \in Files |-> {}]
  BY <1>2 DEF Past
<1>5. File0 \in Files /\ File0 \in Keys
  BY DEF Files, Keys
<1> QED
  BY <1>3, <1>4, <1>5 DEF Archive!Init, Shown, Latest, Past

\* A key that has not been issued is in no file's content.
LEMMA UnissuedIsUnused ==
  ASSUME IInv, NEW k, ~Issued(k)
  PROVE  k \notin Archive!Used
<1>1. \A f \in Files : k \notin Current(f) /\ k \notin Kept(f) /\ k \notin reverted[f]
  BY DEF IInv, KeyInv, Current, Kept
<1> QED
  BY <1>1 DEF Archive!Used

LEMMA SaveRefines ==
  ASSUME IInv, LineInv, Versioning, NEW r \in Requests, Save(r)
  PROVE  [Archive!Next]_(Archive!archiveVars)
<1>0. PICK f : f = want[r].file
  OBVIOUS
<1>1. /\ f \in Files /\ UNCHANGED <<want, held>>
      /\ \A g \in Files : g # f => rows'[g] = rows[g] /\ reverted'[g] = reverted[g]
      /\ reverted'[f] = reverted[f] \cup Displaced(r)
      /\ versions' = IF KeepsVersion(r) THEN versions \cup {OldVersion(r)} ELSE versions
  BY <1>0, SaveFacts
<1>2. /\ Writes(r) => rows'[f].key = r /\ ~Issued(r)
      /\ want[r].op = "upload" => ~Exists(f) /\ reverted[f] = {} /\ Kept(f) = {}
      /\ ~Writes(r) /\ want[r].op # "patch" => rows'[f].key = rows[f].key
      /\ want[r].op = "patch" => rows'[f].key = held[r].key
      /\ want[r].op # "upload" => Exists(f)
      /\ Exists(f)'
  <2>1. Exists(f)'
    BY <1>0, <1>1, SaveKeys
  <2> QED
    BY <1>0, <2>1, SaveKeys
<1>3. Current(f)' = {rows'[f].key}
  BY <1>2 DEF Current
<1>4. \A g \in Files : g # f => Current(g)' = Current(g)
  BY <1>1 DEF Current, Exists
<1>5. f \in Files /\ ~Doubtful(f) /\ Gone(f) = Kept(f) /\ OneLatest(f)
  BY <1>1 DEF Doubtful, Gone, LineInv
<1>6. CASE ~Writes(r)
  <2>1. \A g \in Files : Kept(g)' = Kept(g)
    BY <1>1, <1>6 DEF Kept, KeepsVersion, Writes
  <2>2. CASE want[r].op # "patch"
    <3>1. Current(f)' = Current(f) /\ reverted'[f] = reverted[f]
      BY <1>1, <1>2, <1>3, <1>6, <2>2 DEF Current, Displaced, Writes
    <3>2. \A g \in Files : Current(g)' = Current(g) /\ reverted'[g] = reverted[g]
      BY <1>1, <1>4, <3>1
    <3>3. Shown' = Shown /\ Past' = Past /\ Latest' = Latest
      BY <2>1, <3>2 DEF Shown, Past, Latest
    <3> QED
      BY <3>3 DEF Archive!archiveVars, Shown, Past, Latest
  <2>3. CASE want[r].op = "patch"
    <3>1. PICK h : h = held[r].key
      OBVIOUS
    <3>2. Current(f) = {rows[f].key} /\ Current(f)' = {h}
      BY <1>2, <1>3, <2>3, <3>1 DEF Current
    <3>3. h \in Current(f) \cup reverted[f] \cup Kept(f)
      BY <1>0, <1>5, <2>3, <3>1 DEF LineInv, Known
    <3>4. Current(f)' \cup reverted'[f] = Current(f) \cup reverted[f] \cup {h}
      BY <1>0, <1>1, <2>3, <3>1, <3>2 DEF Displaced
    <3>5. (Current(f)' \cup reverted'[f]) \ Kept(f) = (Current(f) \cup reverted[f]) \ Kept(f)
      BY <3>3, <3>4
    <3>6. \A g \in Files : (Current(g)' \cup reverted'[g]) \ Kept(g)
                             = (Current(g) \cup reverted[g]) \ Kept(g)
      BY <1>1, <1>4, <3>5
    <3>7. Past' = Past /\ Latest' = Latest
      BY <2>1, <3>6 DEF Past, Latest
    <3>8. Shown' = [Shown EXCEPT ![f] = {h}]
      <4>1. \A g \in Files : Shown'[g] = IF g = f THEN {h} ELSE Shown[g]
        BY <1>4, <3>2 DEF Shown
      <4> QED
        BY <4>1 DEF Shown
    <3>9. h \in Latest[f] \cup Past[f]
      BY <1>1, <3>3 DEF Latest, Past
    <3>10. h \in Keys
      BY <3>1 DEF IInv, TypeOK, Row
    <3>11. Archive!Show(f, h)
      BY <3>7, <3>8, <3>9 DEF Archive!Show, Shown, Past, Latest
    <3> QED
      BY <1>1, <3>10, <3>11 DEF Archive!Next
  <2> QED
    BY <2>2, <2>3
<1>7. CASE Writes(r)
  <2>1. /\ Current(f)' = {r} /\ r \notin Archive!Used /\ ~Issued(r)
        /\ reverted'[f] = reverted[f] /\ r \in Keys
    BY <1>1, <1>2, <1>3, <1>7, UnissuedIsUnused DEF Displaced, Writes, Keys, Files
  <2>2. r \notin Kept(f) /\ r \notin reverted[f]
    BY <1>1, <2>1 DEF IInv, KeyInv, Kept
  <2>3. /\ \A g \in Files : g # f => Kept(g)' = Kept(g)
        /\ Kept(f)' = Kept(f) \cup ((Current(f) \cup reverted[f]) \ Kept(f))
        /\ r \notin Kept(f)'
    <3>1. CASE want[r].op = "upload"
      <4>1. versions' = versions
        BY <1>1, <3>1 DEF KeepsVersion
      <4>2. \A g \in Files : Kept(g)' = Kept(g)
        BY <4>1 DEF Kept
      <4>3. Current(f) = {} /\ reverted[f] = {}
        BY <1>2, <3>1 DEF Current
      <4> QED
        BY <1>1, <2>2, <4>2, <4>3
    <3>2. CASE want[r].op = "version"
      <4>1. PICK h : h = held[r].key
        OBVIOUS
      <4>2. \A k \in (Current(f) \cup reverted[f]) \ Kept(f) : k = h
        BY <1>0, <1>5, <3>2, <4>1, ReplacesLatest
      <4>3. h \in Current(f) \cup reverted[f] \cup Kept(f) /\ Issued(h)
        BY <1>0, <1>5, <3>2, <4>1 DEF LineInv, Known, IInv, KeyInv
      <4>4. /\ versions' = versions \cup {OldVersion(r)}
            /\ OldVersion(r).file = f /\ OldVersion(r).key = h
        BY <1>0, <1>1, <3>2, <4>1 DEF KeepsVersion, OldVersion
      <4>5. Kept(f)' = Kept(f) \cup {h} /\ \A g \in Files : g # f => Kept(g)' = Kept(g)
        BY <4>4 DEF Kept
      <4>6. h \notin Kept(f)
        <5>1. VersionIsNew(r)
          BY SaveFacts DEF Accepts
        <5> QED
          BY <3>2, <4>1, <5>1 DEF VersionIsNew, KeepsVersion, Kept
      <4> QED
        BY <2>1, <2>2, <4>2, <4>3, <4>5, <4>6
    <3> QED
      BY <1>7, <3>1, <3>2 DEF Writes
  <2>4. (Current(f)' \cup reverted'[f]) \ Kept(f)' = {r}
    BY <2>1, <2>3
  <2>5. Shown' = [Shown EXCEPT ![f] = {r}]
    <3>1. \A g \in Files : Shown'[g] = IF g = f THEN {r} ELSE Shown[g]
      BY <1>4, <2>1 DEF Shown
    <3> QED
      BY <3>1 DEF Shown
  <2>6. Latest' = [Latest EXCEPT ![f] = {r}]
    <3>1. \A g \in Files : Latest'[g] = IF g = f THEN {r} ELSE Latest[g]
      BY <1>1, <1>4, <2>3, <2>4 DEF Latest
    <3> QED
      BY <3>1 DEF Latest
  <2>7. Past' = [Past EXCEPT ![f] = @ \cup Latest[f]]
    <3>1. \A g \in Files : Past'[g] = IF g = f THEN Past[g] \cup Latest[g] ELSE Past[g]
      BY <1>1, <2>3 DEF Past, Latest
    <3> QED
      BY <3>1 DEF Past
  <2>8. Archive!Write(f, r)
    BY <2>1, <2>5, <2>6, <2>7 DEF Archive!Write, Shown, Past, Latest
  <2> QED
    BY <1>1, <2>1, <2>8 DEF Archive!Next
<1> QED
  BY <1>6, <1>7

\* A versioned bucket implements the append-only archive, however requests
\* overlap: the latest content is replaced by fresh content only, and joins the
\* past of its file in the same step; a PATCH only chooses among them
\* (upload_new_version, FileDetailView.patch).
THEOREM ArchiveImplemented ==
  ASSUME Versioning
  PROVE  Spec => ImplementsArchive
<1>1. IInv /\ LineInv /\ [Next]_vars => [Archive!Next]_(Archive!archiveVars)
  <2> SUFFICES ASSUME IInv, LineInv, [Next]_vars
               PROVE  [Archive!Next]_(Archive!archiveVars)
    OBVIOUS
  <2>1. ASSUME UNCHANGED <<rows, versions, reverted>>
        PROVE  UNCHANGED Archive!archiveVars
    BY <2>1 DEF Archive!archiveVars, Exists, Current, Kept
  <2>2. CASE UNCHANGED vars
    BY <2>1, <2>2 DEF vars
  <2>3. CASE Next
    BY <2>1, <2>2, <2>3, SaveRefines, QuietFacts, MoveCases DEF Next, Ended
  <2> QED
    BY <2>2, <2>3
<1> QED
  BY <1>1, InitRefines, Invariant, LineInvariant, PTL
  DEF Spec, ImplementsArchive, Archive!Spec
=============================================================================
