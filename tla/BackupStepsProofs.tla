------------------------- MODULE BackupStepsProofs --------------------------
(***************************************************************************)
(* The steps of a backup, each by itself, for every value of the           *)
(* constants: versions keep the order in which they were made, a file is   *)
(* stored under the key of its content, a listing of a bucket or of an     *)
(* archive names what is there, and a stored tree holds exactly the        *)
(* entries of its source.                                                  *)
(***************************************************************************)
EXTENDS BackupSteps, SequenceTheorems, FiniteSetTheorems, WellFoundedInduction, TLAPS

-----------------------------------------------------------------------------
(* VersionOrder: for any IDs, clock, tolerance and number of backups. *)

\* Every set of versions in the store has a latest one.
HasLatest(S) == \E v \in S : \A w \in S : NotAfter(w, v)

\* What the store's versions and their history look like.
StoredOK ==
    /\ Stored \subseteq IDs
    /\ DOMAIN born = Stored
    /\ made \in Nat
    /\ \A v \in Stored : versions[v].ts \in Nat /\ born[v] \in Nat /\ born[v] <= made
    /\ \A v, w \in Stored : v # w => born[v] # born[w]
    /\ \A S \in SUBSET Stored : S # {} => HasLatest(S)

\* An orderly store: newer by timestamp is newer by birth.
OrderlyOK == orderly => \A v, w \in Stored : born[v] < born[w] => versions[v].ts < versions[w].ts

\* What a running backup found still holds.
RunOK ==
    run.on => /\ run.id \in IDs \cup {Zero}
              /\ run.ts \in Times \cup {Zero}
              /\ run.id \notin Stored
              /\ run.ts # Zero => \A v \in Stored : versions[v].ts < run.ts
              /\ orderly => run.latest = Previous

OrderInv == clock \in Times /\ StoredOK /\ OrderlyOK /\ RunOK

-----------------------------------------------------------------------------

\* latestVersion finds the greatest timestamp.
LEMMA LatestIsGreatest ==
    ASSUME StoredOK, Stored # {}
    PROVE  /\ LatestVersion \in Stored
           /\ \A w \in Stored : NotAfter(w, LatestVersion)
<1>1. \E v \in Stored : \A w \in Stored : NotAfter(w, v)
  BY DEF StoredOK, HasLatest
<1> QED
  BY <1>1 DEF LatestVersion

\* In an orderly store only the version made last is after all others.
LEMMA GreatestIsPrevious ==
    ASSUME StoredOK, OrderlyOK, orderly,
           NEW v \in Stored, \A w \in Stored : versions[w].ts <= versions[v].ts
    PROVE  v = Previous
<1>1. ASSUME NEW w \in Stored
      PROVE  born[w] <= born[v]
  BY OrderAssumption DEF StoredOK, OrderlyOK
<1>2. Previous \in Stored /\ \A w \in Stored : born[w] <= born[Previous]
  BY <1>1 DEF Previous
<1> QED
  BY <1>1, <1>2 DEF StoredOK

\* latestVersion of an orderly store is the version made last.
LEMMA LatestIsPrevious ==
    ASSUME StoredOK, OrderlyOK, orderly
    PROVE  LatestVersion = Previous
<1>1. CASE Stored = {}
  BY <1>1 DEF LatestVersion, Previous
<1>2. CASE Stored # {}
  <2>1. LatestVersion \in Stored /\ \A w \in Stored : versions[w].ts <= versions[LatestVersion].ts
    BY <1>2, LatestIsGreatest DEF NotAfter, StoredOK
  <2> QED
    BY <2>1, GreatestIsPrevious
<1> QED
  BY <1>1, <1>2

-----------------------------------------------------------------------------
(* One lemma per action. *)

\* A new store has no versions and no backup runs.
LEMMA InitInv == Init => OrderInv
BY OrderAssumption DEF Init, OrderInv, StoredOK, OrderlyOK, RunOK, Stored, NoRun

\* RunBackup's first checks: a custom ID is new, a custom timestamp is newer than any.
LEMMA StartBackupInv ==
    ASSUME OrderInv, NEW id \in IDs \cup {Zero}, NEW ts \in Times \cup {Zero}, NEW s \in BOOLEAN,
           StartBackup(id, ts, s)
    PROVE  OrderInv'
<1>1. Stored' = Stored /\ Previous' = Previous
  BY DEF StartBackup, Stored, Previous
<1>2. StoredOK' /\ OrderlyOK' /\ clock' \in Times
  BY <1>1 DEF StartBackup, OrderInv, StoredOK, OrderlyOK, HasLatest, NotAfter
<1>3. ASSUME ts # Zero, NEW v \in Stored
      PROVE  versions[v].ts < ts
  <2>1. LatestVersion \in Stored /\ NotAfter(v, LatestVersion)
    BY LatestIsGreatest DEF OrderInv
  <2>2. versions[LatestVersion].ts < ts
    BY <1>3 DEF StartBackup, Acceptable
  <2>3. versions[v].ts \in Nat /\ versions[LatestVersion].ts \in Nat
    BY <2>1 DEF OrderInv, StoredOK
  <2>4. ts \in Nat
    BY OrderAssumption DEF Zero
  <2>5. versions[v].ts <= versions[LatestVersion].ts
    BY <2>1, <2>3 DEF NotAfter
  <2> QED
    BY <2>2, <2>3, <2>4, <2>5
<1>4. orderly => LatestVersion = Previous
  BY LatestIsPrevious DEF OrderInv
<1>5. RunOK'
  BY <1>1, <1>3, <1>4 DEF StartBackup, Acceptable, RunOK
<1> QED
  BY <1>2, <1>5 DEF OrderInv

\* RunBackup's commit: the version made becomes the newest by birth and, in an orderly
\* store, by timestamp.
LEMMA CommitInv ==
    ASSUME OrderInv, NEW id \in IDs, Commit(id)
    PROVE  OrderInv'
<1> USE OrderAssumption
<1>1. /\ Stored' = Kept \cup {id}
      /\ Kept \subseteq Stored
      /\ id \notin Stored
  BY DEF Commit, Stored, Kept, VersionIDs, OrderInv, RunOK, Zero
<1>2. BackupTime \in Nat
  BY DEF Commit, BackupTime, OrderInv, RunOK, Zero
<1>3. /\ versions'[id].ts = BackupTime
      /\ born'[id] = made + 1
      /\ \A v \in Kept : v # id /\ versions'[v] = versions[v] /\ born'[v] = born[v]
  BY <1>1 DEF Commit
<1>4. /\ Stored' \subseteq IDs
      /\ DOMAIN born' = Stored'
      /\ made' \in Nat
      /\ \A v \in Stored' : versions'[v].ts \in Nat /\ born'[v] \in Nat /\ born'[v] <= made'
      /\ \A v, w \in Stored' : v # w => born'[v] # born'[w]
  <2>1. made' = made + 1 /\ DOMAIN born' = Kept \cup {id}
    BY DEF Commit
  <2> QED
    BY <1>1, <1>2, <1>3, <2>1 DEF OrderInv, StoredOK
<1>5. ASSUME NEW S \in SUBSET Stored', S # {}
      PROVE  HasLatest(S)'
  <2>1. CASE S \ {id} = {}
    <3>1. S = {id} /\ NotAfter(id, id)'
      BY <1>2, <1>3, <1>5, <2>1 DEF NotAfter
    <3> QED
      BY <3>1 DEF HasLatest
  <2>2. CASE S \ {id} # {}
    <3>1. S \ {id} \in SUBSET Stored /\ S \ {id} \subseteq Kept
      BY <1>1
    <3>2. PICK m \in S \ {id} : \A w \in S \ {id} : NotAfter(w, m)
      BY <2>2, <3>1 DEF OrderInv, StoredOK, HasLatest
    <3>3. \A w \in S \ {id} : NotAfter(w, m)'
      BY <1>3, <3>1, <3>2 DEF NotAfter
    <3>4. NotAfter(m, m)' /\ NotAfter(id, id)'
      BY <1>1, <1>2, <1>3, <3>1, <1>4 DEF NotAfter
    <3>5. NotAfter(id, m)' \/ NotAfter(m, id)'
      BY <1>1, <1>2, <1>3, <1>4, <3>1 DEF NotAfter
    <3>6. CASE NotAfter(id, m)'
      BY <3>2, <3>3, <3>6 DEF HasLatest
    <3>7. CASE NotAfter(m, id)' /\ id \in S
      <4>1. \A w \in S \ {id} : NotAfter(w, id)'
        BY <1>1, <1>3, <1>4, <3>1, <3>2, <3>3, <3>7 DEF NotAfter
      <4> QED
        BY <3>4, <3>7, <4>1 DEF HasLatest
    <3>8. CASE id \notin S
      BY <3>2, <3>3, <3>8 DEF HasLatest
    <3> QED
      BY <3>5, <3>6, <3>7, <3>8
  <2> QED
    BY <2>1, <2>2
<1>6. StoredOK'
  BY <1>4, <1>5 DEF StoredOK
<1>7. OrderlyOK'
  <2>1. SUFFICES ASSUME orderly', NEW v \in Stored', NEW w \in Stored', born'[v] < born'[w]
                 PROVE  versions'[v].ts < versions'[w].ts
    BY DEF OrderlyOK
  <2>2. orderly /\ \A x \in Stored : versions[x].ts < BackupTime
    BY <2>1, Zenon DEF Commit
  <2>3. CASE v \in Kept /\ w \in Kept
    BY <1>1, <1>3, <2>1, <2>2, <2>3 DEF OrderInv, OrderlyOK
  <2>4. CASE v \in Kept /\ w = id
    BY <1>1, <1>3, <2>2, <2>4
  <2>5. CASE v = id
    <3>1. born'[v] = made + 1 /\ made \in Nat
      BY <1>3, <2>5 DEF OrderInv, StoredOK
    <3>2. born'[w] \in Nat /\ born'[w] <= made + 1
      BY <1>4 DEF Commit
    <3> QED
      BY <2>1, <3>1, <3>2
  <2> QED
    BY <1>1, <2>3, <2>4, <2>5
<1>8. RunOK'
  BY DEF Commit, RunOK, NoRun
<1> QED
  BY <1>6, <1>7, <1>8 DEF Commit, OrderInv

\* DeleteVersion leaves the order of the others as it was.
LEMMA DeleteVersionInv ==
    ASSUME OrderInv, NEW id \in IDs, DeleteVersion(id)
    PROVE  OrderInv'
<1>1. /\ Stored' = Stored \ {id}
      /\ DOMAIN born' = Stored \ {id}
      /\ \A v \in Stored' : versions'[v] = versions[v] /\ born'[v] = born[v]
  BY DEF DeleteVersion, Stored
<1>2. \A S \in SUBSET Stored' : S # {} => HasLatest(S)'
  BY <1>1 DEF OrderInv, StoredOK, HasLatest, NotAfter
<1>3. StoredOK' /\ OrderlyOK'
  BY <1>1, <1>2 DEF DeleteVersion, OrderInv, StoredOK, OrderlyOK
<1>4. RunOK'
  BY DEF DeleteVersion, RunOK
<1> QED
  BY <1>3, <1>4 DEF DeleteVersion, OrderInv

\* A backup that fails, a query, the clock and stuttering leave the store alone.
LEMMA OtherStepsInv ==
    ASSUME OrderInv, UNCHANGED <<versions, made, born, orderly>>, run' \in {run, NoRun},
           clock' \in Times
    PROVE  OrderInv'
<1>1. Stored' = Stored /\ Previous' = Previous
  BY DEF Stored, Previous
<1>2. StoredOK' /\ OrderlyOK'
  BY <1>1 DEF OrderInv, StoredOK, OrderlyOK, HasLatest, NotAfter
<1>3. RunOK'
  BY <1>1 DEF OrderInv, RunOK, NoRun
<1> QED
  BY <1>2, <1>3 DEF OrderInv

\* Every step of RunBackup and of the client keeps the invariant.
LEMMA NextInv == OrderInv /\ [Next]_vars => OrderInv'
<1> SUFFICES ASSUME OrderInv, [Next]_vars
             PROVE  OrderInv'
  OBVIOUS
<1>1. ASSUME NEW id \in IDs \cup {Zero}, NEW ts \in Times \cup {Zero}, NEW s \in BOOLEAN,
             StartBackup(id, ts, s)
      PROVE  OrderInv'
  BY <1>1, StartBackupInv
<1>2. CASE FailBackup
  BY <1>2, OtherStepsInv DEF FailBackup, OrderInv
<1>3. ASSUME NEW id \in IDs, Commit(id)
      PROVE  OrderInv'
  BY <1>3, CommitInv
<1>4. ASSUME NEW id \in IDs, DeleteVersion(id)
      PROVE  OrderInv'
  BY <1>4, DeleteVersionInv
<1>5. ASSUME NEW id \in IDs, Report(id)
      PROVE  OrderInv'
  BY <1>5, OtherStepsInv DEF Report, OrderInv
<1>6. ASSUME NEW t \in Times, SetClock(t)
      PROVE  OrderInv'
  BY <1>6, OtherStepsInv DEF SetClock
<1>7. CASE UNCHANGED vars
  BY <1>7, OtherStepsInv DEF vars, OrderInv
<1> QED
  BY <1>1, <1>2, <1>3, <1>4, <1>5, <1>6, <1>7 DEF Next

-----------------------------------------------------------------------------

\* The invariant behind the order of versions: what a running backup (RunBackup) found
\* when it started still holds when it commits, and every store has a latest version.
THEOREM OrderInvariant == Spec => []OrderInv
<1> QED
  BY InitInv, NextInv, PTL DEF Spec

\* A commit (RunBackup) replaces no version, a custom timestamp is the newest, and in an
\* orderly store PrecedingVersionId and LatestVersion name the version made last.
LEMMA StepKeepsHistory == OrderInv => HistoryStep
<1> SUFFICES ASSUME OrderInv
             PROVE  HistoryStep
  OBVIOUS
<1>1. ASSUME NEW id \in IDs, Commit(id)
      PROVE  /\ id \notin Stored
             /\ run.ts # Zero => \A v \in Stored : versions[v].ts < versions'[id].ts
             /\ orderly => versions'[id].prev = Previous
  <2>1. versions'[id] = [ts |-> BackupTime, prev |-> run.latest]
    BY <1>1 DEF Commit
  <2>2. id \notin Stored
    BY <1>1 DEF Commit, VersionIDs, OrderInv, RunOK
  <2> QED
    BY <1>1, <2>1, <2>2 DEF Commit, BackupTime, OrderInv, RunOK
<1>2. ASSUME NEW id \in IDs, Report(id), orderly
      PROVE  id = Previous
  BY <1>2, GreatestIsPrevious DEF Report, OrderInv
<1> QED
  BY <1>1, <1>2 DEF HistoryStep

\* Versions keep the order in which they were made (RunBackup's ordering checks, and
\* StoreMetadata.LatestVersion), for any clock and number of backups.
THEOREM HistoryKept == Spec => VersionHistory
<1> QED
  BY OrderInvariant, StepKeepsHistory, PTL DEF Spec, VersionHistory

\* In the specification of all steps: the task never changes, and the one of versions takes
\* the steps of VersionOrder.
LEMMA VersionTask == StepSpec => [](task = "version" => OrderInv)
<1>1. StepInit => (task = "version" => OrderInv)
  BY InitInv DEF StepInit
<1>2. (task = "version" => OrderInv) /\ [StepNext]_stepVars => (task = "version" => OrderInv)'
  <2>1. SUFFICES ASSUME task = "version" => OrderInv, [StepNext]_stepVars, task' = "version"
                 PROVE  OrderInv'
    OBVIOUS
  <2>2. task' = task /\ [Next]_vars
    BY <2>1 DEF StepNext, stepVars
  <2>3. QED
    BY <2>1, <2>2, NextInv
<1>3. QED
  BY <1>1, <1>2, PTL DEF StepSpec

\* Versions keep the order in which they were made, in that specification.
THEOREM OrderKept == StepSpec => VersionsOrdered
<1>1. (task = "version" => OrderInv) => [task = "version" => HistoryStep]_stepVars
  BY StepKeepsHistory
<1>2. QED
  BY <1>1, VersionTask, PTL DEF StepSpec, VersionsOrdered

-----------------------------------------------------------------------------
(* EntryPart: for files of any length. *)

\* What a server answers to a GET of a range.
LEMMA Served ==
    ASSUME NEW st, NEW obj, NEW h, h # <<>>, Len(h) = 2
    PROVE  /\ st = "plain" => Part!Serve(st, h, obj) = [status |-> 200, body |-> obj]
           /\ st # "plain" => Part!Serve(st, h, obj)
                 = IF h[1] >= Len(obj) THEN [status |-> 416, body |-> <<>>]
                   ELSE [status |-> 206,
                         body |-> SubSeq(obj, h[1] + 1, Part!Least(h[2] + 1, Len(obj)))]
BY DEF Part!Serve

\* A whole object, read from any storage.
LEMMA WholeObjectRead ==
    ASSUME NEW st \in Part!Storages, NEW obj \in Seq(Nat), Part!ReadRange(st, 0, -1, obj).ok
    PROVE  Part!ReadRange(st, 0, -1, obj).body = obj
<1>0. Len(obj) \in Nat /\ SubSeq(obj, 1, Len(obj)) = obj
  OBVIOUS
<1>1. CASE st = "local"
  BY <1>0, <1>1 DEF Part!ReadRange
<1>2. CASE st # "local"
  <2>1. Part!ReadRange(st, 0, -1, obj) = Part!GetObjectRange(st, 0, -1, obj)
    BY <1>2 DEF Part!ReadRange, Part!EndByte
  <2>2. /\ Part!S3!RangeHeader(0, -1) = <<>>
        /\ Part!OCI!RangeHeader(0, -1) = <<>>
        /\ Part!HTTP!RangeHeader(0, -1) = <<>>
    BY DEF Part!S3!RangeHeader, Part!OCI!RangeHeader, Part!HTTP!RangeHeader
  <2>3. Part!Serve(st, <<>>, obj) = [status |-> 200, body |-> obj]
    BY DEF Part!Serve
  <2>4. CASE st = "s3"
    BY <2>1, <2>2, <2>3, <2>4 DEF Part!GetObjectRange, Part!S3!ValidRange, Part!S3!GetObjectRange
  <2>5. CASE st = "oci"
    BY <2>1, <2>2, <2>3, <2>5 DEF Part!GetObjectRange, Part!OCI!ValidRange, Part!OCI!GetObjectRange
  <2>6. CASE st \in {"http", "plain"}
    <3>1. Part!HTTP!ValidRange(0, -1)
      BY DEF Part!HTTP!ValidRange
    <3>2. Part!GetObjectRange(st, 0, -1, obj)
             = Part!HTTP!GetObjectRange([status |-> 200, body |-> obj], 0, -1)
      BY <2>2, <2>3, <2>6, <3>1 DEF Part!GetObjectRange
    <3>3. Part!HTTP!GetObjectRange([status |-> 200, body |-> obj], 0, -1)
             = [ok |-> TRUE, body |-> Part!HTTP!Cut(obj, 0, -1)]
      BY <1>0, <2>2 DEF Part!HTTP!GetObjectRange
    <3>4. Part!HTTP!Cut(obj, 0, -1) = obj
      BY <1>0 DEF Part!HTTP!Cut
    <3>5. QED
      BY <2>1, <3>2, <3>3, <3>4
  <2>7. QED
    BY <1>2, <2>4, <2>5, <2>6 DEF Part!Storages
<1>3. QED
  BY <1>1, <1>2

\* A range of an object, read from any storage.
LEMMA RangeRead ==
    ASSUME NEW st \in Part!Storages, NEW obj, Len(obj) \in Nat,
           NEW a \in Nat, NEW n \in Nat, n > 0, Part!ReadRange(st, a, n, obj).ok
    PROVE  Part!ReadRange(st, a, n, obj).body = SubSeq(obj, a + 1, Part!Least(a + n, Len(obj)))
<1>0. Len(obj) \in Nat
  OBVIOUS
<1> DEFINE b == a + n - 1
<1>1. b \in Nat /\ b >= a /\ b # -1 /\ b + 1 = a + n /\ Part!EndByte(a, n) = b
  BY DEF Part!EndByte
<1>2. CASE st = "local"
  BY <1>0, <1>2 DEF Part!ReadRange
<1>3. CASE st # "local"
  <2>1. Part!ReadRange(st, a, n, obj) = Part!GetObjectRange(st, a, b, obj)
    BY <1>1, <1>3 DEF Part!ReadRange
  <2> HIDE DEF b
  <2> DEFINE h == <<a, b>>
             resp == Part!Serve(st, h, obj)
  <2>2. /\ Part!S3!RangeHeader(a, b) = h
        /\ Part!OCI!RangeHeader(a, b) = h
        /\ Part!HTTP!RangeHeader(a, b) = h
    BY <1>1 DEF Part!S3!RangeHeader, Part!OCI!RangeHeader, Part!HTTP!RangeHeader
  <2>3. /\ Part!S3!ValidRange(a, b)
        /\ Part!OCI!ValidRange(a, b)
        /\ Part!HTTP!ValidRange(a, b)
    BY <1>1 DEF Part!S3!ValidRange, Part!OCI!ValidRange, Part!HTTP!ValidRange
  <2>4. h # <<>> /\ Len(h) = 2 /\ h[1] = a /\ h[2] + 1 = a + n
    BY <1>1
  <2> HIDE DEF h
  <2>5. st # "plain" => resp = IF a >= Len(obj) THEN [status |-> 416, body |-> <<>>]
                               ELSE [status |-> 206,
                                     body |-> SubSeq(obj, a + 1, Part!Least(a + n, Len(obj)))]
    BY <2>4, Served
  <2>6. st = "plain" => resp = [status |-> 200, body |-> obj]
    BY <2>4, Served
  <2>7. CASE st = "s3"
    <3>1. Part!ReadRange(st, a, n, obj) = Part!S3!GetObjectRange(resp, a, b)
      BY <2>1, <2>2, <2>3, <2>7 DEF Part!GetObjectRange
    <3> HIDE DEF resp
    <3>2. QED
      BY <2>5, <2>7, <3>1 DEF Part!S3!GetObjectRange
  <2>8. CASE st = "oci"
    <3>1. Part!ReadRange(st, a, n, obj) = Part!OCI!GetObjectRange(resp, a, b)
      BY <2>1, <2>2, <2>3, <2>8 DEF Part!GetObjectRange
    <3> HIDE DEF resp
    <3>2. QED
      BY <2>5, <2>8, <3>1 DEF Part!OCI!GetObjectRange
  <2>9. CASE st \in {"http", "plain"}
    <3>1. Part!ReadRange(st, a, n, obj) = Part!HTTP!GetObjectRange(resp, a, b)
      BY <2>1, <2>2, <2>3, <2>9 DEF Part!GetObjectRange
    <3> HIDE DEF resp
    <3>2. CASE st = "http"
      BY <1>0, <2>2, <2>4, <2>5, <3>1, <3>2 DEF Part!HTTP!GetObjectRange
    <3>3. CASE st = "plain"
      <4>1. Part!ReadRange(st, a, n, obj).body = Part!HTTP!Cut(obj, a, b)
        BY <1>0, <2>2, <2>4, <2>6, <3>1, <3>3 DEF Part!HTTP!GetObjectRange
      <4>2. Part!HTTP!Cut(obj, a, b) = SubSeq(obj, a + 1, Part!Least(a + n, Len(obj)))
        BY <1>0, <1>1 DEF Part!HTTP!Cut, Part!Least
      <4>3. QED
        BY <4>1, <4>2
    <3>4. QED
      BY <2>9, <3>2, <3>3
  <2>10. QED
    BY <1>3, <2>7, <2>8, <2>9 DEF Part!Storages
<1>4. QED
  BY <1>2, <1>3

\* Parts of these kinds are copied as they are; their content is never seen in the plain.
AsIs == kind \in {"raw", "compressed"}

EntryTypes == /\ kind \in Part!Kinds
              /\ place \in Part!Storages
              /\ listed \in Seq(Nat)
              /\ changed \in BOOLEAN
              /\ ~ changed => object = IF Part!InArchive THEN Part!Packed(listed) ELSE listed

\* Everything but a folder's file is keyed by what was listed; the part comes last.
KeyInv == /\ kind # "folder" => pc # "keying"
          /\ kind # "folder" /\ pc \in {"upload", "copying", "commit"} => key = listed
          /\ part # <<>> => pc \in {"done", "failed"}

\* Copying as it is, from a source that has not changed, is on its way to what was listed.
CopyInv == AsIs /\ ~ changed /\ pc = "copying" =>
              /\ handle = Part!PartOf(listed)
              /\ got \in Seq(Nat)
              /\ Len(got) <= Len(handle)
              /\ \A i \in 1..Len(got) : got[i] = handle[i]

\* What is about to be committed was compared with its key.
ComparedInv == pc = "commit" => /\ Part!Produced = key
                                /\ AsIs /\ ~ changed => got = Part!PartOf(listed)

PartInv == EntryTypes /\ KeyInv /\ CopyInv /\ ComparedInv /\ Part!KeyedContent

\* The range of an entry in its archive is its header and its payload.
LEMMA PackedRange ==
    ASSUME NEW content \in Seq(Nat)
    PROVE  /\ Part!Packed(content) \in Seq(Nat)
           /\ SubSeq(Part!Packed(content), 2,
                     Part!Least(2 + Len(content), Len(Part!Packed(content)))) = <<0>> \o content
<1> DEFINE n == Len(content)
           packed == (<<9, 0>> \o content) \o <<9>>
           range == SubSeq(packed, 2, 2 + n)
           entry == <<0>> \o content
<1>1. n \in Nat
  OBVIOUS
<1>2. <<9, 0>> \in Seq(Nat) /\ <<9>> \in Seq(Nat) /\ <<0>> \in Seq(Nat)
  OBVIOUS
<1>3. packed \in Seq(Nat) /\ Len(packed) = n + 3 /\ entry \in Seq(Nat) /\ Len(entry) = n + 1
  BY <1>2
<1>4. Part!Least(2 + n, Len(packed)) = 2 + n
  BY <1>1, <1>3 DEF Part!Least
<1>5. range \in Seq(Nat) /\ Len(range) = n + 1
  BY <1>1, <1>3
<1>6. ASSUME NEW i \in 1..(n + 1)
      PROVE  range[i] = entry[i]
  <2>1. range[i] = packed[i + 1]
    BY <1>1, <1>3
  <2>2. CASE i = 1
    BY <1>2, <2>1, <2>2
  <2>3. CASE i > 1
    <3>1. packed[i + 1] = content[i - 1]
      BY <1>1, <1>2, <2>3
    <3>2. entry[i] = content[i - 1]
      BY <1>1, <1>2, <2>3
    <3>3. QED
      BY <2>1, <3>1, <3>2
  <2>4. QED
    BY <2>2, <2>3
<1> HIDE DEF range, entry
<1>7. range = entry
  BY <1>3, <1>5, <1>6, SeqEqual
<1>8. QED
  BY <1>3, <1>4, <1>7 DEF Part!Packed, range, entry

\* Opening the stream of an unchanged source that is copied as it is.
LEMMA OpenedAsIs ==
    ASSUME EntryTypes, AsIs, ~ changed, Part!Opens(object)
    PROVE  /\ Part!View(object) = Part!PartOf(listed)
           /\ Part!View(object) \in Seq(Nat)
<1>0. Len(listed) \in Nat /\ place \in Part!Storages /\ listed \in Seq(Nat)
  BY DEF EntryTypes
<1>1. CASE kind = "raw"
  <2>1. object = Part!Packed(listed) /\ Part!InArchive
    BY <1>1 DEF EntryTypes, Part!InArchive
  <2>2. /\ Part!View(object) = Part!Bytes(object).body
        /\ Part!Bytes(object) = Part!ReadRange(place, 1, 1 + Len(listed), object)
        /\ Part!Bytes(object).ok
    BY <1>1, <2>1 DEF Part!View, Part!Bytes, Part!StartOffset, Part!Opens
  <2>3. Part!Packed(listed) \in Seq(Nat) /\ Len(object) \in Nat
    BY <1>0, <2>1, PackedRange
  <2>4. 1 \in Nat /\ 1 + Len(listed) \in Nat /\ 1 + Len(listed) > 0
        /\ 1 + (1 + Len(listed)) = 2 + Len(listed) /\ 1 + 1 = 2
    BY <1>0
  <2>5. Part!Bytes(object).body
           = SubSeq(object, 1 + 1, Part!Least(1 + (1 + Len(listed)), Len(object)))
    <3>1. Part!ReadRange(place, 1, 1 + Len(listed), object).ok
      BY <2>2
    <3>2. Part!ReadRange(place, 1, 1 + Len(listed), object).body
             = SubSeq(object, 1 + 1, Part!Least(1 + (1 + Len(listed)), Len(object)))
      BY <1>0, <2>3, <2>4, <3>1, RangeRead, Zenon
    <3>3. QED
      BY <2>2, <3>2, Zenon
  <2>6. Part!View(object) = <<0>> \o listed
    BY <1>0, <2>1, <2>2, <2>4, <2>5, PackedRange
  <2>7. <<0>> \o listed \in Seq(Nat)
    BY <1>0
  <2>8. QED
    BY <1>1, <2>6, <2>7 DEF Part!PartOf
<1>2. CASE kind = "compressed"
  <2>1. object = listed /\ ~ Part!InArchive
    BY <1>2 DEF EntryTypes, Part!InArchive
  <2>2. /\ Part!View(object) = Part!Bytes(object).body
        /\ Part!Bytes(object) = Part!ReadRange(place, 0, -1, object)
        /\ Part!Bytes(object).ok
    BY <1>2, <2>1 DEF Part!View, Part!Bytes, Part!Opens
  <2>3. Part!View(object) = listed
    BY <1>0, <2>1, <2>2, WholeObjectRead
  <2>4. QED
    BY <1>0, <1>2, <2>3 DEF Part!PartOf
<1>3. QED
  BY <1>1, <1>2 DEF AsIs

\* processFile and uploadPart leave the source alone, and the part until they commit it.
LEMMA SourceAlone ==
    ASSUME EntryTypes, UNCHANGED <<kind, place, listed, object, changed>>
    PROVE  /\ EntryTypes'
           /\ AsIs' = AsIs
           /\ UNCHANGED <<part, key>> /\ Part!KeyedContent => Part!KeyedContent'
<1>1. EntryTypes' /\ AsIs' = AsIs
  BY DEF EntryTypes, AsIs, Part!InArchive, Part!Packed
<1>2. UNCHANGED <<part, key>> /\ Part!KeyedContent => Part!KeyedContent'
  BY DEF Part!KeyedContent, Part!PartOf
<1>3. QED
  BY <1>1, <1>2

\* A file is keyed and its stream opened.
LEMMA KeyStep ==
    ASSUME PartInv, \/ Part!KeyKnown
                    \/ Part!StartKeying
                    \/ Part!KeyRead
                    \/ Part!Reuse
                    \/ Part!StartUpload
    PROVE  PartInv'
<1>0. /\ UNCHANGED <<kind, place, listed, object, changed, part>>
      /\ EntryTypes
      /\ KeyInv
      /\ Part!KeyedContent
  BY DEF PartInv, Part!KeyKnown, Part!StartKeying, Part!KeyRead, Part!Reuse, Part!StartUpload,
         Part!Open, Part!Becomes, Part!Untouched
<1>1. EntryTypes' /\ AsIs' = AsIs
  BY <1>0, SourceAlone
<1>2. pc' \in {"upload", "keying", "copying", "done"} /\ pc \in {"start", "keying", "upload"}
  BY DEF Part!KeyKnown, Part!StartKeying, Part!KeyRead, Part!Reuse, Part!StartUpload,
         Part!Open, Part!Becomes
<1>3. KeyInv'
  BY <1>0, <1>2 DEF KeyInv, Part!KeyKnown, Part!StartKeying, Part!KeyRead, Part!Reuse,
         Part!StartUpload, Part!Open, Part!Becomes
<1>4. ComparedInv'
  BY <1>2 DEF ComparedInv
<1>5. CopyInv'
  <2>1. SUFFICES ASSUME AsIs, ~ changed, pc' = "copying"
                 PROVE  /\ handle' = Part!PartOf(listed)'
                        /\ got' \in Seq(Nat)
                        /\ Len(got') <= Len(handle')
                        /\ \A i \in 1..Len(got') : got'[i] = handle'[i]
    BY <1>0, <1>1 DEF CopyInv
  <2>2. Part!Opens(object) /\ handle' = Part!View(object) /\ got' = <<>>
    BY <2>1 DEF Part!KeyKnown, Part!StartKeying, Part!KeyRead, Part!Reuse, Part!StartUpload,
           Part!Open, Part!Becomes
  <2>3. handle' = Part!PartOf(listed) /\ handle' \in Seq(Nat)
    BY <1>0, <2>1, <2>2, OpenedAsIs
  <2>4. Part!PartOf(listed)' = Part!PartOf(listed)
    BY <1>0 DEF Part!PartOf
  <2>5. got' \in Seq(Nat) /\ Len(got') = 0
    BY <2>2
  <2>6. Len(handle') \in Nat
    BY <2>3
  <2>7. QED
    BY <2>3, <2>4, <2>5, <2>6
<1>6. Part!KeyedContent'
  <2>1. CASE UNCHANGED key
    BY <1>0, <2>1, SourceAlone
  <2>2. CASE Part!KeyKnown \/ Part!KeyRead
    <3>1. pc \in {"start", "keying"}
      BY <2>2 DEF Part!KeyKnown, Part!KeyRead
    <3>2. QED
      BY <1>0, <3>1 DEF KeyInv, Part!KeyedContent
  <2>3. QED
    BY <2>1, <2>2 DEF Part!StartKeying, Part!Reuse, Part!StartUpload, Part!Open
<1>7. QED
  BY <1>1, <1>3, <1>4, <1>5, <1>6 DEF PartInv

\* The stream is read.
LEMMA ReadStep ==
    ASSUME PartInv, Part!Read \/ Part!Copied \/ Part!Fails
    PROVE  PartInv'
<1>0. /\ UNCHANGED <<kind, place, listed, object, changed, part, key, handle>>
      /\ EntryTypes /\ KeyInv /\ CopyInv /\ ComparedInv /\ Part!KeyedContent
  BY DEF PartInv, Part!Read, Part!Copied, Part!Fails, Part!Becomes, Part!Untouched
<1>1. EntryTypes' /\ AsIs' = AsIs /\ Part!KeyedContent'
  BY <1>0, SourceAlone
<1>2. Part!PartOf(listed)' = Part!PartOf(listed)
  BY <1>0 DEF Part!PartOf
<1>3. KeyInv'
  BY <1>0 DEF KeyInv, Part!Read, Part!Copied, Part!Fails, Part!Becomes
<1>4. CASE Part!Read
  <2>1. /\ pc' = pc /\ pc \in {"keying", "copying"}
        /\ Len(got) < Len(handle)
        /\ got' = Append(got, handle[Len(got) + 1])
    BY <1>4 DEF Part!Read, Part!Becomes
  <2>2. ComparedInv'
    BY <2>1 DEF ComparedInv
  <2>3. CopyInv'
    <3>1. SUFFICES ASSUME AsIs, ~ changed, pc = "copying"
                   PROVE  /\ handle = Part!PartOf(listed)
                          /\ got' \in Seq(Nat)
                          /\ Len(got') <= Len(handle)
                          /\ \A i \in 1..Len(got') : got'[i] = handle[i]
      BY <1>0, <1>1, <1>2, <2>1 DEF CopyInv
    <3>2. /\ handle = Part!PartOf(listed)
          /\ got \in Seq(Nat)
          /\ \A i \in 1..Len(got) : got[i] = handle[i]
      BY <1>0, <3>1 DEF CopyInv
    <3>3. handle \in Seq(Nat)
      BY <1>0, <3>2 DEF EntryTypes, Part!PartOf
    <3>4. Len(got) \in Nat /\ Len(handle) \in Nat /\ Len(got) + 1 <= Len(handle)
      BY <2>1, <3>2, <3>3
    <3>5. handle[Len(got) + 1] \in Nat
      BY <3>3, <3>4
    <3>6. /\ got' \in Seq(Nat)
          /\ Len(got') = Len(got) + 1
          /\ got'[Len(got) + 1] = handle[Len(got) + 1]
          /\ \A i \in 1..Len(got) : got'[i] = got[i]
      BY <2>1, <3>2, <3>5
    <3>7. \A i \in 1..Len(got') : got'[i] = handle[i]
      BY <3>2, <3>4, <3>6
    <3>8. QED
      BY <3>2, <3>4, <3>6, <3>7
  <2>4. QED
    BY <1>1, <1>3, <2>2, <2>3 DEF PartInv
<1>5. CASE Part!Copied
  <2>1. /\ pc = "copying"
        /\ Len(got) >= Len(handle)
        /\ pc' = IF Part!CopyChecked /\ Part!MatchesKey THEN "commit" ELSE "failed"
        /\ got' = got
    BY <1>5 DEF Part!Copied, Part!Becomes, Part!EOF
  <2>2. CopyInv'
    BY <2>1 DEF CopyInv
  <2>3. ComparedInv'
    <3>1. SUFFICES ASSUME pc' = "commit"
                   PROVE  /\ Part!Produced = key
                          /\ AsIs /\ ~ changed => got = Part!PartOf(listed)
      BY <1>0, <1>1, <1>2, <2>1 DEF ComparedInv, Part!Produced
    <3>2. Part!Produced = key
      BY <2>1, <3>1 DEF Part!MatchesKey
    <3>3. ASSUME AsIs, ~ changed
          PROVE  got = Part!PartOf(listed)
      <4>1. /\ handle = Part!PartOf(listed)
            /\ got \in Seq(Nat)
            /\ Len(got) <= Len(handle)
            /\ \A i \in 1..Len(got) : got[i] = handle[i]
        BY <1>0, <2>1, <3>3 DEF CopyInv
      <4>2. handle \in Seq(Nat)
        BY <1>0, <4>1 DEF EntryTypes, Part!PartOf
      <4>3. Len(got) = Len(handle)
        BY <2>1, <4>1, <4>2
      <4>4. got = handle
        BY <4>1, <4>2, <4>3, SeqEqual
      <4>5. QED
        BY <4>1, <4>4
    <3>4. QED
      BY <3>2, <3>3
  <2>4. QED
    BY <1>1, <1>3, <2>2, <2>3 DEF PartInv
<1>6. CASE Part!Fails
  <2>1. pc' = "failed"
    BY <1>6 DEF Part!Fails, Part!Becomes
  <2>2. CopyInv' /\ ComparedInv'
    BY <2>1 DEF CopyInv, ComparedInv
  <2>3. QED
    BY <1>1, <1>3, <2>2 DEF PartInv
<1>7. QED
  BY <1>4, <1>5, <1>6

\* The part is committed, or its Close fails and yet it is there.
LEMMA CommitStep ==
    ASSUME PartInv, Part!Commit \/ Part!CommitFails
    PROVE  PartInv'
<1>0. /\ UNCHANGED <<kind, place, listed, object, changed, key, got>>
      /\ EntryTypes /\ KeyInv /\ ComparedInv
      /\ pc = "commit"
      /\ pc' \in {"done", "failed"}
      /\ part' \in {<<>>, <<got>>}
  BY DEF PartInv, Part!Commit, Part!CommitFails, Part!Becomes
<1>1. EntryTypes'
  BY <1>0, SourceAlone
<1>2. KeyInv' /\ CopyInv' /\ ComparedInv'
  BY <1>0 DEF KeyInv, CopyInv, ComparedInv
<1>3. got = Part!PartOf(key) \/ (AsIs /\ changed)
  <2>1. CASE AsIs /\ ~ changed
    <3>1. key = listed
      BY <1>0, <2>1 DEF KeyInv, AsIs
    <3>2. got = Part!PartOf(listed)
      BY <1>0, <2>1 DEF ComparedInv
    <3>3. QED
      BY <3>1, <3>2
  <2>2. CASE ~ AsIs
    <3>1. kind # "raw" /\ kind # "compressed"
      BY <2>2 DEF AsIs
    <3>2. got = key
      BY <1>0, <3>1 DEF ComparedInv, Part!Produced
    <3>3. QED
      BY <3>1, <3>2 DEF Part!PartOf
  <2>3. QED
    BY <1>0, <2>1, <2>2 DEF EntryTypes
<1>4. Part!PartOf(key)' = Part!PartOf(key)
  BY <1>0 DEF Part!PartOf
<1>5. part' # <<>> => part'[1] = got
  <2>1. <<got>>[1] = got
    OBVIOUS
  <2>2. QED
    BY <1>0, <2>1
<1>6. Part!KeyedContent'
  BY <1>0, <1>3, <1>4, <1>5 DEF Part!KeyedContent, AsIs
<1>7. QED
  BY <1>1, <1>2, <1>6 DEF PartInv

\* The owner changes the source.
LEMMA OwnerStep ==
    ASSUME PartInv, Part!Replace \/ Part!Rewrite
    PROVE  PartInv'
<1>0. /\ UNCHANGED <<kind, place, listed, key, got, pc, part>>
      /\ EntryTypes /\ KeyInv /\ ComparedInv /\ Part!KeyedContent
      /\ pc \notin {"done", "failed"}
  BY DEF PartInv, Part!Replace, Part!Rewrite, Part!Running
<1>1. changed' = TRUE
  BY Zenon DEF Part!Replace, Part!Rewrite
<1>2. changed' \in BOOLEAN /\ changed'
  BY <1>1, Zenon
<1>3. EntryTypes'
  BY <1>0, <1>2 DEF EntryTypes
<1>4. KeyInv' /\ CopyInv'
  BY <1>0, <1>2 DEF KeyInv, CopyInv
<1>5. ComparedInv'
  BY <1>0, <1>2 DEF ComparedInv, Part!Produced
<1>6. Part!KeyedContent'
  BY <1>0 DEF KeyInv, Part!KeyedContent
<1>7. QED
  BY <1>3, <1>4, <1>5, <1>6 DEF PartInv

\* The invariant of a file on its way into the store.
LEMMA PartTask == StepSpec => [](task = "part" => PartInv)
<1>1. StepInit => (task = "part" => PartInv)
  <2>1. SUFFICES ASSUME Part!Init PROVE PartInv
    BY DEF StepInit
  <2>2. /\ kind \in Part!Kinds
        /\ place \in Part!Storages
        /\ listed \in Part!Contents
        /\ object = IF Part!InArchive THEN Part!Packed(listed) ELSE listed
        /\ pc = "start"
        /\ part = <<>>
    BY <2>1 DEF Part!Init
  <2>3. changed \in BOOLEAN
    BY <2>1, Zenon DEF Part!Init
  <2>4. listed \in Seq(Nat)
    BY <2>2, StepsAssumption DEF Part!Contents
  <2>5. EntryTypes
    BY <2>2, <2>3, <2>4 DEF EntryTypes
  <2>6. QED
    BY <2>2, <2>5 DEF PartInv, KeyInv, CopyInv, ComparedInv, Part!KeyedContent
<1>2. (task = "part" => PartInv) /\ [StepNext]_stepVars => (task = "part" => PartInv)'
  <2>1. SUFFICES ASSUME task = "part" => PartInv, [StepNext]_stepVars, task' = "part"
                 PROVE  PartInv'
    OBVIOUS
  <2>2. task' = task /\ (Part!Next \/ UNCHANGED partVars)
    BY <2>1 DEF StepNext, stepVars
  <2>3. PartInv
    BY <2>1, <2>2
  <2>4. CASE UNCHANGED partVars
    <3>1. UNCHANGED <<kind, place, listed, object, changed, part, key, got, handle, pc>>
      BY <2>4 DEF partVars
    <3>2. EntryTypes' /\ AsIs' = AsIs /\ Part!KeyedContent'
      BY <2>3, <3>1, SourceAlone DEF PartInv
    <3>3. KeyInv' /\ CopyInv' /\ ComparedInv'
      BY <2>3, <3>1 DEF PartInv, KeyInv, CopyInv, ComparedInv, AsIs, Part!PartOf, Part!Produced
    <3>4. QED
      BY <3>2, <3>3 DEF PartInv
  <2>5. CASE Part!Ended
    BY <2>4, <2>5 DEF Part!Ended, Part!vars, partVars
  <2>6. QED
    BY <2>2, <2>3, <2>4, <2>5, KeyStep, ReadStep, CommitStep, OwnerStep DEF Part!Next
<1>3. QED
  BY <1>1, <1>2, PTL DEF StepSpec

\* A part holds the content its key names, whatever happens to the source between listing,
\* keying and copying, and whatever a server makes of a range (processFile, uploadPart).
THEOREM PartsKeyed == StepSpec => []KeyedContent
<1>1. (task = "part" => PartInv) => KeyedContent
  BY DEF PartInv, KeyedContent
<1>2. QED
  BY <1>1, PartTask, PTL

-----------------------------------------------------------------------------
(* ObjectListing: a listing that succeeds names what was there throughout. *)

\* The two instances of FiniteSets count alike.
LEMMA SameCardinality == ASSUME NEW S PROVE Folder!Cardinality(S) = Cardinality(S)
BY DEF Folder!Cardinality, Cardinality

\* A page is taken from the keys in their order (external: the server): Sorted lists a
\* finite set, each element once.
LEMMA SortedLists ==
    ASSUME NEW S \in SUBSET Nat, IsFiniteSet(S)
    PROVE  /\ Folder!Sorted(S) \in Seq(Nat)
           /\ \A i \in 1..Len(Folder!Sorted(S)) : Folder!Sorted(S)[i] \in S
           /\ \A i, j \in 1..Len(Folder!Sorted(S)) :
                 i < j => Folder!Sorted(S)[i] < Folder!Sorted(S)[j]
           /\ \A k \in S : \E i \in 1..Len(Folder!Sorted(S)) : Folder!Sorted(S)[i] = k
<1> DEFINE n == Cardinality(S)
           below(k) == {j \in S : j < k}
           rank == [k \in S |-> Cardinality(below(k))]
           s == Folder!Sorted(S)
<1>1. n \in Nat
  BY FS_CardinalityType
<1>2. ASSUME NEW k \in S
      PROVE  IsFiniteSet(below(k)) /\ rank[k] \in Nat /\ rank[k] < n
  <2>1. below(k) \in SUBSET S /\ k \notin below(k)
    OBVIOUS
  <2>2. /\ IsFiniteSet(below(k))
        /\ Cardinality(below(k)) <= n
        /\ n = Cardinality(below(k)) => S = below(k)
    BY <2>1, FS_Subset
  <2>3. Cardinality(below(k)) \in Nat
    BY <2>2, FS_CardinalityType
  <2>4. QED
    BY <1>1, <2>1, <2>2, <2>3
<1>3. ASSUME NEW j \in S, NEW k \in S, j < k
      PROVE  rank[j] < rank[k]
  <2>0. /\ \A m \in S : m < j => m < k
        /\ ~ (j < j)
    BY <1>3
  <2>1. below(j) \in SUBSET below(k) /\ j \in below(k) /\ j \notin below(j)
    BY <1>3, <2>0, Zenon
  <2>2. /\ Cardinality(below(j)) <= Cardinality(below(k))
        /\ Cardinality(below(k)) = Cardinality(below(j)) => below(k) = below(j)
    BY <1>2, <2>1, FS_Subset
  <2>3. Cardinality(below(j)) # Cardinality(below(k))
    BY <2>1, <2>2
  <2>4. rank[j] = Cardinality(below(j)) /\ rank[k] = Cardinality(below(k))
    OBVIOUS
  <2>5. rank[j] \in Nat /\ rank[k] \in Nat
    BY <1>2
  <2> HIDE DEF below, rank
  <2>6. QED
    BY <2>2, <2>3, <2>4, <2>5
<1>4. \A k \in S : rank[k] \in 0..(n - 1)
  BY <1>1, <1>2
<1>5. rank \in Injection(S, 0..(n - 1))
  <2>1. rank \in [S -> 0..(n - 1)]
    BY <1>4
  <2>2. \A j, k \in S : j # k => j < k \/ k < j
    OBVIOUS
  <2>3. \A k \in S : rank[k] \in Nat
    BY <1>2
  <2> HIDE DEF rank
  <2>4. \A j, k \in S : rank[j] = rank[k] => j = k
    BY <1>3, <2>2, <2>3
  <2>5. QED
    BY <2>1, <2>4 DEF Injection, IsInjective
<1>6. IsFiniteSet(0..(n - 1)) /\ Cardinality(0..(n - 1)) = n
  <2>1. 0 \in Int /\ n - 1 \in Int
    BY <1>1
  <2>2. IsFiniteSet(0..(n - 1)) /\ Cardinality(0..(n - 1)) = IF 0 > n - 1 THEN 0 ELSE n - 1 - 0 + 1
    BY <2>1, FS_Interval
  <2> HIDE DEF n
  <2>3. QED
    BY <1>1, <2>2
<1>7. rank \in Surjection(S, 0..(n - 1))
  <2> HIDE DEF rank
  <2>1. QED
    BY <1>5, <1>6, FS_Injection
<1>8. ASSUME NEW i \in 1..n
      PROVE  s[i] \in S /\ rank[s[i]] = i - 1
  <2>1. i - 1 \in 0..(n - 1)
    BY <1>1
  <2>2. PICK k \in S : rank[k] = i - 1
    <3> HIDE DEF rank
    <3>1. QED
      BY <1>7, <2>1 DEF Surjection
  <2>3. Cardinality(below(k)) = i - 1
    BY <2>2
  <2>4. s[i] = CHOOSE k_1 \in S : Cardinality({j \in S : j < k_1}) = i - 1
    BY SameCardinality DEF Folder!Sorted
  <2>5. QED
    BY <2>3, <2>4
<1>9. s = [i \in 1..n |-> CHOOSE k \in S : Folder!Cardinality({j \in S : j < k}) = i - 1]
  BY SameCardinality DEF Folder!Sorted
<1> HIDE DEF rank, s, n, below
<1>10. s \in Seq(Nat) /\ Len(s) = n
  <2>1. \A i \in 1..n : s[i] \in Nat
    BY <1>8
  <2>2. s \in [1..n -> Nat]
    BY <1>9, <2>1
  <2>3. QED
    BY <1>1, <2>2
<1>11. ASSUME NEW i \in 1..n, NEW j \in 1..n, i < j
       PROVE  s[i] < s[j]
  <2>1. rank[s[i]] < rank[s[j]]
    BY <1>8, <1>11
  <2>2. s[i] \in Nat /\ s[j] \in Nat /\ s[i] \in S /\ s[j] \in S
    BY <1>8
  <2>3. s[i] # s[j]
    BY <1>8, <2>1
  <2>4. CASE s[j] < s[i]
    <3>1. rank[s[j]] < rank[s[i]]
      BY <1>3, <2>2, <2>4
    <3>2. rank[s[i]] \in Nat /\ rank[s[j]] \in Nat
      BY <1>2, <2>2
    <3>3. QED
      BY <2>1, <3>1, <3>2
  <2>5. QED
    BY <2>2, <2>3, <2>4
<1>12. ASSUME NEW k \in S
       PROVE  \E i \in 1..n : s[i] = k
  <2>1. rank[k] + 1 \in 1..n /\ rank[k] \in Nat
    BY <1>1, <1>2
  <2>2. s[rank[k] + 1] \in S /\ rank[s[rank[k] + 1]] = rank[k]
    BY <1>8, <2>1
  <2>3. s[rank[k] + 1] = k
    BY <1>5, <2>2 DEF Injection, IsInjective
  <2>4. QED
    BY <2>1, <2>3
<1>13. QED
  BY <1>8, <1>10, <1>11, <1>12 DEF s

\* A key before where a request with cursor c goes on.
Behind(s, c, k) == IF s = "start" THEN k < c.token
                   ELSE IF s = "v2" THEN k <= c.token ELSE k <= c.marker

Names(s) == {s[i] : i \in DOMAIN s}

Rising(s) == \A i, j \in DOMAIN s : i < j => s[i] < s[j]

FolderTypes == /\ \E p \in Folder!Servers : client = p[1] /\ server = p[2]
               /\ bucket \subseteq Keys /\ always \subseteq bucket /\ bucket \subseteq ever
               /\ cursor \in [token : Nat, marker : Nat]
               /\ objects \in Seq(Nat)
               /\ Names(objects) \subseteq ever

\* While a listing goes on, it has all that stayed and is behind it, and nothing else.
PlaceInv == Folder!Pages /\ state = "listing" =>
               /\ Rising(objects)
               /\ \A k \in Names(objects) : Behind(server, cursor, k)
               /\ \A k \in always : Behind(server, cursor, k) => k \in Names(objects)

FolderInv == FolderTypes /\ PlaceInv /\ Folder!ListingFaithful

\* The servers there are.
LEMMA ServerIs ==
    ASSUME FolderTypes
    PROVE  \/ client = "s3" /\ server \in {"v2", "stuck", "tokenless"}
           \/ client = "oci" /\ server \in {"start", "stuck"}
           \/ client = "http" /\ server \in {"v2", "v1", "v1last", "stuck", "tokenless"}
<1>1. PICK p \in Folder!Servers : client = p[1] /\ server = p[2]
  BY DEF FolderTypes
<1>2. p \in {<<"s3", "v2">>, <<"s3", "stuck">>, <<"s3", "tokenless">>, <<"oci", "start">>,
             <<"oci", "stuck">>, <<"http", "v2">>, <<"http", "v1">>, <<"http", "v1last">>,
             <<"http", "stuck">>, <<"http", "tokenless">>}
  BY <1>1 DEF Folder!Servers
<1>3. QED
  BY <1>1, <1>2

\* What is asked for, of a server that goes on where it is told to.
LEMMA AskedIs ==
    ASSUME FolderTypes
    PROVE  /\ Folder!Asked \subseteq bucket
           /\ Folder!Pages => Folder!Asked = {k \in bucket : ~ Behind(server, cursor, k)}
           /\ ~ Folder!Pages => Folder!Asked = bucket
<1>1. bucket \subseteq Nat /\ cursor.token \in Nat /\ cursor.marker \in Nat
  BY StepsAssumption DEF FolderTypes
<1>2. \A k \in bucket, n \in Nat : (k >= n <=> ~ (k < n)) /\ (k > n <=> ~ (k <= n))
  BY <1>1
<1>3. CASE server = "start"
  BY <1>1, <1>2, <1>3 DEF Folder!Asked, Behind, Folder!Pages
<1>4. CASE server = "v2"
  BY <1>1, <1>2, <1>4 DEF Folder!Asked, Behind, Folder!Pages
<1>5. CASE server \in {"v1", "v1last"}
  BY <1>1, <1>2, <1>5 DEF Folder!Asked, Behind, Folder!Pages
<1>6. CASE server \in {"stuck", "tokenless"}
  BY <1>6 DEF Folder!Asked, Folder!Pages
<1>7. QED
  BY <1>3, <1>4, <1>5, <1>6, ServerIs

\* A page: keys that were asked for, in their order; all of them, or as many as fit, and then
\* what comes before the last one, or before the next, is on it.
LEMMA PageIs ==
    ASSUME FolderTypes
    PROVE  /\ Folder!Page.keys \in Seq(Nat)
           /\ Names(Folder!Page.keys) \subseteq Folder!Asked
           /\ Rising(Folder!Page.keys)
           /\ Folder!Page.truncated \in BOOLEAN
           /\ ~ Folder!Page.truncated =>
                 /\ Folder!Asked \subseteq Names(Folder!Page.keys)
                 /\ Folder!Page.token = 0 /\ Folder!Page.marker = 0 /\ Folder!Page.start = 0
           /\ Folder!Page.truncated =>
                 \E last, next \in Nat \ {0} :
                    /\ Folder!Page.keys # <<>>
                    /\ last = Folder!Page.keys[Len(Folder!Page.keys)]
                    /\ last \in Folder!Asked /\ next \in Folder!Asked
                    /\ \A k \in Names(Folder!Page.keys) : k <= last /\ k < next
                    /\ \A k \in Folder!Asked : k <= last => k \in Names(Folder!Page.keys)
                    /\ \A k \in Folder!Asked : k < next => k \in Names(Folder!Page.keys)
                    /\ Folder!Page.token = IF server \in {"v2", "stuck"} THEN last ELSE 0
                    /\ Folder!Page.marker = IF server = "v1" THEN last ELSE 0
                    /\ Folder!Page.start = IF server \in {"start", "stuck"} THEN next ELSE 0
<1> DEFINE sorted == Folder!Sorted(Folder!Asked)
           more == Len(sorted) > PageSize
           keys == IF more THEN SubSeq(sorted, 1, PageSize) ELSE sorted
<1>1. Folder!Asked \in SUBSET Nat /\ IsFiniteSet(Folder!Asked) /\ 0 \notin Folder!Asked
  <2>1. Folder!Asked \subseteq Keys
    BY AskedIs DEF FolderTypes
  <2>2. QED
    BY <2>1, StepsAssumption, FS_Subset
<1>2. /\ sorted \in Seq(Nat)
      /\ \A i \in 1..Len(sorted) : sorted[i] \in Folder!Asked
      /\ \A i, j \in 1..Len(sorted) : i < j => sorted[i] < sorted[j]
      /\ \A k \in Folder!Asked : \E i \in 1..Len(sorted) : sorted[i] = k
  BY <1>1, SortedLists
<1>3. /\ Folder!Page.keys = keys
      /\ Folder!Page.truncated = more
      /\ Folder!Page.token = IF more /\ server \in {"v2", "stuck"} THEN keys[Len(keys)] ELSE 0
      /\ Folder!Page.marker = IF more /\ server = "v1" THEN keys[Len(keys)] ELSE 0
      /\ Folder!Page.start = IF more /\ server \in {"start", "stuck"} THEN sorted[PageSize + 1] ELSE 0
  BY DEF Folder!Page, Folder!Last
<1>4. PageSize \in Nat /\ PageSize > 0 /\ Len(sorted) \in Nat
  BY <1>2, StepsAssumption
<1> HIDE DEF sorted
<1>5. CASE ~ more
  <2>1. keys = sorted
    BY <1>5
  <2>2. DOMAIN sorted = 1..Len(sorted)
    BY <1>2
  <2>3. Names(sorted) = Folder!Asked /\ Rising(sorted)
    BY <1>2, <2>2 DEF Names, Rising
  <2>4. /\ Folder!Page.keys = sorted
        /\ Folder!Page.token = 0 /\ Folder!Page.marker = 0 /\ Folder!Page.start = 0
    BY <1>3, <1>5, <2>1
  <2>5. Folder!Page.truncated \in BOOLEAN /\ ~ Folder!Page.truncated
    <3>1. more \in BOOLEAN
      OBVIOUS
    <3> HIDE DEF more
    <3>2. QED
      BY <1>3, <1>5, <3>1, Zenon
  <2> HIDE DEF more
  <2>6. QED
    BY <1>2, <2>3, <2>4, <2>5
<1>6. CASE more
  <2>1. /\ keys \in Seq(Nat)
        /\ Len(keys) = PageSize
        /\ \A i \in 1..PageSize : keys[i] = sorted[i]
    BY <1>2, <1>4, <1>6
  <2>2. DOMAIN keys = 1..PageSize
    BY <2>1
  <2> HIDE DEF keys
  <2>3. /\ \A i \in 1..PageSize : i \in 1..Len(sorted)
        /\ PageSize \in 1..PageSize /\ PageSize + 1 \in 1..Len(sorted)
    BY <1>4, <1>6
  <2>4. Names(keys) \subseteq Folder!Asked /\ Rising(keys)
    BY <1>2, <2>1, <2>2, <2>3 DEF Names, Rising
  <2>5. /\ keys[PageSize] \in Folder!Asked
        /\ sorted[PageSize + 1] \in Folder!Asked
        /\ keys[PageSize] = sorted[PageSize]
    BY <1>2, <2>1, <2>3
  <2>6. keys # <<>>
    BY <1>4, <2>1
  <2>7. \A k \in Names(keys) : k <= keys[PageSize] /\ k < sorted[PageSize + 1]
    <3>1. SUFFICES ASSUME NEW i \in 1..PageSize
                   PROVE  sorted[i] <= sorted[PageSize] /\ sorted[i] < sorted[PageSize + 1]
      BY <2>1, <2>2, <2>5 DEF Names
    <3>2. i < PageSize + 1 /\ (i < PageSize \/ i = PageSize)
      BY <1>4
    <3>3. sorted[i] \in Nat /\ sorted[PageSize] \in Nat
      BY <1>1, <1>2, <2>3
    <3>4. sorted[i] < sorted[PageSize + 1]
      BY <1>2, <2>3, <3>2
    <3>5. i < PageSize => sorted[i] < sorted[PageSize]
      BY <1>2, <2>3
    <3>6. QED
      BY <3>2, <3>3, <3>4, <3>5
  <2>8. ASSUME NEW k \in Folder!Asked, k <= keys[PageSize] \/ k < sorted[PageSize + 1]
        PROVE  k \in Names(keys)
    <3>1. PICK i \in 1..Len(sorted) : sorted[i] = k
      BY <1>2
    <3>2. i <= PageSize
      <4>1. SUFFICES ASSUME i > PageSize PROVE FALSE
        BY <1>4
      <4>2. i = PageSize + 1 \/ PageSize + 1 < i
        BY <1>4, <4>1
      <4>3. sorted[PageSize] < sorted[i] /\ ~ (sorted[i] < sorted[PageSize + 1])
        <5>1. sorted[PageSize] \in Nat /\ sorted[PageSize + 1] \in Nat /\ sorted[i] \in Nat
          BY <1>1, <1>2, <2>3
        <5>2. sorted[PageSize + 1] <= sorted[i]
          <6>1. CASE i = PageSize + 1
            BY <5>1, <6>1
          <6>2. CASE PageSize + 1 < i
            <7>1. sorted[PageSize + 1] < sorted[i]
              BY <1>2, <2>3, <6>2
            <7>2. QED
              BY <5>1, <7>1
          <6>3. QED
            BY <4>2, <6>1, <6>2
        <5>3. sorted[PageSize] < sorted[i]
          BY <1>2, <1>4, <2>3, <4>1
        <5>4. QED
          BY <5>1, <5>2, <5>3
      <4>4. sorted[PageSize] \in Nat /\ sorted[i] \in Nat
        BY <1>1, <1>2, <2>3
      <4>5. QED
        BY <2>5, <2>8, <3>1, <4>3, <4>4
    <3>3. i \in DOMAIN keys /\ keys[i] = k
      BY <2>1, <2>2, <3>1, <3>2
    <3>4. QED
      BY <3>3 DEF Names
  <2>9. QED
    <3>1. keys[PageSize] \in Nat \ {0} /\ sorted[PageSize + 1] \in Nat \ {0}
      BY <1>1, <2>5
    <3> DEFINE last == keys[PageSize]
               next == sorted[PageSize + 1]
    <3>2. /\ Folder!Page.keys = keys
          /\ Folder!Page.truncated = TRUE
          /\ last = keys[Len(keys)]
          /\ Folder!Page.token = IF server \in {"v2", "stuck"} THEN last ELSE 0
          /\ Folder!Page.marker = IF server = "v1" THEN last ELSE 0
          /\ Folder!Page.start = IF server \in {"start", "stuck"} THEN next ELSE 0
      BY <1>3, <1>6, <2>1
    <3>3. last \in Nat \ {0} /\ next \in Nat \ {0}
      BY <3>1
    <3>4. last \in Folder!Asked /\ next \in Folder!Asked
      BY <2>5
    <3>5. /\ \A k \in Names(keys) : k <= last /\ k < next
          /\ \A k \in Folder!Asked : k <= last => k \in Names(keys)
          /\ \A k \in Folder!Asked : k < next => k \in Names(keys)
      BY <2>7, <2>8
    <3> HIDE DEF last, next
    <3>6. QED
      BY <2>1, <2>4, <2>6, <3>2, <3>3, <3>4, <3>5
<1>7. QED
  BY <1>5, <1>6

\* A page goes behind the listing so far.
LEMMA NamesConcat ==
    ASSUME NEW s \in Seq(Nat), NEW t \in Seq(Nat)
    PROVE  /\ s \o t \in Seq(Nat)
           /\ Names(s \o t) = Names(s) \cup Names(t)
           /\ Rising(s) /\ Rising(t) /\ (\A a \in Names(s), b \in Names(t) : a < b) => Rising(s \o t)
<1>0. Len(s) \in Nat /\ Len(t) \in Nat /\ DOMAIN s = 1..Len(s) /\ DOMAIN t = 1..Len(t)
  OBVIOUS
<1>1. /\ s \o t \in Seq(Nat)
      /\ DOMAIN (s \o t) = 1..(Len(s) + Len(t))
      /\ \A i \in 1..Len(s) : (s \o t)[i] = s[i]
      /\ \A i \in (Len(s) + 1)..(Len(s) + Len(t)) : (s \o t)[i] = t[i - Len(s)]
  OBVIOUS
<1> DEFINE st == s \o t
<1> HIDE DEF st
<1>2. /\ \A i \in 1..Len(s) : i \in DOMAIN st /\ st[i] = s[i]
      /\ \A i \in 1..Len(t) : i + Len(s) \in DOMAIN st /\ st[i + Len(s)] = t[i]
      /\ \A i \in DOMAIN st : \/ i \in 1..Len(s) /\ st[i] = s[i]
                              \/ i - Len(s) \in 1..Len(t) /\ i > Len(s) /\ st[i] = t[i - Len(s)]
  BY <1>0, <1>1 DEF st
<1>3. Names(st) = Names(s) \cup Names(t)
  <2>1. ASSUME NEW x \in Names(st) PROVE x \in Names(s) \cup Names(t)
    BY <1>0, <1>2 DEF Names
  <2>2. ASSUME NEW x \in Names(s) PROVE x \in Names(st)
    BY <1>0, <1>2 DEF Names
  <2>3. ASSUME NEW x \in Names(t) PROVE x \in Names(st)
    BY <1>0, <1>2 DEF Names
  <2>4. QED
    BY <2>1, <2>2, <2>3
<1>4. ASSUME Rising(s), Rising(t), \A a \in Names(s), b \in Names(t) : a < b
      PROVE  Rising(st)
  <2>1. SUFFICES ASSUME NEW i \in DOMAIN st, NEW j \in DOMAIN st, i < j
                 PROVE  st[i] < st[j]
    BY DEF Rising
  <2>2. i \in Nat /\ j \in Nat
    BY <1>0, <1>1 DEF st
  <2>3. CASE j \in 1..Len(s)
    <3>1. i \in 1..Len(s) /\ st[j] = s[j] /\ st[i] = s[i]
      BY <1>0, <1>2, <2>1, <2>2, <2>3
    <3>2. QED
      BY <1>0, <1>4, <2>1, <2>3, <3>1 DEF Rising
  <2>4. CASE i \in 1..Len(s) /\ j \notin 1..Len(s)
    <3>1. st[i] = s[i] /\ j - Len(s) \in 1..Len(t) /\ st[j] = t[j - Len(s)]
      BY <1>2, <2>4
    <3>2. st[i] \in Names(s) /\ st[j] \in Names(t)
      BY <1>0, <2>4, <3>1 DEF Names
    <3>3. QED
      BY <1>4, <3>2
  <2>5. CASE i \notin 1..Len(s) /\ j \notin 1..Len(s)
    <3>1. /\ i - Len(s) \in 1..Len(t) /\ st[i] = t[i - Len(s)]
          /\ j - Len(s) \in 1..Len(t) /\ st[j] = t[j - Len(s)]
      BY <1>2, <2>5
    <3>2. i - Len(s) < j - Len(s)
      BY <1>0, <2>1, <2>2
    <3>3. QED
      BY <1>0, <1>4, <3>1, <3>2 DEF Rising
  <2>6. QED
    BY <2>3, <2>4, <2>5
<1>5. QED
  BY <1>1, <1>3, <1>4 DEF st

\* The request after a page (ListObjects of the three clients): none after the last page;
\* otherwise it goes on right behind the page, if the server does what it is told.
LEMMA AfterIs ==
    ASSUME FolderTypes, NEW page, page = Folder!Page, NEW after, after = Folder!AfterPage(page)
    PROVE  /\ after.cursor \in [token : Nat, marker : Nat]
           /\ after.next \in {"done", "page", "error"}
           /\ after.next = "done" => ~ page.truncated
           /\ after.next = "page" /\ Folder!Pages =>
                 /\ page.truncated
                 /\ \A last, next \in Nat \ {0} :
                       /\ page.keys # <<>>
                       /\ last = page.keys[Len(page.keys)]
                       /\ page.token = IF server \in {"v2", "stuck"} THEN last ELSE 0
                       /\ page.marker = IF server = "v1" THEN last ELSE 0
                       /\ page.start = IF server \in {"start", "stuck"} THEN next ELSE 0
                       => \A k \in Nat : Behind(server, after.cursor, k) <=>
                                            IF server = "start" THEN k < next ELSE k <= last
<1>1. /\ page.truncated \in BOOLEAN
      /\ ~ page.truncated => page.token = 0 /\ page.marker = 0 /\ page.start = 0
      /\ page.truncated =>
            /\ page.keys # <<>>
            /\ page.keys[Len(page.keys)] \in Nat \ {0}
            /\ page.token \in Nat /\ page.marker \in Nat /\ page.start \in Nat
            /\ server \in {"start", "stuck"} => page.start # 0
  BY PageIs
<1>2. cursor \in [token : Nat, marker : Nat]
  BY DEF FolderTypes
<1>3. CASE client = "s3"
  <2>1. after = Folder!S3!AfterPage(page, cursor)
    BY <1>3 DEF Folder!AfterPage
  <2>2. server \in {"v2", "stuck", "tokenless"}
    BY <1>3, ServerIs
  <2>3. QED
    BY <1>1, <1>2, <2>1, <2>2 DEF Folder!S3!AfterPage, Behind, Folder!Pages
<1>4. CASE client = "oci"
  <2>1. after = Folder!OCI!AfterPage(page, cursor)
    BY <1>4 DEF Folder!AfterPage
  <2>2. server \in {"start", "stuck"}
    BY <1>4, ServerIs
  <2>3. QED
    BY <1>1, <1>2, <2>1, <2>2 DEF Folder!OCI!AfterPage, Behind, Folder!Pages
<1>5. CASE client = "http"
  <2>1. after = Folder!HTTP!AfterPage(page, cursor)
    BY <1>5 DEF Folder!AfterPage
  <2>2. server \in {"v2", "v1", "v1last", "stuck", "tokenless"}
    BY <1>5, ServerIs
  <2>3. Folder!HTTP!NextMarker(page) = IF page.marker = 0 /\ page.keys # <<>>
                                       THEN page.keys[Len(page.keys)] ELSE page.marker
    BY DEF Folder!HTTP!NextMarker, Folder!HTTP!Last
  <2>4. QED
    BY <1>1, <1>2, <2>1, <2>2, <2>3 DEF Folder!HTTP!AfterPage, Behind, Folder!Pages
<1>6. QED
  BY <1>3, <1>4, <1>5, ServerIs

\* A page is added to the listing.
LEMMA PageListedStep ==
    ASSUME FolderInv, Folder!PageListed
    PROVE  FolderInv'
<1> DEFINE page == Folder!Page
           after == Folder!AfterPage(page)
           keys == page.keys
<1>0. \/ objects' = objects \o keys
      \/ objects' = objects /\ after.next = "page" /\ ~ Folder!Pages
  BY DEF Folder!PageListed, Folder!Extended, Folder!Pages
<1>1. /\ state = "listing"
      /\ cursor' = after.cursor
      /\ state' = IF after.next = "page" THEN "listing" ELSE after.next
      /\ UNCHANGED <<client, server, bucket, always, ever>>
  BY DEF Folder!PageListed
<1>2. FolderTypes /\ PlaceInv
  BY DEF FolderInv
<1>3. /\ objects \in Seq(Nat)
      /\ Names(objects) \subseteq ever
      /\ bucket \subseteq Nat /\ always \subseteq bucket /\ bucket \subseteq ever
  BY <1>2, StepsAssumption DEF FolderTypes
<1>4. /\ keys \in Seq(Nat)
      /\ Names(keys) \subseteq Folder!Asked
      /\ Rising(keys)
      /\ page.truncated \in BOOLEAN
      /\ ~ page.truncated => Folder!Asked \subseteq Names(keys)
  BY <1>2, PageIs
<1>5. /\ after.cursor \in [token : Nat, marker : Nat]
      /\ after.next \in {"done", "page", "error"}
      /\ after.next = "done" => ~ page.truncated
      /\ after.next = "page" /\ Folder!Pages => page.truncated
  BY <1>2, AfterIs
<1>6. ASSUME Folder!Pages, after.next = "page"
      PROVE  /\ \A k \in Names(keys) : Behind(server, after.cursor, k)
             /\ \A k \in Folder!Asked : Behind(server, after.cursor, k) => k \in Names(keys)
             /\ \A k \in Nat : Behind(server, cursor, k) => Behind(server, after.cursor, k)
  <2>1. page.truncated
    BY <1>5, <1>6
  <2>2. PICK last \in Nat \ {0}, next \in Nat \ {0} :
           /\ keys # <<>>
           /\ last = keys[Len(keys)]
           /\ last \in Folder!Asked /\ next \in Folder!Asked
           /\ \A k \in Names(keys) : k <= last /\ k < next
           /\ \A k \in Folder!Asked : k <= last => k \in Names(keys)
           /\ \A k \in Folder!Asked : k < next => k \in Names(keys)
           /\ page.token = IF server \in {"v2", "stuck"} THEN last ELSE 0
           /\ page.marker = IF server = "v1" THEN last ELSE 0
           /\ page.start = IF server \in {"start", "stuck"} THEN next ELSE 0
    BY <1>2, <2>1, PageIs
  <2>3. \A k \in Nat : Behind(server, after.cursor, k) <=>
                          IF server = "start" THEN k < next ELSE k <= last
    BY <1>2, <1>6, <2>2, AfterIs
  <2>4. ~ Behind(server, cursor, last) /\ ~ Behind(server, cursor, next)
    BY <1>2, <1>6, <2>2, AskedIs
  <2>5. Folder!Asked \subseteq Nat
    BY <1>2, <1>3, AskedIs
  <2> HIDE DEF page, after, keys
  <2>6. \A k \in Nat : Behind(server, cursor, k) => Behind(server, after.cursor, k)
    <3>1. cursor.token \in Nat /\ cursor.marker \in Nat
      BY <1>2 DEF FolderTypes
    <3>2. SUFFICES ASSUME NEW k \in Nat, Behind(server, cursor, k)
                   PROVE  IF server = "start" THEN k < next ELSE k <= last
      BY <2>3
    <3>3. QED
      BY <2>4, <3>1, <3>2 DEF Behind
  <2>7. QED
    BY <1>4, <2>2, <2>3, <2>5, <2>6
<1>7. /\ objects' \in Seq(Nat)
      /\ Names(objects') \subseteq Names(objects) \cup Names(keys)
      /\ Folder!Pages \/ after.next # "page" =>
            /\ Names(objects') = Names(objects) \cup Names(keys)
            /\ Rising(objects) /\ (\A a \in Names(objects), b \in Names(keys) : a < b)
                  => Rising(objects')
  <2>1. CASE objects' = objects \o keys
    BY <1>3, <1>4, <2>1, NamesConcat
  <2>2. CASE objects' = objects /\ after.next = "page" /\ ~ Folder!Pages
    <3> HIDE DEF after, page, keys
    <3>1. QED
      BY <1>3, <2>2
  <2>3. QED
    BY <1>0, <2>1, <2>2
<1>8. /\ Folder!Asked \subseteq bucket
      /\ Folder!Pages => Folder!Asked = {k \in bucket : ~ Behind(server, cursor, k)}
      /\ ~ Folder!Pages => Folder!Asked = bucket
  BY <1>2, AskedIs
<1> HIDE DEF page, after, keys
<1>9. FolderTypes'
  BY <1>1, <1>2, <1>3, <1>4, <1>5, <1>7, <1>8 DEF FolderTypes
<1>10. ASSUME Folder!Pages PROVE Rising(objects')
  <2>1. \A k \in Names(objects) : Behind(server, cursor, k) /\ k \in Nat
    BY <1>1, <1>2, <1>3, <1>10 DEF PlaceInv, Names
  <2>2. \A k \in Names(keys) : ~ Behind(server, cursor, k) /\ k \in Nat
    BY <1>3, <1>4, <1>8, <1>10
  <2>3. cursor.token \in Nat /\ cursor.marker \in Nat
    BY <1>2 DEF FolderTypes
  <2>4. \A a \in Names(objects), b \in Names(keys) : a < b
    BY <2>1, <2>2, <2>3 DEF Behind
  <2>5. Rising(objects)
    BY <1>1, <1>2, <1>10 DEF PlaceInv
  <2>6. QED
    BY <1>7, <1>10, <2>4, <2>5
<1>11. Folder!Pages' = Folder!Pages
  BY <1>1 DEF Folder!Pages
<1>12. PlaceInv'
  <2>1. SUFFICES ASSUME Folder!Pages, state' = "listing"
                 PROVE  /\ Rising(objects')
                        /\ \A k \in Names(objects') : Behind(server, cursor', k)
                        /\ \A k \in always : Behind(server, cursor', k) => k \in Names(objects')
    BY <1>1, <1>11 DEF PlaceInv, Rising, Names, Behind
  <2>2. after.next = "page"
    BY <1>1, <1>5, <2>1
  <2>3. /\ \A k \in Names(objects) : Behind(server, cursor, k) /\ k \in Nat
        /\ \A k \in always : Behind(server, cursor, k) => k \in Names(objects)
    BY <1>1, <1>2, <1>3, <2>1 DEF PlaceInv, Names
  <2>4. QED
    BY <1>1, <1>3, <1>6, <1>7, <1>8, <1>10, <2>1, <2>2, <2>3
<1>13. Folder!ListingFaithful'
  <2>1. SUFFICES ASSUME state' = "done"
                 PROVE  /\ always \subseteq Names(objects')
                        /\ Names(objects') \subseteq ever
                        /\ Folder!Pages => Rising(objects')
    BY <1>1, <1>11 DEF Folder!ListingFaithful, Folder!ToSet, Names, Rising
  <2>2. Folder!Asked \subseteq Names(keys) /\ after.next # "page"
    BY <1>1, <1>4, <1>5, <2>1
  <2>3. ASSUME Folder!Pages PROVE always \subseteq Names(objects')
    <3>1. \A k \in always : Behind(server, cursor, k) => k \in Names(objects)
      BY <1>1, <1>2, <2>3 DEF PlaceInv
    <3>2. QED
      BY <1>3, <1>7, <1>8, <2>2, <2>3, <3>1
  <2>4. QED
    BY <1>3, <1>4, <1>7, <1>8, <1>10, <2>2, <2>3
<1>14. QED
  BY <1>9, <1>12, <1>13 DEF FolderInv

\* A request is repeated or given up, or another client changes the bucket.
LEMMA OtherFolderSteps ==
    ASSUME FolderInv, Folder!PageRetried \/ Folder!PageFails \/ (\E k \in Keys : Folder!Change(k))
    PROVE  FolderInv'
<1>1. /\ UNCHANGED <<client, server, cursor, objects>>
      /\ state = "listing"
      /\ state' \in {"listing", "error"}
  BY DEF Folder!PageRetried, Folder!PageFails, Folder!Change, Folder!listing
<1>2. /\ bucket' \subseteq Keys
      /\ always' \subseteq bucket' /\ always' \subseteq always
      /\ bucket' \subseteq ever' /\ ever \subseteq ever'
  BY DEF FolderInv, FolderTypes, Folder!PageRetried, Folder!PageFails, Folder!Change
<1>3. FolderTypes'
  BY <1>1, <1>2 DEF FolderInv, FolderTypes, Names
<1>4. PlaceInv'
  BY <1>1, <1>2 DEF FolderInv, PlaceInv, Folder!Pages, Names, Rising, Behind
<1>5. Folder!ListingFaithful'
  BY <1>1 DEF Folder!ListingFaithful
<1>6. QED
  BY <1>3, <1>4, <1>5 DEF FolderInv

\* The invariant of a listing.
LEMMA FolderTask == StepSpec => [](task = "folder" => FolderInv)
<1>1. StepInit => (task = "folder" => FolderInv)
  <2>1. SUFFICES ASSUME Folder!Init PROVE FolderInv
    BY DEF StepInit
  <2>2. /\ \E p \in Folder!Servers : client = p[1] /\ server = p[2]
        /\ bucket \subseteq Keys /\ always = bucket /\ ever = bucket
        /\ cursor = [token |-> 0, marker |-> 0]
        /\ objects = <<>>
        /\ state = "listing"
    BY <2>1 DEF Folder!Init
  <2>3. Names(objects) = {} /\ Rising(objects) /\ objects \in Seq(Nat)
    BY <2>2 DEF Names, Rising
  <2>4. \A k \in always : ~ Behind(server, cursor, k)
    BY <2>2, StepsAssumption DEF Behind
  <2>5. FolderTypes
    BY <2>2, <2>3 DEF FolderTypes
  <2>6. QED
    BY <2>2, <2>3, <2>4, <2>5 DEF FolderInv, PlaceInv, Folder!ListingFaithful
<1>2. (task = "folder" => FolderInv) /\ [StepNext]_stepVars => (task = "folder" => FolderInv)'
  <2>1. SUFFICES ASSUME task = "folder" => FolderInv, [StepNext]_stepVars, task' = "folder"
                 PROVE  FolderInv'
    OBVIOUS
  <2>2. task' = task /\ (Folder!Next \/ UNCHANGED folderVars)
    BY <2>1 DEF StepNext, stepVars
  <2>3. FolderInv
    BY <2>1, <2>2
  <2>4. CASE UNCHANGED folderVars
    BY <2>3, <2>4 DEF folderVars, FolderInv, FolderTypes, PlaceInv, Folder!ListingFaithful,
       Folder!ToSet, Folder!Pages, Names, Rising, Behind
  <2>5. CASE Folder!Listed
    BY <2>4, <2>5 DEF Folder!Listed, Folder!vars, Folder!listing, folderVars
  <2>6. QED
    BY <2>2, <2>3, <2>4, <2>5, PageListedStep, OtherFolderSteps DEF Folder!Next, Folder!ListStep
<1>3. QED
  BY <1>1, <1>2, PTL DEF StepSpec

\* A listing that succeeds (ListObjects of any of the clients) names every object that was
\* there throughout, none that never was, and none twice, however many pages and retries it
\* takes and whatever others put and delete meanwhile.
THEOREM ListingsFaithful == StepSpec => []ListingFaithful
<1>1. (task = "folder" => FolderInv) => ListingFaithful
  BY DEF FolderInv, ListingFaithful
<1>2. QED
  BY <1>1, FolderTask, PTL

-----------------------------------------------------------------------------
(* TreeBuild: a source is stored so that restoring finds exactly its entries. *)

\* A set of numbers that is not empty has a smallest element.
LEMMA SmallestNumber ==
    ASSUME NEW T, T \subseteq Nat, T # {}
    PROVE  \E x \in T : \A y \in T : x <= y
<1>1. \E x \in T : \A y \in T : ~ (<<y, x>> \in OpToRel(<, Nat))
  BY NatLessThanWellFounded, WFMin
<1>2. \A x, y \in Nat : ~ (<<y, x>> \in OpToRel(<, Nat)) => x <= y
  BY DEF OpToRel
<1>3. QED
  BY <1>1, <1>2

\* Induction over the natural numbers, for the set of those that satisfy a claim.
LEMMA Induction ==
    ASSUME NEW S, S \subseteq Nat, 0 \in S, \A n \in S : n + 1 \in S
    PROVE  S = Nat
<1>1. SUFFICES ASSUME Nat \ S # {}
               PROVE  FALSE
  OBVIOUS
<1>2. PICK x \in Nat \ S : \A y \in Nat \ S : x <= y
  BY <1>1, SmallestNumber
<1>3. x - 1 \in Nat /\ x - 1 \notin S
  BY <1>2
<1>4. QED
  BY <1>2, <1>3

\* The names in paths, and all the paths of a tree.
PathNames == UNION {{p[i] : i \in 1..Len(p)} : p \in Paths}
TreePaths == {p \in Seq(PathNames) : Len(p) \in 1..MaxDepth}

\* A source's paths are paths of a tree.
LEMMA PathsAre == Paths \subseteq TreePaths
<1>1. SUFFICES ASSUME NEW p \in Paths PROVE p \in TreePaths
  OBVIOUS
<1>2. Len(p) \in 1..MaxDepth /\ p = [i \in 1..Len(p) |-> p[i]] /\ MaxDepth \in Nat
  BY StepsAssumption
<1>3. \A i \in 1..Len(p) : p[i] \in PathNames
  BY DEF PathNames
<1>4. p \in Seq(PathNames)
  BY <1>2, <1>3
<1>5. QED
  BY <1>2, <1>4 DEF TreePaths

\* The first names of a path.
LEMMA Prefix ==
    ASSUME NEW p \in Seq(PathNames), NEW n \in 0..Len(p)
    PROVE  /\ SubSeq(p, 1, n) \in Seq(PathNames)
           /\ Len(SubSeq(p, 1, n)) = n
           /\ \A i \in 1..n : SubSeq(p, 1, n)[i] = p[i]
OBVIOUS

\* The first names of the first names are first names.
LEMMA PrefixTwice ==
    ASSUME NEW p \in Seq(PathNames), NEW n \in 0..Len(p), NEW m \in 0..n
    PROVE  SubSeq(SubSeq(p, 1, n), 1, m) = SubSeq(p, 1, m)
<1> DEFINE q == SubSeq(p, 1, n)
           r == SubSeq(q, 1, m)
           s == SubSeq(p, 1, m)
<1>0. m \in 0..Len(p)
  OBVIOUS
<1>1. q \in Seq(PathNames) /\ Len(q) = n /\ \A i \in 1..n : q[i] = p[i]
  BY Prefix
<1>2. s \in Seq(PathNames) /\ Len(s) = m /\ \A i \in 1..m : s[i] = p[i]
  BY <1>0, Prefix
<1> HIDE DEF q, s
<1>3. r \in Seq(PathNames) /\ Len(r) = m /\ \A i \in 1..m : r[i] = q[i]
  BY <1>1, Prefix
<1> HIDE DEF r
<1>4. \A i \in 1..m : r[i] = s[i]
  BY <1>1, <1>2, <1>3
<1>5. r = s
  BY <1>2, <1>3, <1>4, SeqEqual
<1>6. QED
  BY <1>5 DEF q, r, s

\* A directory is the path of what is in it without the last name.
LEMMA InIs ==
    ASSUME NEW p \in Seq(PathNames), Len(p) >= 1, NEW d \in Seq(PathNames)
    PROVE  /\ Tree!In(p, d) <=> d = SubSeq(p, 1, Len(p) - 1)
           /\ Tree!In(p, d) => Append(d, p[Len(p)]) = p /\ Len(p) = Len(d) + 1
<1>0. Len(p) \in Nat /\ Len(d) \in Nat /\ Len(p) - 1 \in 0..Len(p)
  OBVIOUS
<1>1. ASSUME d = SubSeq(p, 1, Len(p) - 1) PROVE Tree!In(p, d)
  <2>1. Len(d) = Len(p) - 1
    BY <1>0, <1>1, Prefix
  <2>2. QED
    BY <1>0, <1>1, <2>1 DEF Tree!In
<1>2. ASSUME Tree!In(p, d)
      PROVE  d = SubSeq(p, 1, Len(p) - 1) /\ Append(d, p[Len(p)]) = p /\ Len(p) = Len(d) + 1
  <2>1. Len(p) = Len(d) + 1 /\ SubSeq(p, 1, Len(d)) = d
    BY <1>2 DEF Tree!In
  <2>2. Len(d) = Len(p) - 1
    BY <1>0, <2>1
  <2>3. d = SubSeq(p, 1, Len(p) - 1)
    BY <2>1, <2>2
  <2>4. \A i \in 1..Len(d) : d[i] = p[i]
    <3>1. Len(d) \in 0..Len(p)
      BY <1>0, <2>1
    <3>2. QED
      BY <2>1, <3>1, Prefix
  <2>5. p[Len(p)] \in PathNames
    BY <1>0
  <2> DEFINE q == Append(d, p[Len(p)])
  <2>6. /\ q \in Seq(PathNames) /\ Len(q) = Len(d) + 1
        /\ q[Len(d) + 1] = p[Len(p)]
        /\ \A i \in 1..Len(d) : q[i] = d[i]
    BY <2>5
  <2> HIDE DEF q
  <2>7. \A i \in 1..Len(p) : q[i] = p[i]
    BY <1>0, <2>1, <2>4, <2>6
  <2>8. q = p
    BY <2>1, <2>6, <2>7, SeqEqual
  <2>9. QED
    BY <2>1, <2>3, <2>8 DEF q
<1>3. QED
  BY <1>1, <1>2

\* The tree that is built: paths, each of them below directories of the tree, and file keys.
GoodTree == /\ subdirs \subseteq TreePaths
            /\ DOMAIN leaves \subseteq TreePaths
            /\ \A p \in subdirs \cup DOMAIN leaves : Tree!Parents(p) \subseteq subdirs
            /\ \A p \in DOMAIN leaves : leaves[p] # Tree!NoKey

\* A directory of the tree, the root too, is a path.
LEMMA DirsAre ==
    ASSUME GoodTree
    PROVE  /\ MaxDepth \in Nat
           /\ \A d \in Tree!Dirs : d \in Seq(PathNames) /\ Len(d) \in 0..MaxDepth
<1>1. MaxDepth \in Nat
  BY StepsAssumption
<1>2. ASSUME NEW d \in subdirs
      PROVE  d \in Seq(PathNames) /\ Len(d) \in 0..MaxDepth
  <2>1. d \in TreePaths
    BY DEF GoodTree
  <2>2. QED
    BY <1>1, <2>1 DEF TreePaths
<1>3. ASSUME NEW d, d = <<>>
      PROVE  d \in Seq(PathNames) /\ Len(d) \in 0..MaxDepth
  BY <1>1, <1>3
<1>4. QED
  BY <1>1, <1>2, <1>3 DEF Tree!Dirs

\* buildAndHash of one directory, where f has the nodes below.
NodeOf(f, d) ==
    {[name |-> p[Len(p)], key |-> leaves[p], sub |-> {}] :
         p \in {q \in DOMAIN leaves : Tree!In(q, d)}} \cup
    {[name |-> p[Len(p)], key |-> Tree!NoKey, sub |-> f[p]] :
         p \in {q \in subdirs : Tree!In(q, d)}}

\* It depends on the directories in d only.
LEMMA NodeBelow ==
    ASSUME NEW f, NEW g, NEW d, \A p \in subdirs : Tree!In(p, d) => f[p] = g[p]
    PROVE  NodeOf(f, d) = NodeOf(g, d)
<1> DEFINE D == {q \in subdirs : Tree!In(q, d)}
           A == {[name |-> p[Len(p)], key |-> Tree!NoKey, sub |-> f[p]] : p \in D}
           B == {[name |-> p[Len(p)], key |-> Tree!NoKey, sub |-> g[p]] : p \in D}
<1>1. \A p \in D : f[p] = g[p]
  OBVIOUS
<1> HIDE DEF D
<1>2. A = B
  BY <1>1
<1> HIDE DEF A, B
<1>3. QED
  BY <1>2 DEF A, B, D, NodeOf

\* The recursion over the directories, from the deepest up, has a solution.
LEMMA HashExists ==
    ASSUME GoodTree
    PROVE  \E f : f = [d \in Tree!Dirs |-> NodeOf(f, d)]
<1> DEFINE Deep(k) == {d \in Tree!Dirs : Len(d) + k > MaxDepth}
           N == {k \in Nat : \E f : f = [d \in Deep(k) |-> NodeOf(f, d)]}
<1>0. /\ MaxDepth \in Nat
      /\ \A d \in Tree!Dirs : d \in Seq(PathNames) /\ Len(d) \in 0..MaxDepth
  BY DirsAre
<1>1. 0 \in N
  <2>1. Deep(0) = {}
    BY <1>0
  <2> DEFINE f == [d \in {} |-> NodeOf(<<>>, d)]
  <2> HIDE DEF Deep
  <2>2. f = [d \in Deep(0) |-> NodeOf(f, d)]
    BY <2>1
  <2> HIDE DEF f
  <2>3. QED
    BY <2>2
<1>2. ASSUME NEW k \in N
      PROVE  k + 1 \in N
  <2>1. k \in Nat
    OBVIOUS
  <2>2. PICK f : f = [d \in Deep(k) |-> NodeOf(f, d)]
    OBVIOUS
  <2> DEFINE g == [d \in Deep(k + 1) |-> NodeOf(f, d)]
  <2>3. Deep(k) \subseteq Deep(k + 1)
    BY <1>0, <2>1
  <2>4. ASSUME NEW d \in Deep(k + 1)
        PROVE  NodeOf(f, d) = NodeOf(g, d)
    <3>1. ASSUME NEW p \in subdirs, Tree!In(p, d)
          PROVE  f[p] = g[p]
      <4>1. p \in Tree!Dirs /\ Len(p) = Len(d) + 1
        BY <3>1 DEF Tree!Dirs, Tree!In
      <4>2. p \in Deep(k)
        BY <1>0, <2>1, <4>1
      <4> HIDE DEF Deep
      <4>3. f[p] = NodeOf(f, p)
        BY <2>2, <4>2
      <4>4. p \in Deep(k + 1)
        BY <2>3, <4>2
      <4>5. g[p] = NodeOf(f, p)
        BY <4>4
      <4>6. QED
        BY <4>3, <4>5
    <3> HIDE DEF g, Deep
    <3>2. QED
      BY <3>1, NodeBelow
  <2>5. g = [d \in Deep(k + 1) |-> NodeOf(g, d)]
    <3> DEFINE E == Deep(k + 1)
               G == g
    <3>1. G = [d \in E |-> NodeOf(f, d)] /\ \A d \in E : NodeOf(f, d) = NodeOf(G, d)
      BY <2>4
    <3> HIDE DEF E, G
    <3>2. G = [d \in E |-> NodeOf(G, d)]
      BY <3>1
    <3>3. QED
      BY <3>2 DEF E, G
  <2> HIDE DEF g, Deep
  <2>6. QED
    BY <2>1, <2>5
<1>3. N \subseteq Nat
  OBVIOUS
<1> HIDE DEF N
<1>4. N = Nat
  BY <1>1, <1>2, <1>3, Induction
<1>5. MaxDepth + 1 \in N
  BY <1>0, <1>4
<1>6. Deep(MaxDepth + 1) = Tree!Dirs
  BY <1>0
<1> HIDE DEF Deep
<1>7. PICK f : f = [d \in Deep(MaxDepth + 1) |-> NodeOf(f, d)]
  BY <1>5 DEF N
<1>8. QED
  BY <1>6, <1>7

\* buildAndHash: a directory's node has the names in it, with the files' keys and the nodes
\* of the directories.
LEMMA HashIs ==
    ASSUME GoodTree
    PROVE  \A d \in Tree!Dirs : Tree!BuildAndHash[d] = NodeOf(Tree!BuildAndHash, d)
<1> DEFINE h == Tree!BuildAndHash
           P(f) == f = [d \in Tree!Dirs |-> NodeOf(f, d)]
<1>1. h = CHOOSE f : P(f)
  BY Zenon DEF Tree!BuildAndHash, NodeOf
<1>2. \E f : P(f)
  BY HashExists
<1>3. P(h)
  <2> HIDE DEF P, h
  <2>1. QED
    BY <1>1, <1>2
<1> HIDE DEF h
<1>4. \A d \in Tree!Dirs : h[d] = NodeOf(h, d)
  BY <1>3
<1>5. QED
  BY <1>4 DEF h

\* The calls of walkTree that the calls C make.
CallsBelow(C) ==
    UNION {{<<e.sub, Append(c[2], e.name)>> : e \in {x \in c[1] : x.key = Tree!NoKey}} :
               c \in {b \in C : b[1] \in trees}}

\* A call for each directory of a node that is there.
LEMMA CallsBelowHas ==
    ASSUME NEW C
    PROVE  /\ \A c \in C : c[1] \in trees =>
                 \A e \in c[1] : e.key = Tree!NoKey => <<e.sub, Append(c[2], e.name)>> \in CallsBelow(C)
           /\ \A y \in CallsBelow(C) : \E c \in C :
                 /\ c[1] \in trees
                 /\ \E e \in c[1] : e.key = Tree!NoKey /\ y = <<e.sub, Append(c[2], e.name)>>
<1> DEFINE Made(c) == {<<e.sub, Append(c[2], e.name)>> : e \in {x \in c[1] : x.key = Tree!NoKey}}
<1>1. \A c : \A e \in c[1] : e.key = Tree!NoKey => <<e.sub, Append(c[2], e.name)>> \in Made(c)
  OBVIOUS
<1>2. \A c : \A y \in Made(c) :
         \E e \in c[1] : e.key = Tree!NoKey /\ y = <<e.sub, Append(c[2], e.name)>>
  OBVIOUS
<1>3. CallsBelow(C) = UNION {Made(c) : c \in {b \in C : b[1] \in trees}}
  BY DEF CallsBelow
<1> HIDE DEF Made
<1>4. \A y : y \in CallsBelow(C) <=> \E c \in C : c[1] \in trees /\ y \in Made(c)
  BY <1>3
<1>5. QED
  BY <1>1, <1>2, <1>4

\* The calls of walkTree at a depth, where f has those above.
CallsOf(f, depth) ==
    IF depth = 0 THEN {<<Tree!BuildAndHash[<<>>], <<>>>>} ELSE CallsBelow(f[depth - 1])

\* The recursion over depths has a solution.
LEMMA CallsExist ==
    ASSUME NEW n \in Nat
    PROVE  \E f : f = [depth \in 0..n |-> CallsOf(f, depth)]
<1> DEFINE N == {k \in Nat : \E f : f = [depth \in 0..k |-> CallsOf(f, depth)]}
<1>1. 0 \in N
  <2> DEFINE f == [depth \in 0..0 |-> CallsOf(<<>>, depth)]
  <2>1. \A depth \in 0..0 : depth = 0
    OBVIOUS
  <2>2. CallsOf(<<>>, 0) = CallsOf(f, 0)
    BY DEF CallsOf
  <2> DEFINE Z == 0..0
             g == f
  <2>3. g = [depth \in Z |-> CallsOf(<<>>, depth)]
    OBVIOUS
  <2>4. \A depth \in Z : CallsOf(<<>>, depth) = CallsOf(g, depth)
    BY <2>1, <2>2
  <2> HIDE DEF Z, g
  <2>5. g = [depth \in Z |-> CallsOf(g, depth)]
    BY <2>3, <2>4
  <2>6. QED
    BY <2>5 DEF Z
<1>2. ASSUME NEW k \in N
      PROVE  k + 1 \in N
  <2>1. k \in Nat
    OBVIOUS
  <2>2. PICK f : f = [depth \in 0..k |-> CallsOf(f, depth)]
    OBVIOUS
  <2> DEFINE E == 0..(k + 1)
             g == [depth \in E |-> CallsOf(f, depth)]
  <2>3. ASSUME NEW depth \in E
        PROVE  CallsOf(f, depth) = CallsOf(g, depth)
    <3>1. CASE depth = 0
      BY <3>1 DEF CallsOf
    <3>2. CASE depth # 0
      <4>1. depth - 1 \in 0..k /\ depth - 1 \in E
        BY <2>1, <3>2
      <4>2. f[depth - 1] = CallsOf(f, depth - 1)
        BY <2>2, <4>1
      <4>3. g[depth - 1] = CallsOf(f, depth - 1)
        BY <4>1
      <4> HIDE DEF g
      <4>4. f[depth - 1] = g[depth - 1]
        BY <4>2, <4>3
      <4>5. QED
        BY <3>2, <4>4, Zenon DEF CallsOf
    <3>3. QED
      BY <3>1, <3>2
  <2>4. g = [depth \in E |-> CallsOf(f, depth)]
    OBVIOUS
  <2> HIDE DEF E, g
  <2>5. g = [depth \in E |-> CallsOf(g, depth)]
    BY <2>3, <2>4
  <2>6. k + 1 \in Nat /\ E = 0..(k + 1)
    BY <2>1 DEF E
  <2>7. QED
    BY <2>5, <2>6
<1>3. N \subseteq Nat
  OBVIOUS
<1> HIDE DEF N
<1>4. N = Nat
  BY <1>1, <1>2, <1>3, Induction
<1>5. QED
  BY <1>4 DEF N

\* The calls of walkTree: the root's, and below every node that is there its directories'.
LEMMA CallsStep ==
    /\ Tree!Calls[0] = CallsOf(Tree!Calls, 0)
    /\ \A depth \in 0..MaxDepth : Tree!Calls[depth] = CallsOf(Tree!Calls, depth)
<1> DEFINE h == Tree!Calls
           P(f) == f = [depth \in 0..MaxDepth |-> CallsOf(f, depth)]
<1>0. MaxDepth \in Nat /\ 0 \in 0..MaxDepth
  BY StepsAssumption
<1>1. h = CHOOSE f : P(f)
  BY Zenon DEF Tree!Calls, CallsOf, CallsBelow
<1>2. \E f : P(f)
  BY <1>0, CallsExist
<1>3. P(h)
  <2> HIDE DEF P, h
  <2>1. QED
    BY <1>1, <1>2
<1> HIDE DEF h
<1>4. \A depth \in 0..MaxDepth : h[depth] = CallsOf(h, depth)
  BY <1>3
<1>5. QED
  BY <1>0, <1>4 DEF h

\* What is in a node.
LEMMA NodeHas ==
    ASSUME GoodTree, NEW d \in Tree!Dirs
    PROVE  /\ \A e \in Tree!BuildAndHash[d] :
                 \/ /\ e.key = Tree!NoKey
                    /\ \E p \in subdirs : /\ Tree!In(p, d)
                                          /\ e.name = p[Len(p)]
                                          /\ e.sub = Tree!BuildAndHash[p]
                 \/ /\ e.key # Tree!NoKey
                    /\ \E p \in DOMAIN leaves : /\ Tree!In(p, d)
                                                /\ e.name = p[Len(p)]
                                                /\ e.key = leaves[p]
           /\ \A p \in subdirs : Tree!In(p, d) =>
                 \E e \in Tree!BuildAndHash[d] : /\ e.key = Tree!NoKey
                                                 /\ e.name = p[Len(p)]
                                                 /\ e.sub = Tree!BuildAndHash[p]
           /\ \A p \in DOMAIN leaves : Tree!In(p, d) =>
                 \E e \in Tree!BuildAndHash[d] : /\ e.key # Tree!NoKey
                                                 /\ e.name = p[Len(p)]
                                                 /\ e.key = leaves[p]
<1> DEFINE h == Tree!BuildAndHash
<1>1. h[d] = NodeOf(h, d)
  BY HashIs
<1> HIDE DEF h
<1>2. ASSUME NEW e \in h[d]
      PROVE  \/ e.key = Tree!NoKey /\ \E p \in subdirs : /\ Tree!In(p, d)
                                                         /\ e.name = p[Len(p)]
                                                         /\ e.sub = h[p]
             \/ /\ e.key # Tree!NoKey
                /\ \E p \in DOMAIN leaves : /\ Tree!In(p, d)
                                            /\ e.name = p[Len(p)]
                                            /\ e.key = leaves[p]
  <2>1. CASE e \in {[name |-> p[Len(p)], key |-> leaves[p], sub |-> {}] :
                       p \in {q \in DOMAIN leaves : Tree!In(q, d)}}
    <3>1. PICK p \in DOMAIN leaves : /\ Tree!In(p, d)
                                     /\ e = [name |-> p[Len(p)], key |-> leaves[p], sub |-> {}]
      BY <2>1
    <3>2. leaves[p] # Tree!NoKey
      BY DEF GoodTree
    <3>3. e.key # Tree!NoKey /\ e.key = leaves[p] /\ e.name = p[Len(p)]
      BY <3>1, <3>2
    <3>4. QED
      BY <3>1, <3>3
  <2>2. CASE e \in {[name |-> p[Len(p)], key |-> Tree!NoKey, sub |-> h[p]] :
                       p \in {q \in subdirs : Tree!In(q, d)}}
    <3>1. PICK p \in subdirs : /\ Tree!In(p, d)
                               /\ e = [name |-> p[Len(p)], key |-> Tree!NoKey, sub |-> h[p]]
      BY <2>2
    <3>2. e.key = Tree!NoKey /\ e.name = p[Len(p)] /\ e.sub = h[p]
      BY <3>1
    <3>3. QED
      BY <3>1, <3>2
  <2>3. QED
    BY <1>1, <2>1, <2>2 DEF NodeOf
<1>3. ASSUME NEW p \in subdirs, Tree!In(p, d)
      PROVE  \E e \in h[d] : e.key = Tree!NoKey /\ e.name = p[Len(p)] /\ e.sub = h[p]
  <2> DEFINE e == [name |-> p[Len(p)], key |-> Tree!NoKey, sub |-> h[p]]
  <2>1. e \in h[d]
    BY <1>1, <1>3 DEF NodeOf
  <2>2. e.key = Tree!NoKey /\ e.name = p[Len(p)] /\ e.sub = h[p]
    OBVIOUS
  <2> HIDE DEF e
  <2>3. QED
    BY <2>1, <2>2
<1>4. ASSUME NEW p \in DOMAIN leaves, Tree!In(p, d)
      PROVE  \E e \in h[d] : e.key # Tree!NoKey /\ e.name = p[Len(p)] /\ e.key = leaves[p]
  <2> DEFINE e == [name |-> p[Len(p)], key |-> leaves[p], sub |-> {}]
  <2>1. e \in h[d]
    BY <1>1, <1>4 DEF NodeOf
  <2>2. e.key # Tree!NoKey /\ e.name = p[Len(p)] /\ e.key = leaves[p]
    BY DEF GoodTree
  <2> HIDE DEF e
  <2>3. QED
    BY <2>1, <2>2
<1>5. QED
  BY <1>2, <1>3, <1>4 DEF h

\* Something in the tree is in a directory of the tree, and reached if that one is and its
\* node is there.
LEMMA ParentIs ==
    ASSUME GoodTree, NEW p \in subdirs \cup DOMAIN leaves
    PROVE  /\ p \in Seq(PathNames) /\ Len(p) \in 1..MaxDepth
           /\ SubSeq(p, 1, Len(p) - 1) \in Tree!Dirs
           /\ Len(SubSeq(p, 1, Len(p) - 1)) = Len(p) - 1
           /\ Tree!Reached(p) <=> /\ Tree!Reached(SubSeq(p, 1, Len(p) - 1))
                                  /\ Tree!BuildAndHash[SubSeq(p, 1, Len(p) - 1)] \notin lost
<1> DEFINE d == SubSeq(p, 1, Len(p) - 1)
           h == Tree!BuildAndHash
<1>1. p \in Seq(PathNames) /\ Len(p) \in 1..MaxDepth /\ MaxDepth \in Nat
  BY StepsAssumption DEF GoodTree, TreePaths
<1>2. Len(p) - 1 \in 0..Len(p) /\ Len(p) - 1 \in Nat /\ (Len(p) # 1 => Len(p) - 1 \in 1..(Len(p) - 1))
  <2> DEFINE n == Len(p)
  <2>1. n \in 1..MaxDepth
    BY <1>1
  <2> HIDE DEF n
  <2>2. n - 1 \in 0..n /\ n - 1 \in Nat /\ (n # 1 => n - 1 \in 1..(n - 1))
    BY <1>1, <2>1
  <2>3. QED
    BY <2>2 DEF n
<1>3. d \in Seq(PathNames) /\ Len(d) = Len(p) - 1
  BY <1>1, <1>2, Prefix
<1>4. d \in Tree!Dirs
  <2>1. CASE Len(p) = 1
    <3>1. d \in Seq(PathNames) /\ Len(d) = 0
      BY <1>3, <2>1
    <3> HIDE DEF d
    <3>2. d = <<>>
      BY <3>1
    <3>3. QED
      BY <3>2 DEF Tree!Dirs
  <2>2. CASE Len(p) # 1
    <3>1. Len(p) - 1 \in 1..(Len(p) - 1)
      BY <1>2, <2>2
    <3>2. d \in Tree!Parents(p)
      BY <3>1 DEF Tree!Parents
    <3>3. QED
      BY <3>2 DEF GoodTree, Tree!Dirs
  <2>3. QED
    BY <2>1, <2>2
<1>5. \A n \in 0..(Len(d) - 1) : SubSeq(d, 1, n) = SubSeq(p, 1, n)
  <2>1. SUFFICES ASSUME NEW n \in 0..(Len(d) - 1) PROVE SubSeq(d, 1, n) = SubSeq(p, 1, n)
    OBVIOUS
  <2>2. n \in 0..(Len(p) - 1)
    BY <1>2, <1>3
  <2>3. QED
    BY <1>1, <1>2, <2>2, PrefixTwice
<1> HIDE DEF d
<1>6. Tree!Reached(p) <=> \A n \in 0..(Len(p) - 1) : h[SubSeq(p, 1, n)] \notin lost
  BY Zenon DEF Tree!Reached
<1>7. Tree!Reached(d) <=> \A n \in 0..(Len(d) - 1) : h[SubSeq(d, 1, n)] \notin lost
  BY Zenon DEF Tree!Reached
<1> HIDE DEF h
<1>8. /\ \A n \in 0..(Len(p) - 1) : n \in 0..(Len(d) - 1) \/ n = Len(p) - 1
      /\ \A n \in 0..(Len(d) - 1) : n \in 0..(Len(p) - 1)
      /\ Len(p) - 1 \in 0..(Len(p) - 1)
  BY <1>2, <1>3
<1>9. h[SubSeq(p, 1, Len(p) - 1)] = h[d]
  BY DEF d
<1>10. Tree!Reached(p) <=> Tree!Reached(d) /\ h[d] \notin lost
  <2>1. ASSUME Tree!Reached(p) PROVE Tree!Reached(d) /\ h[d] \notin lost
    BY <1>5, <1>6, <1>7, <1>8, <1>9, <2>1
  <2>2. ASSUME Tree!Reached(d), h[d] \notin lost PROVE Tree!Reached(p)
    <3>1. SUFFICES ASSUME NEW n \in 0..(Len(p) - 1) PROVE h[SubSeq(p, 1, n)] \notin lost
      BY <1>6
    <3>2. CASE n = Len(p) - 1
      BY <1>9, <2>2, <3>2
    <3>3. CASE n \in 0..(Len(d) - 1)
      BY <1>5, <1>7, <2>2, <3>3
    <3>4. QED
      BY <1>8, <3>2, <3>3
  <2>3. QED
    BY <2>1, <2>2
<1>11. QED
  BY <1>1, <1>3, <1>4, <1>10 DEF d, h

\* The store has the tree's nodes, but for those that were lost.
TreeStored == trees = {Tree!BuildAndHash[d] : d \in Tree!Dirs} \ lost

\* The directories at a depth that the walk comes to.
Level(k) == {d \in Tree!Dirs : Len(d) = k /\ Tree!Reached(d)}

\* walkTree is called for just these.
LEMMA CallsAre ==
    ASSUME GoodTree, TreeStored, NEW depth \in 0..MaxDepth
    PROVE  Tree!Calls[depth] = {<<Tree!BuildAndHash[d], d>> : d \in Level(depth)}
<1> DEFINE h == Tree!BuildAndHash
           f == Tree!Calls
           Pairs(k) == {<<h[d], d>> : d \in Level(k)}
           N == {k \in Nat : k \in 0..MaxDepth => f[k] = Pairs(k)}
<1>0. /\ MaxDepth \in Nat
      /\ \A d \in Tree!Dirs : d \in Seq(PathNames) /\ Len(d) \in 0..MaxDepth
  BY DirsAre
<1>1. 0 \in N
  <2>1. Level(0) = {<<>>}
    <3>1. ASSUME NEW d \in Level(0) PROVE d = <<>>
      <4>1. d \in Seq(PathNames) /\ Len(d) = 0
        BY <1>0 DEF Level
      <4>2. QED
        BY <4>1
    <3>2. ASSUME NEW d, d = <<>> PROVE d \in Tree!Dirs /\ Len(d) = 0 /\ Tree!Reached(d)
      <4>1. d \in Tree!Dirs
        BY <3>2 DEF Tree!Dirs
      <4>2. Len(d) = 0
        BY <3>2
      <4>3. 0..(Len(d) - 1) = {}
        BY <4>2
      <4>4. QED
        BY <4>1, <4>2, <4>3 DEF Tree!Reached
    <3>3. QED
      BY <3>1, <3>2 DEF Level
  <2>2. f[0] = {<<h[<<>>], <<>>>>}
    BY CallsStep DEF CallsOf
  <2> HIDE DEF f, h
  <2>3. f[0] = Pairs(0)
    BY <2>1, <2>2
  <2>4. QED
    BY <2>3
<1>2. ASSUME NEW k \in N
      PROVE  k + 1 \in N
  <2>1. SUFFICES ASSUME k + 1 \in 0..MaxDepth PROVE f[k + 1] = Pairs(k + 1)
    OBVIOUS
  <2>2. k \in Nat /\ k \in 0..MaxDepth /\ k + 1 # 0 /\ k + 1 - 1 = k
    BY <1>0, <2>1
  <2>3. f[k] = Pairs(k)
    BY <2>2
  <2>4. f[k + 1] = CallsBelow(f[k])
    <3>1. f[k + 1] = CallsOf(f, k + 1)
      BY <2>1, CallsStep
    <3> HIDE DEF f
    <3>2. QED
      BY <2>2, <3>1 DEF CallsOf
  <2>5. \A d \in Tree!Dirs : h[d] \in trees <=> h[d] \notin lost
    BY DEF TreeStored
  <2>6. ASSUME NEW p \in subdirs
        PROVE  LET d == SubSeq(p, 1, Len(p) - 1)
               IN  /\ p \in Seq(PathNames) /\ Len(p) >= 1
                   /\ d \in Tree!Dirs /\ Len(d) = Len(p) - 1
                   /\ Tree!Reached(p) <=> Tree!Reached(d) /\ h[d] \notin lost
    BY ParentIs
  <2>7. ASSUME NEW y \in f[k + 1] PROVE y \in Pairs(k + 1)
    <3> HIDE DEF Pairs
    <3>1. PICK c \in f[k] : /\ c[1] \in trees
                            /\ \E e \in c[1] : /\ e.key = Tree!NoKey
                                               /\ y = <<e.sub, Append(c[2], e.name)>>
      BY <2>4, <2>7, CallsBelowHas
    <3>2. PICK d \in Level(k) : c = <<h[d], d>>
      BY <2>3 DEF Pairs
    <3>3. c[1] = h[d] /\ c[2] = d
      BY <3>2
    <3>4. d \in Tree!Dirs /\ Len(d) = k /\ Tree!Reached(d) /\ d \in Seq(PathNames)
      BY <1>0 DEF Level
    <3>5. PICK e \in h[d] : e.key = Tree!NoKey /\ y = <<e.sub, Append(d, e.name)>>
      BY <3>1, <3>3
    <3>6. PICK p \in subdirs : Tree!In(p, d) /\ e.name = p[Len(p)] /\ e.sub = h[p]
      BY <3>4, <3>5, NodeHas
    <3>7. p \in Seq(PathNames) /\ Len(p) >= 1
      BY <2>6
    <3>8. d = SubSeq(p, 1, Len(p) - 1) /\ Append(d, p[Len(p)]) = p /\ Len(p) = Len(d) + 1
      BY <3>4, <3>6, <3>7, InIs
    <3>9. Tree!Reached(p)
      BY <2>5, <2>6, <3>1, <3>3, <3>4, <3>8
    <3>10. p \in Level(k + 1)
      BY <3>4, <3>8, <3>9 DEF Level, Tree!Dirs
    <3>11. y = <<h[p], p>>
      BY <3>5, <3>6, <3>8
    <3> HIDE DEF h
    <3>12. QED
      BY <3>10, <3>11 DEF Pairs
  <2>8. ASSUME NEW y \in Pairs(k + 1) PROVE y \in f[k + 1]
    <3> HIDE DEF Pairs
    <3>1. PICK p \in Level(k + 1) : y = <<h[p], p>>
      BY <2>8 DEF Pairs
    <3>2. p \in Tree!Dirs /\ Len(p) = k + 1 /\ Tree!Reached(p)
      BY DEF Level
    <3>3. p \in subdirs
      <4>1. ASSUME p = <<>> PROVE FALSE
        BY <2>2, <3>2, <4>1
      <4>2. QED
        BY <3>2, <4>1 DEF Tree!Dirs
    <3> DEFINE d == SubSeq(p, 1, Len(p) - 1)
    <3>4. /\ p \in Seq(PathNames) /\ Len(p) >= 1
          /\ d \in Tree!Dirs /\ Len(d) = Len(p) - 1
          /\ Tree!Reached(d) /\ h[d] \notin lost
      BY <2>6, <3>2, <3>3
    <3>5. Len(d) = k /\ d \in Seq(PathNames)
      BY <1>0, <2>2, <3>2, <3>4
    <3>6. Tree!In(p, d) /\ Append(d, p[Len(p)]) = p
      BY <3>4, <3>5, InIs
    <3> HIDE DEF d
    <3>7. PICK e \in h[d] : e.key = Tree!NoKey /\ e.name = p[Len(p)] /\ e.sub = h[p]
      BY <3>3, <3>4, <3>6, NodeHas
    <3>8. y = <<e.sub, Append(d, e.name)>>
      BY <3>1, <3>6, <3>7
    <3> DEFINE c == <<h[d], d>>
    <3>9. c[1] = h[d] /\ c[2] = d
      OBVIOUS
    <3>10. c \in f[k]
      BY <2>3, <3>4, <3>5 DEF Pairs, Level
    <3> HIDE DEF c, h, f
    <3>11. c[1] \in trees /\ e \in c[1] /\ y = <<e.sub, Append(c[2], e.name)>>
      BY <2>5, <3>4, <3>7, <3>8, <3>9
    <3>12. QED
      BY <2>4, <3>7, <3>10, <3>11, CallsBelowHas
  <2>9. QED
    <3> HIDE DEF Pairs, f
    <3>1. QED
      BY <2>7, <2>8
<1>3. N \subseteq Nat
  OBVIOUS
<1> HIDE DEF N
<1>4. N = Nat
  BY <1>1, <1>2, <1>3, Induction
<1>5. depth \in N
  BY <1>0, <1>4
<1>6. QED
  BY <1>5 DEF N

\* What walkTree returns: an error for a node it does not find, unless it passes it over; the
\* files and the empty directories it comes to.
LEMMA WalkIs ==
    ASSUME GoodTree, TreeStored, NEW skip \in BOOLEAN
    PROVE  /\ Tree!WalkTree(skip).err <=>
                 (\E d \in Tree!Dirs : Tree!Reached(d) /\ Tree!BuildAndHash[d] \in lost) /\ ~ skip
           /\ DOMAIN Tree!WalkTree(skip).files = {p \in DOMAIN leaves : Tree!Reached(p)}
           /\ \A p \in DOMAIN leaves : Tree!Reached(p) => Tree!WalkTree(skip).files[p] = leaves[p]
           /\ Tree!WalkTree(skip).dirs =
                 {d \in subdirs : /\ Tree!Reached(d)
                                  /\ Tree!BuildAndHash[d] \notin lost
                                  /\ Tree!BuildAndHash[d] = {}}
<1> DEFINE h == Tree!BuildAndHash
           calls == UNION {Tree!Calls[depth] : depth \in 0..MaxDepth}
           found == {c \in calls : c[1] \in trees}
           Files(c) == {<<Append(c[2], e.name), e.key>> : e \in {f \in c[1] : f.key # Tree!NoKey}}
           files == UNION {Files(c) : c \in found}
           w == Tree!WalkTree(skip)
<1>1. /\ w.err = (calls # found /\ ~ skip)
      /\ w.files = [p \in {f[1] : f \in files} |-> (CHOOSE f \in files : f[1] = p)[2]]
      /\ w.dirs = {c[2] : c \in {b \in found : b[1] = {} /\ b[2] # <<>>}}
  BY DEF Tree!WalkTree
<1>2. /\ MaxDepth \in Nat
      /\ \A d \in Tree!Dirs : d \in Seq(PathNames) /\ Len(d) \in 0..MaxDepth
  BY DirsAre
<1> DEFINE R == {d \in Tree!Dirs : Tree!Reached(d)}
<1>3. calls = {<<h[d], d>> : d \in R}
  <2>1. ASSUME NEW y \in calls PROVE \E d \in R : y = <<h[d], d>>
    <3>1. PICK depth \in 0..MaxDepth : y \in Tree!Calls[depth]
      OBVIOUS
    <3>2. PICK d \in Level(depth) : y = <<h[d], d>>
      BY <3>1, CallsAre
    <3>3. QED
      BY <3>2 DEF Level
  <2>2. ASSUME NEW d \in R PROVE <<h[d], d>> \in calls
    <3>1. Len(d) \in 0..MaxDepth /\ d \in Level(Len(d))
      BY <1>2 DEF Level
    <3>2. <<h[d], d>> \in Tree!Calls[Len(d)]
      BY <3>1, CallsAre
    <3>3. QED
      BY <3>1, <3>2
  <2> HIDE DEF calls, R, h
  <2>3. QED
    BY <2>1, <2>2
<1>4. \A d \in Tree!Dirs : h[d] \in trees <=> h[d] \notin lost
  BY DEF TreeStored
<1> HIDE DEF calls, h
<1>5. found = {<<h[d], d>> : d \in {c \in R : h[c] \notin lost}}
  <2>1. ASSUME NEW y \in found PROVE \E d \in {c \in R : h[c] \notin lost} : y = <<h[d], d>>
    <3>1. PICK d \in R : y = <<h[d], d>>
      BY <1>3
    <3>2. y[1] = h[d]
      BY <3>1
    <3>3. QED
      BY <1>4, <3>1, <3>2
  <2>2. ASSUME NEW d \in R, h[d] \notin lost PROVE <<h[d], d>> \in found
    <3> DEFINE y == <<h[d], d>>
    <3>1. y[1] = h[d] /\ y \in calls
      BY <1>3
    <3> HIDE DEF y
    <3>2. y \in found
      BY <1>4, <2>2, <3>1
    <3>3. QED
      BY <3>2 DEF y
  <2> HIDE DEF found, R
  <2>3. QED
    BY <2>1, <2>2
<1>6. (calls # found) <=> \E d \in Tree!Dirs : Tree!Reached(d) /\ h[d] \in lost
  <2>1. ASSUME NEW d \in Tree!Dirs, Tree!Reached(d), h[d] \in lost PROVE calls # found
    <3> DEFINE y == <<h[d], d>>
    <3>1. y[1] = h[d] /\ y \in calls
      BY <1>3, <2>1
    <3> HIDE DEF y
    <3>2. y \notin found
      BY <1>4, <2>1, <3>1
    <3>3. QED
      BY <3>1, <3>2
  <2>2. ASSUME \A d \in Tree!Dirs : Tree!Reached(d) => h[d] \notin lost PROVE calls = found
    <3>1. {c \in R : h[c] \notin lost} = R
      BY <2>2
    <3> HIDE DEF found, R
    <3>2. QED
      BY <1>3, <1>5, <3>1
  <2>3. QED
    BY <2>1, <2>2
<1>7. w.err <=> (\E d \in Tree!Dirs : Tree!Reached(d) /\ h[d] \in lost) /\ ~ skip
  <2> HIDE DEF found, w
  <2>1. QED
    BY <1>1, <1>6, Zenon
<1>8. ASSUME NEW y \in files PROVE \E p \in DOMAIN leaves : Tree!Reached(p) /\ y = <<p, leaves[p]>>
  <2>1. PICK c \in found : y \in Files(c)
    OBVIOUS
  <2>2. PICK d \in R : c = <<h[d], d>> /\ h[d] \notin lost
    BY <1>5
  <2>3. c[1] = h[d] /\ c[2] = d
    BY <2>2
  <2>4. PICK e \in h[d] : e.key # Tree!NoKey /\ y = <<Append(d, e.name), e.key>>
    BY <2>1, <2>3
  <2>5. PICK p \in DOMAIN leaves : Tree!In(p, d) /\ e.name = p[Len(p)] /\ e.key = leaves[p]
    BY <2>4, NodeHas DEF h
  <2>6. p \in Seq(PathNames) /\ Len(p) >= 1
    BY ParentIs
  <2>7. d = SubSeq(p, 1, Len(p) - 1) /\ Append(d, p[Len(p)]) = p
    BY <1>2, <2>5, <2>6, InIs
  <2>8. Tree!Reached(p)
    BY <2>2, <2>7, ParentIs DEF h
  <2>9. QED
    BY <2>4, <2>5, <2>7, <2>8
<1>9. ASSUME NEW p \in DOMAIN leaves, Tree!Reached(p) PROVE <<p, leaves[p]>> \in files
  <2> DEFINE d == SubSeq(p, 1, Len(p) - 1)
  <2>1. /\ p \in Seq(PathNames) /\ Len(p) >= 1
        /\ d \in Tree!Dirs
        /\ Tree!Reached(d) /\ h[d] \notin lost
    BY <1>9, ParentIs DEF h
  <2>2. Tree!In(p, d) /\ Append(d, p[Len(p)]) = p
    BY <1>2, <2>1, InIs
  <2> HIDE DEF d
  <2>3. PICK e \in h[d] : e.key # Tree!NoKey /\ e.name = p[Len(p)] /\ e.key = leaves[p]
    BY <2>1, <2>2, NodeHas DEF h
  <2> DEFINE c == <<h[d], d>>
  <2>4. c[1] = h[d] /\ c[2] = d /\ c \in found
    BY <1>5, <2>1
  <2> HIDE DEF c, found
  <2>5. <<Append(c[2], e.name), e.key>> \in Files(c)
    BY <2>3, <2>4
  <2> HIDE DEF Files
  <2>6. <<Append(c[2], e.name), e.key>> \in files
    BY <2>4, <2>5
  <2>7. <<Append(c[2], e.name), e.key>> = <<p, leaves[p]>>
    BY <2>2, <2>3, <2>4
  <2> HIDE DEF files
  <2>8. QED
    BY <2>6, <2>7
<1> HIDE DEF files, w
<1>10. {f[1] : f \in files} = {p \in DOMAIN leaves : Tree!Reached(p)}
  <2>1. ASSUME NEW f \in files PROVE f[1] \in DOMAIN leaves /\ Tree!Reached(f[1])
    BY <1>8
  <2>2. ASSUME NEW p \in DOMAIN leaves, Tree!Reached(p) PROVE \E f \in files : f[1] = p
    <3> DEFINE f == <<p, leaves[p]>>
    <3>1. f \in files /\ f[1] = p
      BY <1>9, <2>2
    <3> HIDE DEF f
    <3>2. QED
      BY <3>1
  <2>3. QED
    BY <2>1, <2>2
<1>11. ASSUME NEW p \in DOMAIN leaves, Tree!Reached(p)
       PROVE  w.files[p] = leaves[p]
  <2> DEFINE g == CHOOSE f \in files : f[1] = p
  <2>1. \E f \in files : f[1] = p
    BY <1>10, <1>11
  <2>2. g \in files /\ g[1] = p
    BY <2>1
  <2>3. w.files[p] = g[2]
    BY <1>1, <1>10, <1>11
  <2> HIDE DEF g
  <2>4. PICK q \in DOMAIN leaves : g = <<q, leaves[q]>>
    BY <1>8, <2>2
  <2>5. q = p /\ g[2] = leaves[q]
    BY <2>2, <2>4
  <2>6. QED
    BY <2>3, <2>5
<1>12. DOMAIN w.files = {p \in DOMAIN leaves : Tree!Reached(p)}
  BY <1>1, <1>10
<1>13. w.dirs = {d \in subdirs : Tree!Reached(d) /\ h[d] \notin lost /\ h[d] = {}}
  <2>1. ASSUME NEW d \in w.dirs
        PROVE  d \in subdirs /\ Tree!Reached(d) /\ h[d] \notin lost /\ h[d] = {}
    <3>1. PICK c \in found : c[1] = {} /\ c[2] # <<>> /\ d = c[2]
      BY <1>1
    <3>2. PICK b \in R : c = <<h[b], b>> /\ h[b] \notin lost
      BY <1>5
    <3>3. c[1] = h[b] /\ c[2] = b
      BY <3>2
    <3>4. QED
      BY <3>1, <3>2, <3>3 DEF Tree!Dirs
  <2>2. ASSUME NEW d \in subdirs, Tree!Reached(d), h[d] \notin lost, h[d] = {}
        PROVE  d \in w.dirs
    <3> DEFINE c == <<h[d], d>>
    <3>1. d \in R
      BY <2>2 DEF Tree!Dirs
    <3>2. c[1] = h[d] /\ c[2] = d /\ c \in found
      BY <1>5, <2>2, <3>1
    <3>3. d # <<>>
      <4>1. Len(d) >= 1
        BY ParentIs
      <4>2. QED
        BY <4>1
    <3> HIDE DEF c, found
    <3>4. QED
      BY <1>1, <2>2, <3>2, <3>3
  <2>3. QED
    BY <2>1, <2>2
<1>14. QED
  BY <1>7, <1>11, <1>12, <1>13 DEF w, h

\* A node that was lost is noticed: at the first directory of its path whose node is lost.
LEMMA LostIsMet ==
    ASSUME GoodTree, NEW d \in Tree!Dirs, Tree!BuildAndHash[d] \in lost
    PROVE  \E c \in Tree!Dirs : Tree!Reached(c) /\ Tree!BuildAndHash[c] \in lost
<1> DEFINE h == Tree!BuildAndHash
           T == {n \in 0..Len(d) : h[SubSeq(d, 1, n)] \in lost}
<1>1. d \in Seq(PathNames) /\ Len(d) \in Nat
  BY DirsAre
<1>2. Len(d) \in T
  <2>1. SubSeq(d, 1, Len(d)) = d
    BY <1>1
  <2>2. h[SubSeq(d, 1, Len(d))] \in lost
    BY <2>1
  <2>3. Len(d) \in 0..Len(d)
    BY <1>1
  <2> HIDE DEF h
  <2>4. QED
    BY <2>2, <2>3
<1>3. T \subseteq Nat /\ T # {}
  BY <1>1, <1>2
<1>4. PICK m \in T : \A n \in T : m <= n
  <2> HIDE DEF T
  <2>1. QED
    BY <1>3, SmallestNumber
<1> DEFINE c == SubSeq(d, 1, m)
<1>5. m \in 0..Len(d) /\ h[c] \in lost
  OBVIOUS
<1>6. c \in Seq(PathNames) /\ Len(c) = m
  BY <1>1, <1>5, Prefix
<1>7. c \in Tree!Dirs
  <2>1. CASE m = 0
    <3> HIDE DEF c
    <3>1. c = <<>>
      BY <1>6, <2>1
    <3>2. QED
      BY <3>1 DEF Tree!Dirs
  <2>2. CASE m = Len(d)
    <3>1. c = d
      BY <1>1, <2>2
    <3>2. QED
      BY <3>1
  <2>3. CASE m # 0 /\ m # Len(d)
    <3>1. m \in 1..(Len(d) - 1)
      BY <1>1, <1>5, <2>3
    <3>2. c \in Tree!Parents(d)
      BY <3>1 DEF Tree!Parents
    <3>3. d \in subdirs
      <4>1. ASSUME d = <<>> PROVE FALSE
        BY <1>5, <2>3, <4>1
      <4>2. QED
        BY <4>1 DEF Tree!Dirs
    <3>4. QED
      BY <3>2, <3>3 DEF GoodTree, Tree!Dirs
  <2>4. QED
    BY <2>1, <2>2, <2>3
<1>8. Tree!Reached(c)
  <2>1. SUFFICES ASSUME NEW n \in 0..(Len(c) - 1) PROVE h[SubSeq(c, 1, n)] \notin lost
    BY Zenon DEF Tree!Reached
  <2>2. n \in 0..m /\ n < m /\ n \in 0..Len(d) /\ n \in Nat /\ m \in Nat
    BY <1>1, <1>5, <1>6
  <2>3. SubSeq(c, 1, n) = SubSeq(d, 1, n)
    BY <1>1, <1>5, <2>2, PrefixTwice
  <2>4. n \notin T
    <3> HIDE DEF T
    <3>1. QED
      BY <1>4, <2>2
  <2>5. QED
    BY <2>2, <2>3, <2>4
<1>9. QED
  BY <1>5, <1>7, <1>8

\* The nodes, by the directories and files of the tree.
HashOf(S, L) ==
    CHOOSE f : f = [d \in S \cup {<<>>} |->
        {[name |-> p[Len(p)], key |-> L[p], sub |-> {}] : p \in {q \in DOMAIN L : Tree!In(q, d)}} \cup
        {[name |-> p[Len(p)], key |-> Tree!NoKey, sub |-> f[p]] : p \in {q \in S : Tree!In(q, d)}}]

\* They change with the tree only.
LEMMA SameTree ==
    ASSUME UNCHANGED <<subdirs, leaves>>
    PROVE  /\ Tree!BuildAndHash' = Tree!BuildAndHash
           /\ Tree!Dirs' = Tree!Dirs
<1>1. Tree!BuildAndHash = HashOf(subdirs, leaves)
  BY Zenon DEF Tree!BuildAndHash, Tree!Dirs, HashOf
<1>2. Tree!BuildAndHash' = HashOf(subdirs', leaves')
  BY Zenon DEF Tree!BuildAndHash, Tree!Dirs, HashOf
<1>3. subdirs' = subdirs /\ leaves' = leaves
  OBVIOUS
<1>4. HashOf(subdirs', leaves') = HashOf(subdirs, leaves)
  BY <1>3
<1>5. QED
  BY <1>1, <1>2, <1>3, <1>4 DEF Tree!Dirs

\* So does what is reached, and with what is lost.
LEMMA SameReached ==
    ASSUME UNCHANGED <<subdirs, leaves, lost>>, NEW p
    PROVE  Tree!Reached(p)' <=> Tree!Reached(p)
<1> DEFINE h == Tree!BuildAndHash
<1>1. h' = h
  BY SameTree
<1>2. Tree!Reached(p) <=> \A n \in 0..(Len(p) - 1) : h[SubSeq(p, 1, n)] \notin lost
  BY Zenon DEF Tree!Reached
<1>3. Tree!Reached(p)' <=> \A n \in 0..(Len(p) - 1) : h'[SubSeq(p, 1, n)] \notin lost'
  BY Zenon DEF Tree!Reached
<1> HIDE DEF h
<1>4. QED
  BY <1>1, <1>2, <1>3

TreeTypes == /\ entries \subseteq Tree!Entry
             /\ pending \subseteq entries

\* What was gathered comes from the entries whose results came.
GatherInv ==
    /\ dirPaths = {e.path : e \in {x \in entries \ pending : x.dir}}
    /\ DOMAIN newPathToFileKey = {e.path : e \in {x \in entries \ pending : ~ x.dir}}
    /\ \A p \in DOMAIN newPathToFileKey :
          \E e \in entries \ pending : ~ e.dir /\ e.path = p /\ e.key = newPathToFileKey[p]

\* The tree has the directories that were gathered, and files with the directories they are
\* in; no file is where a directory is.
NodeInv ==
    /\ stage = "gather" => leaves = Tree!Empty /\ lost = {}
    /\ stage \in {"tree", "collision"} => lost = {}
    /\ stage # "gather" =>
          /\ pending = {}
          /\ DOMAIN leaves \subseteq DOMAIN newPathToFileKey
          /\ todo = DOMAIN newPathToFileKey \ DOMAIN leaves
          /\ \A p \in DOMAIN leaves : leaves[p] = newPathToFileKey[p]
          /\ \A p \in dirPaths : p \in subdirs /\ Tree!Parents(p) \subseteq subdirs
          /\ \A p \in DOMAIN leaves : Tree!Parents(p) \subseteq subdirs
          /\ \A d \in subdirs : \/ d \in dirPaths
                                \/ \E p \in dirPaths \cup DOMAIN leaves : d \in Tree!Parents(p)
          /\ DOMAIN leaves \cap subdirs = {}

\* What was stored is the whole tree, but for what was lost.
StoredInv ==
    stage \in {"stored", "resolved", "skimmed"} =>
       /\ todo = {}
       /\ TreeStored
       /\ lost \subseteq {Tree!BuildAndHash[d] : d \in Tree!Dirs}

TreeInv == TreeTypes /\ GatherInv /\ NodeInv /\ StoredInv /\ Tree!TreeExact

\* Entries have paths; files have keys.
LEMMA EntryIs ==
    ASSUME NEW e \in Tree!Entry
    PROVE  e.path \in Paths /\ (~ e.dir => e.key # Tree!NoKey)
<1>1. CASE e \in [path : Paths, dir : {TRUE}, key : {Tree!NoKey}]
  <2>1. e.path \in Paths /\ e.dir = TRUE
    BY <1>1, Zenon
  <2>2. e.dir
    BY <2>1, Zenon
  <2>3. QED
    BY <2>1, <2>2, Zenon
<1>2. CASE e \in [path : Paths, dir : {FALSE}, key : FileKeys]
  <2>1. e.path \in Paths /\ e.key \in FileKeys
    BY <1>2
  <2>2. QED
    BY <2>1, StepsAssumption DEF Tree!NoKey
<1>3. QED
  BY <1>1, <1>2 DEF Tree!Entry

\* The directories a path is in are paths, are in the directories before them, and do not
\* include itself.
LEMMA ParentsAre ==
    ASSUME NEW p \in TreePaths
    PROVE  /\ Tree!Parents(p) \subseteq TreePaths
           /\ \A d \in Tree!Parents(p) : Tree!Parents(d) \subseteq Tree!Parents(p)
           /\ p \notin Tree!Parents(p)
<1>1. p \in Seq(PathNames) /\ Len(p) \in 1..MaxDepth /\ MaxDepth \in Nat
  BY StepsAssumption DEF TreePaths
<1>2. SUFFICES ASSUME NEW n \in 1..(Len(p) - 1), NEW d, d = SubSeq(p, 1, n)
               PROVE  d \in TreePaths /\ Tree!Parents(d) \subseteq Tree!Parents(p) /\ d # p
  BY DEF Tree!Parents
<1>3. n \in 0..Len(p) /\ n \in 1..MaxDepth /\ n < Len(p) /\ Len(p) \in Nat
  BY <1>1
<1>4. d \in Seq(PathNames) /\ Len(d) = n
  BY <1>1, <1>2, <1>3, Prefix
<1>5. d \in TreePaths /\ d # p
  BY <1>3, <1>4 DEF TreePaths
<1>6. ASSUME NEW m \in 1..(Len(d) - 1) PROVE SubSeq(d, 1, m) \in Tree!Parents(p)
  <2>1. m \in 0..n /\ m \in 1..(Len(p) - 1)
    BY <1>3, <1>4
  <2>2. SubSeq(d, 1, m) = SubSeq(p, 1, m)
    BY <1>1, <1>2, <1>3, <2>1, PrefixTwice
  <2>3. QED
    BY <2>1, <2>2 DEF Tree!Parents
<1>7. Tree!Parents(d) \subseteq Tree!Parents(p)
  BY <1>6 DEF Tree!Parents
<1>8. QED
  BY <1>5, <1>7

\* What was gathered are paths, and keys of files.
LEMMA GatheredIs ==
    ASSUME TreeTypes, GatherInv
    PROVE  /\ dirPaths \subseteq TreePaths
           /\ DOMAIN newPathToFileKey \subseteq TreePaths
           /\ \A p \in DOMAIN newPathToFileKey : newPathToFileKey[p] # Tree!NoKey
<1>1. \A e \in entries : e.path \in TreePaths /\ (~ e.dir => e.key # Tree!NoKey)
  BY EntryIs, PathsAre DEF TreeTypes
<1>2. QED
  BY <1>1 DEF GatherInv

\* The tree is well formed from the start.
LEMMA TreeIsGood ==
    ASSUME TreeTypes, GatherInv, NodeInv, stage # "gather"
    PROVE  GoodTree
<1>1. /\ dirPaths \subseteq TreePaths
      /\ DOMAIN newPathToFileKey \subseteq TreePaths
      /\ \A p \in DOMAIN newPathToFileKey : newPathToFileKey[p] # Tree!NoKey
  BY GatheredIs
<1>2. /\ DOMAIN leaves \subseteq DOMAIN newPathToFileKey
      /\ \A p \in DOMAIN leaves : leaves[p] = newPathToFileKey[p]
      /\ \A p \in dirPaths \cup DOMAIN leaves : Tree!Parents(p) \subseteq subdirs
      /\ \A d \in subdirs : \/ d \in dirPaths
                            \/ \E p \in dirPaths \cup DOMAIN leaves : d \in Tree!Parents(p)
  BY DEF NodeInv
<1>3. DOMAIN leaves \subseteq TreePaths /\ \A p \in DOMAIN leaves : leaves[p] # Tree!NoKey
  BY <1>1, <1>2
<1>4. ASSUME NEW d \in subdirs PROVE d \in TreePaths /\ Tree!Parents(d) \subseteq subdirs
  <2>1. CASE d \in dirPaths
    BY <1>1, <1>2, <2>1
  <2>2. CASE \E p \in dirPaths \cup DOMAIN leaves : d \in Tree!Parents(p)
    <3>1. PICK p \in dirPaths \cup DOMAIN leaves : d \in Tree!Parents(p)
      BY <2>2
    <3>2. p \in TreePaths
      BY <1>1, <1>3
    <3>3. QED
      BY <1>2, <3>1, <3>2, ParentsAre
  <2>3. QED
    BY <1>2, <2>1, <2>2
<1>5. QED
  BY <1>2, <1>3, <1>4 DEF GoodTree

\* A collision is one of the source's, and a source with one does not get past AddFile.
LEMMA CollisionIs ==
    ASSUME TreeTypes, GatherInv, NodeInv, stage # "gather"
    PROVE  /\ \A p \in todo : Tree!Collision(p) => Tree!Collides
           /\ todo = {} => ~ Tree!Collides
<1>1. /\ pending = {}
      /\ DOMAIN leaves \subseteq DOMAIN newPathToFileKey
      /\ todo = DOMAIN newPathToFileKey \ DOMAIN leaves
      /\ \A p \in dirPaths : p \in subdirs /\ Tree!Parents(p) \subseteq subdirs
      /\ \A p \in DOMAIN leaves : Tree!Parents(p) \subseteq subdirs
      /\ \A d \in subdirs : \/ d \in dirPaths
                            \/ \E p \in dirPaths \cup DOMAIN leaves : d \in Tree!Parents(p)
      /\ DOMAIN leaves \cap subdirs = {}
  BY DEF NodeInv
<1>2. /\ \A p \in dirPaths : \E e \in entries : e.dir /\ e.path = p
      /\ \A p \in DOMAIN newPathToFileKey : \E e \in Tree!FileEntries : e.path = p
      /\ \A e \in entries : e.dir => e.path \in dirPaths
      /\ \A e \in Tree!FileEntries : e \in entries /\ ~ e.dir /\ e.path \in DOMAIN newPathToFileKey
  BY <1>1 DEF GatherInv, Tree!FileEntries
<1>3. ASSUME NEW p \in todo, Tree!Collision(p) PROVE Tree!Collides
  <2>1. PICK e \in Tree!FileEntries : e.path = p
    BY <1>1, <1>2
  <2>2. CASE p \in subdirs
    <3>1. CASE p \in dirPaths
      BY <1>2, <2>1, <3>1 DEF Tree!Collides
    <3>2. CASE \E q \in dirPaths \cup DOMAIN leaves : p \in Tree!Parents(q)
      <4>1. PICK q \in dirPaths \cup DOMAIN leaves : p \in Tree!Parents(q)
        BY <3>2
      <4>2. \E f \in entries : f.path = q
        BY <1>1, <1>2
      <4>3. QED
        BY <2>1, <4>1, <4>2 DEF Tree!Collides
    <3>3. QED
      BY <1>1, <2>2, <3>1, <3>2
  <2>3. CASE Tree!Parents(p) \cap DOMAIN leaves # {}
    <3>1. PICK q \in DOMAIN leaves : q \in Tree!Parents(p)
      BY <2>3
    <3>2. PICK f \in Tree!FileEntries : f.path = q
      BY <1>1, <1>2
    <3>3. e \in entries
      BY <1>2
    <3>4. QED
      BY <2>1, <3>1, <3>2, <3>3 DEF Tree!Collides
  <2>4. QED
    BY <1>3, <2>2, <2>3 DEF Tree!Collision
<1>4. ASSUME todo = {}, Tree!Collides PROVE FALSE
  <2>1. DOMAIN leaves = DOMAIN newPathToFileKey
    BY <1>1, <1>4
  <2>2. PICK e \in Tree!FileEntries, f \in entries :
           e.path \in Tree!Parents(f.path) \/ (f.dir /\ f.path = e.path)
    BY <1>4 DEF Tree!Collides
  <2>3. e.path \in DOMAIN leaves
    BY <1>2, <2>1
  <2>4. CASE f.dir
    BY <1>1, <1>2, <2>2, <2>3, <2>4
  <2>5. CASE ~ f.dir
    <3>1. f \in Tree!FileEntries
      BY <2>5 DEF Tree!FileEntries
    <3>2. QED
      BY <1>1, <1>2, <2>1, <2>2, <2>3, <2>5, <3>1
  <2>6. QED
    BY <2>4, <2>5
<1>5. QED
  BY <1>3, <1>4

\* A node is empty just for the source's empty directories.
LEMMA EmptyIs ==
    ASSUME TreeTypes, GatherInv, NodeInv, stage # "gather", todo = {}
    PROVE  Tree!EmptyDirs = {d \in subdirs : Tree!BuildAndHash[d] = {}}
<1> DEFINE h == Tree!BuildAndHash
<1>0. GoodTree
  BY TreeIsGood
<1>1. /\ pending = {}
      /\ DOMAIN leaves = DOMAIN newPathToFileKey
      /\ \A p \in dirPaths : p \in subdirs /\ Tree!Parents(p) \subseteq subdirs
      /\ \A d \in subdirs : \/ d \in dirPaths
                            \/ \E p \in dirPaths \cup DOMAIN leaves : d \in Tree!Parents(p)
  BY DEF NodeInv
<1>2. /\ \A p \in dirPaths : \E e \in entries : e.dir /\ e.path = p
      /\ \A p \in DOMAIN leaves : \E e \in entries : e.path = p
      /\ \A e \in entries : e.dir => e.path \in dirPaths
      /\ \A e \in entries : e.path \in dirPaths \cup DOMAIN leaves
  BY <1>1 DEF GatherInv
<1>3. \A d : d \in Tree!EmptyDirs <=>
                d \in dirPaths /\ \A p \in dirPaths \cup DOMAIN leaves : d \notin Tree!Parents(p)
  <2>1. \A d : d \in Tree!EmptyDirs <=>
           \E e \in entries : e.dir /\ e.path = d /\ \A f \in entries : d \notin Tree!Parents(f.path)
    BY DEF Tree!EmptyDirs
  <2>2. \A d : (\A f \in entries : d \notin Tree!Parents(f.path)) <=>
               (\A p \in dirPaths \cup DOMAIN leaves : d \notin Tree!Parents(p))
    BY <1>2
  <2>3. QED
    BY <1>2, <2>1, <2>2
<1>4. \A d \in Tree!Dirs : h[d] = {} <=> \A p \in subdirs \cup DOMAIN leaves : ~ Tree!In(p, d)
  BY <1>0, NodeHas
<1>5. ASSUME NEW d \in Tree!EmptyDirs PROVE d \in subdirs /\ h[d] = {}
  <2>1. d \in subdirs /\ d \in Tree!Dirs
    BY <1>1, <1>3 DEF Tree!Dirs
  <2>2. ASSUME NEW p \in subdirs \cup DOMAIN leaves, Tree!In(p, d) PROVE FALSE
    <3>1. p \in Seq(PathNames) /\ Len(p) >= 1 /\ d \in Seq(PathNames) /\ Len(d) \in 1..MaxDepth
      BY <1>0, <2>1, ParentIs
    <3>2. d = SubSeq(p, 1, Len(p) - 1) /\ Len(p) = Len(d) + 1
      BY <2>2, <3>1, InIs
    <3>3. Len(p) - 1 \in 1..(Len(p) - 1)
      <4>1. Len(d) \in Nat /\ Len(d) >= 1
        BY <3>1, StepsAssumption
      <4>2. QED
        BY <3>2, <4>1
    <3>4. d \in Tree!Parents(p)
      BY <3>2, <3>3 DEF Tree!Parents
    <3>5. CASE p \in dirPaths \cup DOMAIN leaves
      BY <1>3, <3>4, <3>5
    <3>6. CASE \E q \in dirPaths \cup DOMAIN leaves : p \in Tree!Parents(q)
      <4>1. PICK q \in dirPaths \cup DOMAIN leaves : p \in Tree!Parents(q)
        BY <3>6
      <4>2. q \in TreePaths
        BY <1>0, <1>1 DEF GoodTree
      <4>3. d \in Tree!Parents(q)
        BY <3>4, <4>1, <4>2, ParentsAre
      <4>4. QED
        BY <1>3, <4>3
    <3>7. QED
      BY <1>1, <3>5, <3>6
  <2>3. QED
    BY <1>4, <2>1, <2>2
<1>6. ASSUME NEW d \in subdirs, h[d] = {} PROVE d \in Tree!EmptyDirs
  <2>1. d \in Tree!Dirs
    BY DEF Tree!Dirs
  <2>2. ASSUME NEW p \in dirPaths \cup DOMAIN leaves, d \in Tree!Parents(p) PROVE FALSE
    <3>1. p \in TreePaths /\ p \in subdirs \cup DOMAIN leaves
      BY <1>0, <1>1 DEF GoodTree
    <3>2. p \in Seq(PathNames) /\ Len(p) \in Nat
      BY <3>1 DEF TreePaths
    <3>3. PICK n \in 1..(Len(p) - 1) : d = SubSeq(p, 1, n)
      BY <2>2 DEF Tree!Parents
    <3> DEFINE c == SubSeq(p, 1, n + 1)
    <3>4. n \in 0..(n + 1) /\ n \in 0..Len(p) /\ n + 1 \in 0..Len(p) /\ n + 1 - 1 = n /\ n + 1 >= 1
      BY <3>2
    <3>5. c \in Seq(PathNames) /\ Len(c) = n + 1 /\ d \in Seq(PathNames)
      BY <3>2, <3>3, <3>4, Prefix
    <3>6. SubSeq(c, 1, n) = d
      BY <3>2, <3>3, <3>4, PrefixTwice
    <3>7. c \in subdirs \cup DOMAIN leaves
      <4>1. CASE n + 1 = Len(p)
        <5>1. c = p
          BY <3>2, <4>1
        <5>2. QED
          BY <3>1, <5>1
      <4>2. CASE n + 1 # Len(p)
        <5>1. n + 1 \in 1..(Len(p) - 1)
          BY <3>2, <4>2
        <5>2. c \in Tree!Parents(p)
          BY <5>1 DEF Tree!Parents
        <5>3. QED
          BY <1>0, <3>1, <5>2 DEF GoodTree
      <4>3. QED
        BY <4>1, <4>2
    <3> HIDE DEF c
    <3>8. d = SubSeq(c, 1, Len(c) - 1) /\ Len(c) >= 1
      BY <3>4, <3>5, <3>6
    <3>9. Tree!In(c, d)
      BY <3>5, <3>8, InIs
    <3>10. QED
      BY <1>4, <1>6, <2>1, <3>7, <3>9
  <2>3. QED
    BY <1>1, <1>3, <2>2
<1>7. QED
  BY <1>5, <1>6

\* A result is gathered.
LEMMA GatherStep ==
    ASSUME TreeInv, NEW g \in entries, Tree!Gather(g)
    PROVE  TreeInv'
<1>1. /\ stage = "gather" /\ g \in pending
      /\ pending' = pending \ {g}
      /\ UNCHANGED <<entries, subdirs, leaves, todo, trees, lost, stage, walk>>
  BY DEF Tree!Gather, Tree!node
<1>2. TreeTypes /\ GatherInv /\ NodeInv
  BY DEF TreeInv
<1>3. TreeTypes'
  BY <1>1, <1>2 DEF TreeTypes
<1>4. entries' \ pending' = (entries \ pending) \cup {g}
  BY <1>1, <1>2 DEF TreeTypes
<1>5. GatherInv'
  <2>1. CASE g.dir
    <3>1. dirPaths' = dirPaths \cup {g.path} /\ newPathToFileKey' = newPathToFileKey
      BY <2>1 DEF Tree!Gather
    <3>2. QED
      BY <1>2, <1>4, <2>1, <3>1 DEF GatherInv
  <2>2. CASE ~ g.dir
    <3>1. /\ dirPaths' = dirPaths
          /\ newPathToFileKey' = Tree!With(newPathToFileKey, g.path, g.key)
      BY <2>2 DEF Tree!Gather
    <3>2. /\ DOMAIN newPathToFileKey' = DOMAIN newPathToFileKey \cup {g.path}
          /\ newPathToFileKey'[g.path] = g.key
          /\ \A p \in DOMAIN newPathToFileKey :
                p # g.path => newPathToFileKey'[p] = newPathToFileKey[p]
      BY <3>1 DEF Tree!With
    <3>3. QED
      BY <1>2, <1>4, <2>2, <3>1, <3>2 DEF GatherInv
  <2>3. QED
    BY <2>1, <2>2
<1>6. NodeInv' /\ StoredInv' /\ Tree!TreeExact'
  BY <1>1, <1>2 DEF NodeInv, StoredInv, Tree!TreeExact
<1>7. QED
  BY <1>3, <1>5, <1>6 DEF TreeInv

\* The directories are added to the tree.
LEMMA StartTreeStep ==
    ASSUME TreeInv, Tree!StartTree
    PROVE  TreeInv'
<1>1. /\ stage = "gather" /\ pending = {} /\ stage' = "tree"
      /\ subdirs' = dirPaths \cup UNION {Tree!Parents(d) : d \in dirPaths}
      /\ todo' = DOMAIN newPathToFileKey
      /\ UNCHANGED <<entries, pending, newPathToFileKey, dirPaths, leaves, trees, lost, walk>>
  BY DEF Tree!StartTree, Tree!gathered
<1>2. TreeTypes /\ GatherInv /\ NodeInv
  BY DEF TreeInv
<1>3. TreeTypes' /\ GatherInv'
  BY <1>1, <1>2 DEF TreeTypes, GatherInv
<1>4. leaves = <<>> /\ lost = {} /\ DOMAIN leaves = {}
  BY <1>1, <1>2 DEF NodeInv, Tree!Empty
<1>5. NodeInv'
  BY <1>1, <1>4 DEF NodeInv
<1>6. StoredInv' /\ Tree!TreeExact'
  BY <1>1 DEF StoredInv, Tree!TreeExact
<1>7. QED
  BY <1>3, <1>5, <1>6 DEF TreeInv

\* A file is added to the tree, with the directories it is in.
LEMMA AddFileStep ==
    ASSUME TreeInv, NEW q \in Paths, Tree!AddFile(q)
    PROVE  TreeInv'
<1>1. /\ stage = "tree" /\ q \in todo /\ ~ Tree!Collision(q)
      /\ subdirs' = subdirs \cup Tree!Parents(q)
      /\ leaves' = Tree!With(leaves, q, newPathToFileKey[q])
      /\ todo' = todo \ {q}
      /\ UNCHANGED <<entries, pending, newPathToFileKey, dirPaths, trees, lost, stage, walk>>
  BY DEF Tree!AddFile, Tree!gathered
<1>2. TreeTypes /\ GatherInv /\ NodeInv
  BY DEF TreeInv
<1>3. TreeTypes' /\ GatherInv'
  BY <1>1, <1>2 DEF TreeTypes, GatherInv
<1>4. /\ DOMAIN leaves' = DOMAIN leaves \cup {q}
      /\ leaves'[q] = newPathToFileKey[q]
      /\ \A p \in DOMAIN leaves : p # q => leaves'[p] = leaves[p]
  BY <1>1 DEF Tree!With
<1>5. q \notin subdirs /\ Tree!Parents(q) \cap DOMAIN leaves = {} /\ q \notin Tree!Parents(q)
  <2>1. q \in TreePaths
    BY PathsAre
  <2>2. QED
    BY <1>1, <2>1, ParentsAre DEF Tree!Collision
<1>6. NodeInv'
  <2>1. /\ stage' # "gather" /\ stage # "gather" /\ lost = {} /\ lost' = {}
    BY <1>1, <1>2 DEF NodeInv
  <2>2. /\ pending = {}
        /\ DOMAIN leaves \subseteq DOMAIN newPathToFileKey
        /\ todo = DOMAIN newPathToFileKey \ DOMAIN leaves
        /\ \A p \in DOMAIN leaves : leaves[p] = newPathToFileKey[p]
        /\ \A p \in dirPaths : p \in subdirs /\ Tree!Parents(p) \subseteq subdirs
        /\ \A p \in DOMAIN leaves : Tree!Parents(p) \subseteq subdirs
        /\ \A d \in subdirs : \/ d \in dirPaths
                              \/ \E p \in dirPaths \cup DOMAIN leaves : d \in Tree!Parents(p)
        /\ DOMAIN leaves \cap subdirs = {}
    BY <1>2, <2>1 DEF NodeInv
  <2>3. /\ DOMAIN leaves' \subseteq DOMAIN newPathToFileKey
        /\ todo' = DOMAIN newPathToFileKey \ DOMAIN leaves'
        /\ \A p \in DOMAIN leaves' : leaves'[p] = newPathToFileKey[p]
    BY <1>1, <1>4, <2>2
  <2>4. /\ \A p \in dirPaths : p \in subdirs' /\ Tree!Parents(p) \subseteq subdirs'
        /\ \A p \in DOMAIN leaves' : Tree!Parents(p) \subseteq subdirs'
        /\ DOMAIN leaves' \cap subdirs' = {}
    BY <1>1, <1>4, <1>5, <2>2
  <2>5. ASSUME NEW d \in subdirs'
        PROVE  d \in dirPaths \/ \E p \in dirPaths \cup DOMAIN leaves' : d \in Tree!Parents(p)
    BY <1>1, <1>4, <2>2
  <2>6. QED
    BY <1>1, <2>1, <2>2, <2>3, <2>4, <2>5 DEF NodeInv
<1>7. StoredInv' /\ Tree!TreeExact'
  BY <1>1 DEF StoredInv, Tree!TreeExact
<1>8. QED
  BY <1>3, <1>6, <1>7 DEF TreeInv

\* A file that cannot be added ends the backup.
LEMMA CollideStep ==
    ASSUME TreeInv, NEW q \in Paths, Tree!Collide(q)
    PROVE  TreeInv'
<1>1. /\ stage = "tree" /\ q \in todo /\ Tree!Collision(q) /\ stage' = "collision"
      /\ UNCHANGED <<entries, pending, newPathToFileKey, dirPaths, subdirs, leaves, todo, trees,
                     lost, walk>>
  BY DEF Tree!Collide, Tree!gathered, Tree!node
<1>2. TreeTypes /\ GatherInv /\ NodeInv
  BY DEF TreeInv
<1>3. TreeTypes' /\ GatherInv' /\ NodeInv'
  BY <1>1, <1>2 DEF TreeTypes, GatherInv, NodeInv
<1>4. Tree!Collides
  BY <1>1, <1>2, CollisionIs
<1>5. Tree!Collides'
  BY <1>1, <1>4 DEF Tree!Collides, Tree!FileEntries, Tree!Parents
<1>6. StoredInv' /\ Tree!TreeExact'
  BY <1>1, <1>5 DEF StoredInv, Tree!TreeExact
<1>7. QED
  BY <1>3, <1>6 DEF TreeInv

\* The tree is hashed and stored; or a node is lost.
LEMMA StoreTreeStep ==
    ASSUME TreeInv, Tree!HashTree \/ \E n \in trees : Tree!Lose(n)
    PROVE  TreeInv'
<1>1. /\ UNCHANGED <<entries, pending, newPathToFileKey, dirPaths, subdirs, leaves, todo, walk>>
      /\ stage \in {"tree", "stored"} /\ stage' = "stored"
  BY DEF Tree!HashTree, Tree!Lose, Tree!gathered, Tree!node
<1>2. TreeTypes /\ GatherInv /\ NodeInv /\ StoredInv
  BY DEF TreeInv
<1>3. TreeTypes' /\ GatherInv'
  BY <1>1, <1>2 DEF TreeTypes, GatherInv
<1>4. NodeInv'
  BY <1>1, <1>2 DEF NodeInv
<1> DEFINE h == Tree!BuildAndHash
           all == {h[d] : d \in Tree!Dirs}
<1>5. h' = h /\ Tree!Dirs' = Tree!Dirs
  BY <1>1, SameTree
<1>6. todo' = {} /\ trees' = all \ lost' /\ lost' \subseteq all
  <2>1. CASE Tree!HashTree
    <3>1. stage = "tree" /\ todo = {} /\ trees' = all /\ lost' = lost
      BY <2>1 DEF Tree!HashTree
    <3>2. QED
      BY <1>1, <1>2, <3>1 DEF NodeInv
  <2>2. CASE \E n \in trees : Tree!Lose(n)
    <3>1. PICK n \in trees : Tree!Lose(n)
      BY <2>2
    <3>2. stage = "stored" /\ lost = {} /\ lost' = {n} /\ trees' = trees \ {n}
      BY <3>1 DEF Tree!Lose
    <3>3. todo = {} /\ trees = all \ lost
      BY <1>2, <3>2 DEF StoredInv, TreeStored
    <3> HIDE DEF all
    <3>4. QED
      BY <1>1, <3>2, <3>3
  <2>3. QED
    BY <2>1, <2>2
<1>7. StoredInv'
  <2>1. all' = all
    BY <1>5
  <2> HIDE DEF all
  <2>2. trees' = all' \ lost' /\ lost' \subseteq all'
    BY <1>6, <2>1
  <2>3. TreeStored' <=> trees' = all' \ lost'
    BY Zenon DEF TreeStored, all
  <2>4. StoredInv' <=> (stage' \in {"stored", "resolved", "skimmed"} =>
                           todo' = {} /\ TreeStored' /\ lost' \subseteq all')
    BY Zenon DEF StoredInv, all
  <2>5. QED
    BY <1>6, <2>2, <2>3, <2>4
<1>8. Tree!TreeExact'
  BY <1>1 DEF Tree!TreeExact
<1>9. QED
  BY <1>3, <1>4, <1>7, <1>8 DEF TreeInv

\* The tree does not change once it is stored.
LEMMA TreeKept ==
    ASSUME UNCHANGED <<entries, pending, newPathToFileKey, dirPaths, subdirs, leaves, todo, trees, lost>>
    PROVE  /\ TreeTypes => TreeTypes'
           /\ GatherInv => GatherInv'
           /\ TreeStored => TreeStored'
           /\ \A p : Tree!Reached(p)' <=> Tree!Reached(p)
           /\ Tree!Collides' <=> Tree!Collides
           /\ Tree!EmptyDirs' = Tree!EmptyDirs
           /\ Tree!FileEntries' = Tree!FileEntries
<1>1. (TreeTypes => TreeTypes') /\ (GatherInv => GatherInv')
  BY DEF TreeTypes, GatherInv
<1>2. /\ Tree!BuildAndHash' = Tree!BuildAndHash
      /\ Tree!Dirs' = Tree!Dirs
  BY SameTree
<1>3. TreeStored => TreeStored'
  BY <1>2 DEF TreeStored
<1>4. \A p : Tree!Reached(p)' <=> Tree!Reached(p)
  BY SameReached
<1>5. /\ Tree!Collides' <=> Tree!Collides
      /\ Tree!EmptyDirs' = Tree!EmptyDirs
      /\ Tree!FileEntries' = Tree!FileEntries
  BY DEF Tree!Collides, Tree!EmptyDirs, Tree!FileEntries, Tree!Parents
<1>6. QED
  BY <1>1, <1>3, <1>4, <1>5

\* What the walk finds, in terms of the source.
LEMMA WalkExact ==
    ASSUME TreeTypes, GatherInv, NodeInv, StoredInv, stage = "stored", NEW skip \in BOOLEAN
    PROVE  /\ ~ Tree!Collides
           /\ Tree!WalkTree(skip).err <=> lost # {} /\ ~ skip
           /\ DOMAIN Tree!WalkTree(skip).files =
                 {p \in {e.path : e \in Tree!FileEntries} : Tree!Reached(p)}
           /\ \A p \in DOMAIN Tree!WalkTree(skip).files :
                 \E e \in Tree!FileEntries : e.path = p /\ e.key = Tree!WalkTree(skip).files[p]
           /\ Tree!WalkTree(skip).dirs =
                 {d \in Tree!EmptyDirs : Tree!Reached(d) /\ {} \notin lost}
<1> DEFINE h == Tree!BuildAndHash
           w == Tree!WalkTree(skip)
<1>1. todo = {} /\ TreeStored /\ lost \subseteq {h[d] : d \in Tree!Dirs}
  BY DEF StoredInv
<1>2. GoodTree /\ ~ Tree!Collides /\ Tree!EmptyDirs = {d \in subdirs : h[d] = {}}
  BY <1>1, TreeIsGood, CollisionIs, EmptyIs
<1>3. /\ pending = {}
      /\ DOMAIN leaves = DOMAIN newPathToFileKey
      /\ \A p \in DOMAIN leaves : leaves[p] = newPathToFileKey[p]
  BY <1>1 DEF NodeInv
<1>4. /\ DOMAIN leaves = {e.path : e \in Tree!FileEntries}
      /\ \A p \in DOMAIN leaves : \E e \in Tree!FileEntries : e.path = p /\ e.key = leaves[p]
  BY <1>3 DEF GatherInv, Tree!FileEntries
<1>5. /\ w.err <=> (\E d \in Tree!Dirs : Tree!Reached(d) /\ h[d] \in lost) /\ ~ skip
      /\ DOMAIN w.files = {p \in DOMAIN leaves : Tree!Reached(p)}
      /\ \A p \in DOMAIN leaves : Tree!Reached(p) => w.files[p] = leaves[p]
      /\ w.dirs = {d \in subdirs : Tree!Reached(d) /\ h[d] \notin lost /\ h[d] = {}}
  BY <1>1, <1>2, WalkIs
<1>6. (\E d \in Tree!Dirs : Tree!Reached(d) /\ h[d] \in lost) <=> lost # {}
  <2>1. ASSUME lost # {} PROVE \E d \in Tree!Dirs : Tree!Reached(d) /\ h[d] \in lost
    <3>1. PICK d \in Tree!Dirs : h[d] \in lost
      BY <1>1, <2>1
    <3>2. QED
      BY <1>2, <3>1, LostIsMet
  <2>2. QED
    BY <2>1
<1> HIDE DEF h, w
<1>7. w.dirs = {d \in Tree!EmptyDirs : Tree!Reached(d) /\ {} \notin lost}
  BY <1>2, <1>5
<1>8. w.err <=> lost # {} /\ ~ skip
  BY <1>5, <1>6
<1>9. /\ DOMAIN w.files = {p \in {e.path : e \in Tree!FileEntries} : Tree!Reached(p)}
      /\ \A p \in DOMAIN w.files : \E e \in Tree!FileEntries : e.path = p /\ e.key = w.files[p]
  <2>1. DOMAIN w.files = {p \in {e.path : e \in Tree!FileEntries} : Tree!Reached(p)}
    BY <1>4, <1>5
  <2>2. ASSUME NEW p \in DOMAIN w.files
        PROVE  \E e \in Tree!FileEntries : e.path = p /\ e.key = w.files[p]
    BY <1>4, <1>5
  <2>3. QED
    BY <2>1, <2>2
<1>10. QED
  BY <1>2, <1>7, <1>8, <1>9 DEF w

\* The tree is resolved.
LEMMA ResolveStep ==
    ASSUME TreeInv, NEW skip \in BOOLEAN, Tree!ResolveVersionTree(skip)
    PROVE  TreeInv'
<1>1. /\ stage = "stored" /\ walk' = Tree!WalkTree(skip)
      /\ skip => stage' = "skimmed"
      /\ ~ skip => stage' = "resolved"
      /\ UNCHANGED <<entries, pending, newPathToFileKey, dirPaths, subdirs, leaves, todo, trees, lost>>
  BY DEF Tree!ResolveVersionTree, Tree!gathered, Tree!node
<1>2. TreeTypes /\ GatherInv /\ NodeInv /\ StoredInv
  BY DEF TreeInv
<1>3. TreeTypes' /\ GatherInv'
  BY <1>1, <1>2, TreeKept
<1>4. NodeInv'
  BY <1>1, <1>2 DEF NodeInv
<1>5. StoredInv'
  <2>1. todo = {} /\ TreeStored /\ lost \subseteq {Tree!BuildAndHash[d] : d \in Tree!Dirs}
    BY <1>1, <1>2 DEF StoredInv
  <2>2. /\ Tree!BuildAndHash' = Tree!BuildAndHash
        /\ Tree!Dirs' = Tree!Dirs
    BY <1>1, SameTree
  <2>3. TreeStored'
    BY <1>1, <2>1, TreeKept
  <2>4. QED
    BY <1>1, <2>1, <2>2, <2>3 DEF StoredInv
<1> DEFINE w == Tree!WalkTree(skip)
<1>6. /\ ~ Tree!Collides
      /\ w.err <=> lost # {} /\ ~ skip
      /\ DOMAIN w.files = {p \in {e.path : e \in Tree!FileEntries} : Tree!Reached(p)}
      /\ \A p \in DOMAIN w.files : \E e \in Tree!FileEntries : e.path = p /\ e.key = w.files[p]
      /\ w.dirs = {d \in Tree!EmptyDirs : Tree!Reached(d) /\ {} \notin lost}
  BY <1>1, <1>2, WalkExact
<1>7. /\ \A p : Tree!Reached(p)' <=> Tree!Reached(p)
      /\ Tree!Collides' <=> Tree!Collides
      /\ Tree!EmptyDirs' = Tree!EmptyDirs
      /\ Tree!FileEntries' = Tree!FileEntries
      /\ lost' = lost /\ walk' = w
  BY <1>1, TreeKept
<1> HIDE DEF w
<1>8. /\ ~ Tree!Collides'
      /\ walk'.err <=> lost' # {} /\ ~ skip
      /\ DOMAIN walk'.files = {p \in {e.path : e \in Tree!FileEntries'} : Tree!Reached(p)'}
      /\ \A p \in DOMAIN walk'.files : \E e \in Tree!FileEntries' : e.path = p /\ e.key = walk'.files[p]
      /\ walk'.dirs = {d \in Tree!EmptyDirs' : Tree!Reached(d)' /\ {} \notin lost'}
  BY <1>6, <1>7
<1>9. stage' \notin {"collision"} /\ stage' \in {"resolved", "skimmed"} /\ (stage' = "resolved" <=> ~ skip)
  BY <1>1
<1>10. Tree!TreeExact'
  BY <1>8, <1>9 DEF Tree!TreeExact
<1>11. QED
  BY <1>3, <1>4, <1>5, <1>10 DEF TreeInv

\* The invariant of a tree.
LEMMA TreeTask == StepSpec => [](task = "tree" => TreeInv)
<1>1. StepInit => (task = "tree" => TreeInv)
  <2>1. SUFFICES ASSUME Tree!Init PROVE TreeInv
    BY DEF StepInit
  <2>2. /\ entries \subseteq Tree!Entry /\ pending = entries
        /\ newPathToFileKey = <<>> /\ dirPaths = {}
        /\ leaves = Tree!Empty /\ lost = {} /\ stage = "gather"
    BY <2>1 DEF Tree!Init, Tree!Empty
  <2>3. entries \ pending = {} /\ DOMAIN newPathToFileKey = {}
    BY <2>2
  <2>4. TreeTypes /\ GatherInv
    BY <2>2, <2>3 DEF TreeTypes, GatherInv
  <2>5. NodeInv /\ StoredInv /\ Tree!TreeExact
    BY <2>2 DEF NodeInv, StoredInv, Tree!TreeExact
  <2>6. QED
    BY <2>4, <2>5 DEF TreeInv
<1>2. (task = "tree" => TreeInv) /\ [StepNext]_stepVars => (task = "tree" => TreeInv)'
  <2>1. SUFFICES ASSUME task = "tree" => TreeInv, [StepNext]_stepVars, task' = "tree"
                 PROVE  TreeInv'
    OBVIOUS
  <2>2. task' = task /\ (Tree!Next \/ UNCHANGED treeVars)
    BY <2>1 DEF StepNext, stepVars
  <2>3. TreeInv
    BY <2>1, <2>2
  <2>4. CASE UNCHANGED treeVars
    <3>1. UNCHANGED <<entries, pending, newPathToFileKey, dirPaths, subdirs, leaves, todo, trees,
                      lost, stage, walk>>
      BY <2>4 DEF treeVars
    <3>2. TreeTypes' /\ GatherInv' /\ NodeInv'
      BY <2>3, <3>1 DEF TreeInv, TreeTypes, GatherInv, NodeInv
    <3>3. /\ Tree!BuildAndHash' = Tree!BuildAndHash
          /\ Tree!Dirs' = Tree!Dirs
      BY <3>1, SameTree
    <3>4. TreeStored => TreeStored'
      BY <3>1, TreeKept
    <3>5. StoredInv'
      BY <2>3, <3>1, <3>3, <3>4 DEF TreeInv, StoredInv
    <3>6. /\ \A p : Tree!Reached(p)' <=> Tree!Reached(p)
          /\ Tree!Collides' <=> Tree!Collides
          /\ Tree!EmptyDirs' = Tree!EmptyDirs
          /\ Tree!FileEntries' = Tree!FileEntries
      BY <3>1, TreeKept
    <3>7. Tree!TreeExact'
      BY <2>3, <3>1, <3>6 DEF TreeInv, Tree!TreeExact
    <3>8. QED
      BY <3>2, <3>5, <3>7 DEF TreeInv
  <2>5. CASE Tree!Ended
    BY <2>4, <2>5 DEF Tree!Ended, Tree!vars, Tree!gathered, Tree!node, treeVars
  <2>6. QED
    BY <2>2, <2>3, <2>4, <2>5, GatherStep, StartTreeStep, AddFileStep, CollideStep, StoreTreeStep,
       ResolveStep DEF Tree!Next
<1>3. QED
  BY <1>1, <1>2, PTL DEF StepSpec

\* A source in which a file has the name of a directory is refused, any other is stored so that
\* restoring finds exactly its files and empty directories, or what is not below a node that
\* was lost, in whatever order results and map entries come (RunBackup, buildAndHash, walkTree).
THEOREM TreesExact == StepSpec => []TreeExact
<1>1. (task = "tree" => TreeInv) => TreeExact
  BY DEF TreeInv, TreeExact
<1>2. QED
  BY <1>1, TreeTask, PTL

-----------------------------------------------------------------------------
(* ZipListing: an archive's entries are found where they are. *)

\* Reads do not depend on what is read.
LEMMA SameReads ==
    ASSUME NEW st \in Zip!Storages, NEW a, NEW n, NEW obj
    PROVE  Zip!ReadRange(st, a, n, obj) = Part!ReadRange(st, a, n, obj)
<1>1. \A h : Zip!Serve(st, h, obj) = Part!Serve(st, h, obj)
  BY DEF Zip!Serve, Part!Serve, Zip!Least, Part!Least
<1>2. \A x, y : /\ Zip!S3!ValidRange(x, y) <=> Part!S3!ValidRange(x, y)
                /\ Zip!OCI!ValidRange(x, y) <=> Part!OCI!ValidRange(x, y)
                /\ Zip!HTTP!ValidRange(x, y) <=> Part!HTTP!ValidRange(x, y)
  BY DEF Zip!S3!ValidRange, Part!S3!ValidRange, Zip!OCI!ValidRange, Part!OCI!ValidRange,
         Zip!HTTP!ValidRange, Part!HTTP!ValidRange
<1>3. \A x, y : /\ Zip!S3!RangeHeader(x, y) = Part!S3!RangeHeader(x, y)
                /\ Zip!OCI!RangeHeader(x, y) = Part!OCI!RangeHeader(x, y)
                /\ Zip!HTTP!RangeHeader(x, y) = Part!HTTP!RangeHeader(x, y)
  BY DEF Zip!S3!RangeHeader, Part!S3!RangeHeader, Zip!OCI!RangeHeader, Part!OCI!RangeHeader,
         Zip!HTTP!RangeHeader, Part!HTTP!RangeHeader
<1>4. \A r, x, y : /\ Zip!S3!GetObjectRange(r, x, y) = Part!S3!GetObjectRange(r, x, y)
                   /\ Zip!OCI!GetObjectRange(r, x, y) = Part!OCI!GetObjectRange(r, x, y)
  BY DEF Zip!S3!GetObjectRange, Part!S3!GetObjectRange, Zip!OCI!GetObjectRange,
         Part!OCI!GetObjectRange
<1>5. \A r, x, y : Zip!HTTP!GetObjectRange(r, x, y) = Part!HTTP!GetObjectRange(r, x, y)
  BY <1>3 DEF Zip!HTTP!GetObjectRange, Part!HTTP!GetObjectRange, Zip!HTTP!Cut, Part!HTTP!Cut
<1>6. st # "local" =>
         \A x, y : Zip!GetObjectRange(st, x, y, obj) = Part!GetObjectRange(st, x, y, obj)
  <2>1. SUFFICES ASSUME st # "local", NEW x, NEW y
                 PROVE  Zip!GetObjectRange(st, x, y, obj) = Part!GetObjectRange(st, x, y, obj)
    OBVIOUS
  <2>2. CASE st = "s3"
    BY <1>1, <1>2, <1>3, <1>4, <2>2
    DEF Zip!GetObjectRange, Part!GetObjectRange, Zip!Refused, Part!Refused
  <2>3. CASE st = "oci"
    BY <1>1, <1>2, <1>3, <1>4, <2>3
    DEF Zip!GetObjectRange, Part!GetObjectRange, Zip!Refused, Part!Refused
  <2>4. CASE st \in {"http", "plain"}
    BY <1>1, <1>2, <1>3, <1>5, <2>4
    DEF Zip!GetObjectRange, Part!GetObjectRange, Zip!Refused, Part!Refused
  <2>5. QED
    BY <2>1, <2>2, <2>3, <2>4 DEF Zip!Storages
<1>7. Zip!EndByte(a, n) = Part!EndByte(a, n)
  BY DEF Zip!EndByte, Part!EndByte
<1>8. QED
  BY <1>6, <1>7 DEF Zip!ReadRange, Part!ReadRange, Zip!Least, Part!Least

\* The cells of archives.
ZipCell == [t : {"zero", "lfh", "data", "cd", "sig64", "num", "loc", "eocd"}, x : Seq(Nat)]

\* The cells of a range.
LEMMA RangeCells ==
    ASSUME NEW s, NEW a \in Nat, NEW n \in Nat
    PROVE  /\ Len(SubSeq(s, a + 1, a + n)) = n
           /\ \A i \in 1..n : SubSeq(s, a + 1, a + n)[i] = s[a + i]
<1> DEFINE S == {s[i] : i \in (a + 1)..(a + n)}
           r == SubSeq(s, a + 1, a + n)
           m == a + 1
           k == a + n
<1>1. m \in Int /\ k \in Int /\ \A i \in m..k : s[i] \in S
  OBVIOUS
<1> HIDE DEF S, m, k
<1>2. /\ Len(SubSeq(s, m, k)) = IF m <= k THEN k - m + 1 ELSE 0
      /\ \A i \in 1..(k - m + 1) : SubSeq(s, m, k)[i] = s[m + i - 1]
  BY <1>1, SubSeqProperties
<1>3. k - m + 1 = n /\ (m <= k <=> n > 0) /\ \A i \in 1..n : m + i - 1 = a + i
  BY DEF m, k
<1>4. SubSeq(s, m, k) = r
  BY Zenon DEF m, k
<1> HIDE DEF r
<1>5. Len(r) = n
  BY <1>2, <1>3, <1>4
<1>6. ASSUME NEW i \in 1..n
      PROVE  r[i] = s[a + i]
  BY <1>2, <1>3, <1>4
<1>7. QED
  BY <1>5, <1>6, Zenon DEF r

\* What is read of a range is its beginning, and all of it if no error is reported.
BeginningOf(a, n, obj, out) ==
    /\ Len(out.data) \in 0..n
    /\ \A i \in 1..Len(out.data) : out.data[i] = obj[a + i]
    /\ out.err = "none" => Len(out.data) = n

\* A read of a range within an archive returns its beginning.
LEMMA ReadsArePrefixes ==
    ASSUME NEW st \in Zip!Storages, NEW obj \in Seq(ZipCell), NEW a \in Nat, NEW n \in Nat, n > 0,
           a + n <= Len(obj), NEW out \in Zip!ReadAt(st, a, n, obj)
    PROVE  BeginningOf(a, n, obj, out)
<1>1. CASE ~ Zip!ReadRange(st, a, n, obj).ok
  BY <1>1 DEF Zip!ReadAt, Zip!ReadFailed, BeginningOf
<1>2. CASE Zip!ReadRange(st, a, n, obj).ok
  <2> DEFINE body == Zip!ReadRange(st, a, n, obj).body
  <2>1. body = SubSeq(obj, a + 1, Part!Least(a + n, Len(obj)))
    BY <1>2, SameReads, RangeRead DEF Zip!Storages, Part!Storages
  <2>2. Part!Least(a + n, Len(obj)) = a + n
    BY DEF Part!Least
  <2>3. Len(body) = n /\ \A i \in 1..n : body[i] = obj[a + i]
    <3> DEFINE b == SubSeq(obj, a + 1, a + n)
    <3>1. Len(b) = n /\ \A i \in 1..n : b[i] = obj[a + i]
      BY RangeCells, Zenon
    <3>2. body = b
      BY <2>1, <2>2, Zenon
    <3> HIDE DEF b, body
    <3>3. QED
      BY <3>1, <3>2, Zenon
  <2> DEFINE Err(s) == CASE Len(s.data) = n                               -> "none"
                         [] Len(s.data) < n /\ s.end \in {"eof", "short"} -> "eof"
                         [] Len(s.data) < n /\ s.end = "io"               -> "io"
  <2>4. PICK s \in Zip!Streams(body) : out.data = s.data /\ out.err = Err(s)
    <3>1. n # 0
      OBVIOUS
    <3>2. Zip!ReadAt(st, a, n, obj) = {[data |-> s.data, err |-> Err(s)] : s \in Zip!Streams(body)}
      BY <1>2, <3>1, Zenon DEF Zip!ReadAt
    <3> HIDE DEF Err, body
    <3>3. QED
      BY <3>2
  <2> HIDE DEF body
  <2>5. CASE s = [data |-> body, end |-> "eof"]
    BY <2>3, <2>4, <2>5 DEF BeginningOf
  <2>6. CASE \E m \in 0..(Len(body) - 1), e \in {"short", "io"} :
                s = [data |-> SubSeq(body, 1, m), end |-> e]
    <3>1. PICK m \in 0..(Len(body) - 1), e \in {"short", "io"} :
                  s = [data |-> SubSeq(body, 1, m), end |-> e]
      BY <2>6
    <3>2. out.data = SubSeq(body, 1, m) /\ m \in Nat /\ m <= n
      BY <2>3, <2>4, <3>1
    <3>3. Len(out.data) = m /\ \A i \in 1..m : out.data[i] = body[i]
      BY <3>2
    <3>4. m < n /\ out.err # "none"
      <4>1. m < n /\ Len(s.data) = m /\ s.end \in {"short", "io"} /\ m # n
        BY <2>3, <2>4, <3>1, <3>3
      <4>2. Err(s) \in {"eof", "io"}
        BY <4>1
      <4>3. QED
        BY <2>4, <4>1, <4>2
    <3>5. QED
      BY <2>3, <3>2, <3>3, <3>4 DEF BeginningOf
  <2>7. QED
    BY <2>4, <2>5, <2>6 DEF Zip!Streams
<1>3. QED
  BY <1>1, <1>2

\* The length of the data, and the place of the end record.
DataLen(l) == Len(Zip!DataArea(l))
EndAt(l) == DataLen(l) + Len(l.sizes) + (IF l.zip64 THEN 6 ELSE 1)

\* The layouts of archives.
LEMMA LayoutIs ==
    ASSUME NEW l \in Zip!Layouts
    PROVE  /\ \/ l.sizes = <<>> /\ Len(l.sizes) = 0
              \/ l.sizes = <<1>> /\ Len(l.sizes) = 1 /\ l.sizes[1] = 1
              \/ l.sizes = <<0, 1>> /\ Len(l.sizes) = 2 /\ l.sizes[1] = 0 /\ l.sizes[2] = 1
           /\ l.reverse \in BOOLEAN
           /\ l.pad \in 0..1
           /\ l.zip64 \in BOOLEAN
           /\ l.comment \in 0..2
BY DEF Zip!Layouts

\* A cell of a kind.
LEMMA CellIs ==
    ASSUME NEW t, NEW x
    PROVE  Zip!Cell(t, x).t = t /\ Zip!Cell(t, x).x = x
BY DEF Zip!Cell

\* Cells are cells.
LEMMA CellTyped ==
    ASSUME NEW t \in {"zero", "lfh", "data", "cd", "sig64", "num", "loc", "eocd"}
    PROVE  /\ \A a \in Nat : Zip!Cell(t, <<a>>) \in ZipCell
           /\ \A a, b \in Nat : Zip!Cell(t, <<a, b>>) \in ZipCell
           /\ \A a, b, c, d \in Nat : Zip!Cell(t, <<a, b, c, d>>) \in ZipCell
<1>1. \A x \in Seq(Nat) : Zip!Cell(t, x) \in ZipCell
  BY DEF Zip!Cell, ZipCell
<1>2. \A a, b, c, d \in Nat :
         <<a>> \in Seq(Nat) /\ <<a, b>> \in Seq(Nat) /\ <<a, b, c, d>> \in Seq(Nat)
  OBVIOUS
<1>3. 0 \in Nat
  OBVIOUS
<1>4. QED
  BY <1>1, <1>2, <1>3, Zenon

\* r is s followed by t.
Join(S, r, s, t, m, n) ==
    /\ r \in Seq(S)
    /\ Len(r) = m + n
    /\ \A i \in 1..m : r[i] = s[i]
    /\ \A i \in 1..n : r[m + i] = t[i]

\* Two sequences, one after the other.
LEMMA Joined ==
    ASSUME NEW S, NEW s \in Seq(S), NEW t \in Seq(S), NEW m \in Nat, NEW n \in Nat,
           Len(s) = m, Len(t) = n
    PROVE  Join(S, s \o t, s, t, m, n)
BY DEF Join

\* An entry: its header, then its data.
LEMMA ZipEntryIs ==
    ASSUME NEW e \in Nat, NEW n \in 0..1
    PROVE  /\ Zip!Entry(e, n) \in Seq(ZipCell)
           /\ Len(Zip!Entry(e, n)) = 1 + n
           /\ Zip!Entry(e, n)[1] = Zip!Cell("lfh", <<e>>)
           /\ n = 1 => Zip!Entry(e, n)[2].t = "data"
<1> DEFINE head == <<Zip!Cell("lfh", <<e>>)>>
           data == [i \in 1..n |-> Zip!Cell("data", <<e, i>>)]
<1>1. Zip!Cell("lfh", <<e>>) \in ZipCell
  BY CellTyped, Zenon
<1>2. head \in Seq(ZipCell) /\ Len(head) = 1 /\ head[1] = Zip!Cell("lfh", <<e>>)
  BY <1>1
<1>3. \A i \in 1..n : Zip!Cell("data", <<e, i>>) \in ZipCell
  <2>1. \A i \in 1..n : i \in Nat
    OBVIOUS
  <2>2. QED
    BY <2>1, CellTyped, Zenon
<1>4. data \in Seq(ZipCell) /\ Len(data) = n /\ (n = 1 => data[1] = Zip!Cell("data", <<e, 1>>))
  BY <1>3
<1>5. Zip!Entry(e, n) = head \o data
  BY DEF Zip!Entry
<1> HIDE DEF head, data
<1> DEFINE all == head \o data
<1>6. Zip!Entry(e, n) = all
  BY <1>5
<1>7. Join(ZipCell, all, head, data, 1, n)
  <2>1. 1 \in Nat /\ n \in Nat
    OBVIOUS
  <2>2. QED
    BY <1>2, <1>4, <2>1, Joined, Zenon
<1> HIDE DEF all
<1>8. all \in Seq(ZipCell) /\ Len(all) = 1 + n /\ all[1] = head[1] /\ (n = 1 => all[2] = data[1])
  BY <1>7 DEF Join
<1>9. QED
  BY <1>2, <1>4, <1>6, <1>8, CellIs

\* The data of an archive has the headers of its entries at their offsets, and only there.
LEMMA DataIs ==
    ASSUME NEW l \in Zip!Layouts
    PROVE  /\ Zip!DataArea(l) \in Seq(ZipCell)
           /\ DataLen(l) \in Nat
           /\ \A e \in 1..Len(l.sizes) :
                 /\ Zip!Offset(l, e) \in 0..(DataLen(l) - 1)
                 /\ Zip!DataArea(l)[Zip!Offset(l, e) + 1] = Zip!Cell("lfh", <<e>>)
           /\ \A i \in 1..DataLen(l) :
                 /\ Zip!DataArea(l)[i].t \in {"zero", "lfh", "data"}
                 /\ Zip!DataArea(l)[i].t = "lfh" =>
                       \E e \in 1..Len(l.sizes) : i = Zip!Offset(l, e) + 1
           /\ Len(l.sizes) = 2 => Zip!Offset(l, 1) < Zip!Offset(l, 2)
<1> DEFINE pad == [i \in 1..l.pad |-> Zip!Zero]
           one == IF Len(l.sizes) >= 1 THEN Zip!Entry(1, l.sizes[1]) ELSE <<>>
           two == IF Len(l.sizes) = 2 THEN Zip!Entry(2, l.sizes[2]) ELSE <<>>
<1>1. /\ pad \in Seq(ZipCell) /\ Len(pad) = l.pad
      /\ \A i \in 1..l.pad : pad[i].t = "zero"
  <2>1. Zip!Zero \in ZipCell /\ Zip!Zero.t = "zero"
    <3>1. 0 \in Nat
      OBVIOUS
    <3>2. QED
      BY <3>1, CellTyped, CellIs, Zenon DEF Zip!Zero
  <2>2. QED
    BY <2>1, LayoutIs
<1>2. CASE Len(l.sizes) = 0
  <2>1. one = <<>> /\ two = <<>>
    BY <1>2
  <2>2. Zip!DataArea(l) = pad
    <3>1. Zip!DataArea(l) = (pad \o one) \o two
      BY DEF Zip!DataArea
    <3> HIDE DEF pad, one, two
    <3>2. pad \o <<>> = pad
      BY <1>1, ConcatEmptySeq
    <3>3. QED
      BY <2>1, <3>1, <3>2
  <2> HIDE DEF pad, one, two
  <2>3. QED
    BY <1>1, <1>2, <2>2, LayoutIs DEF DataLen
<1>3. CASE Len(l.sizes) = 1
  <2>1. l.sizes[1] = 1
    BY <1>3, LayoutIs
  <2>2. one = Zip!Entry(1, 1) /\ two = <<>>
    BY <1>3, <2>1
  <2>3. Zip!DataArea(l) = (pad \o one) \o two
    BY DEF Zip!DataArea
  <2> HIDE DEF pad, one, two
  <2>4. /\ one \in Seq(ZipCell) /\ Len(one) = 2
        /\ one[1] = Zip!Cell("lfh", <<1>>) /\ one[2].t = "data"
    BY <2>2, ZipEntryIs
  <2> DEFINE all == pad \o one
  <2>5. Join(ZipCell, all, pad, one, l.pad, 2)
    <3>1. l.pad \in Nat /\ 2 \in Nat
      BY LayoutIs
    <3>2. QED
      BY <1>1, <2>4, <3>1, Joined, Zenon
  <2>6. all \o <<>> = all
    BY <2>5, ConcatEmptySeq, Zenon DEF Join
  <2> HIDE DEF all
  <2>7. Zip!DataArea(l) = all
    BY <2>2, <2>3, <2>6 DEF all
  <2>8. /\ all \in Seq(ZipCell) /\ Len(all) = l.pad + 2
        /\ all[l.pad + 1] = one[1] /\ all[l.pad + 2] = one[2]
        /\ \A i \in 1..l.pad : all[i] = pad[i]
    BY <2>5 DEF Join
  <2>9. Zip!Offset(l, 1) = l.pad
    BY LayoutIs DEF Zip!Offset
  <2>10. \A i \in 1..(l.pad + 2) : i \in 1..l.pad \/ i = l.pad + 1 \/ i = l.pad + 2
    BY LayoutIs
  <2>11. \A e \in 1..Len(l.sizes) : e = 1
    BY <1>3
  <2>12. all[l.pad + 1].t = "lfh"
    BY <2>4, <2>8, CellIs
  <2>13. \A i \in 1..(l.pad + 2) :
            /\ all[i].t \in {"zero", "lfh", "data"}
            /\ all[i].t = "lfh" => i = l.pad + 1
    BY <1>1, <2>4, <2>8, <2>10, <2>12
  <2>14. DataLen(l) = l.pad + 2 /\ l.pad \in Nat /\ 1 \in 1..Len(l.sizes)
    BY <1>3, <2>7, <2>8, LayoutIs DEF DataLen
  <2>15. \A e \in 1..Len(l.sizes) :
            Zip!Offset(l, e) \in 0..(l.pad + 1) /\ all[Zip!Offset(l, e) + 1] = Zip!Cell("lfh", <<e>>)
    <3>1. l.pad \in 0..(l.pad + 1)
      BY <2>14
    <3>2. QED
      BY <2>4, <2>8, <2>9, <2>11, <3>1, Zenon
  <2>16. QED
    BY <1>3, <2>7, <2>8, <2>9, <2>13, <2>14, <2>15
<1>4. CASE Len(l.sizes) = 2
  <2>1. l.sizes[1] = 0 /\ l.sizes[2] = 1
    BY <1>4, LayoutIs
  <2>2. one = Zip!Entry(1, 0) /\ two = Zip!Entry(2, 1)
    BY <1>4, <2>1
  <2>3. Zip!DataArea(l) = (pad \o one) \o two
    BY DEF Zip!DataArea
  <2> HIDE DEF pad, one, two
  <2>4. /\ one \in Seq(ZipCell) /\ Len(one) = 1
        /\ one[1] = Zip!Cell("lfh", <<1>>)
        /\ two \in Seq(ZipCell) /\ Len(two) = 2
        /\ two[1] = Zip!Cell("lfh", <<2>>) /\ two[2].t = "data"
    BY <2>2, ZipEntryIs
  <2> DEFINE some == pad \o one
             all == some \o two
  <2>5. l.pad \in Nat /\ l.pad + 1 \in Nat /\ 1 \in Nat /\ 2 \in Nat
    BY LayoutIs
  <2>6. Join(ZipCell, some, pad, one, l.pad, 1)
    BY <1>1, <2>4, <2>5, Joined
  <2>7. Zip!DataArea(l) = all
    BY <2>3
  <2> HIDE DEF some
  <2>8. Join(ZipCell, all, some, two, l.pad + 1, 2)
    <3>1. some \in Seq(ZipCell) /\ Len(some) = l.pad + 1
      BY <2>6 DEF Join
    <3>2. QED
      BY <2>4, <2>5, <3>1, Joined
  <2> HIDE DEF all
  <2>9. /\ all \in Seq(ZipCell) /\ Len(all) = l.pad + 3
        /\ all[l.pad + 1] = one[1] /\ all[l.pad + 2] = two[1] /\ all[l.pad + 3] = two[2]
        /\ \A i \in 1..l.pad : all[i] = pad[i]
    <3>1. /\ some[l.pad + 1] = one[1]
          /\ \A i \in 1..l.pad : some[i] = pad[i]
      BY <2>5, <2>6 DEF Join
    <3>2. /\ all \in Seq(ZipCell) /\ Len(all) = l.pad + 3
          /\ all[l.pad + 2] = two[1] /\ all[l.pad + 3] = two[2]
          /\ \A i \in 1..(l.pad + 1) : all[i] = some[i]
      BY <2>5, <2>8 DEF Join
    <3>3. QED
      BY <2>5, <3>1, <3>2
  <2>10. Zip!Offset(l, 1) = l.pad /\ Zip!Offset(l, 2) = l.pad + 1
    BY <2>1, LayoutIs DEF Zip!Offset
  <2>11. \A i \in 1..(l.pad + 3) : \/ i \in 1..l.pad \/ i = l.pad + 1
                                   \/ i = l.pad + 2 \/ i = l.pad + 3
    BY LayoutIs
  <2>12. \A e \in 1..Len(l.sizes) : e = 1 \/ e = 2
    BY <1>4
  <2>13. all[l.pad + 1].t = "lfh" /\ all[l.pad + 2].t = "lfh"
    BY <2>4, <2>9, CellIs
  <2>14. \A i \in 1..(l.pad + 3) :
            /\ all[i].t \in {"zero", "lfh", "data"}
            /\ all[i].t = "lfh" => i = l.pad + 1 \/ i = l.pad + 2
    BY <1>1, <2>4, <2>9, <2>11, <2>13
  <2>15. DataLen(l) = l.pad + 3 /\ 1 \in 1..Len(l.sizes) /\ 2 \in 1..Len(l.sizes)
    BY <1>4, <2>5, <2>7, <2>9 DEF DataLen
  <2>16. \A i \in 1..DataLen(l) :
            /\ all[i].t \in {"zero", "lfh", "data"}
            /\ all[i].t = "lfh" => \E e \in 1..Len(l.sizes) : i = Zip!Offset(l, e) + 1
    BY <2>5, <2>10, <2>14, <2>15
  <2>17. \A e \in 1..Len(l.sizes) :
            Zip!Offset(l, e) \in 0..(l.pad + 2) /\ all[Zip!Offset(l, e) + 1] = Zip!Cell("lfh", <<e>>)
    <3>1. l.pad \in 0..(l.pad + 2) /\ l.pad + 1 \in 0..(l.pad + 2) /\ (l.pad + 1) + 1 = l.pad + 2
      BY <2>5
    <3>2. QED
      BY <2>4, <2>9, <2>10, <2>12, <3>1, Zenon
  <2>18. QED
    BY <2>5, <2>7, <2>9, <2>10, <2>15, <2>16, <2>17
<1>5. QED
  BY <1>2, <1>3, <1>4, LayoutIs

\* The directory has a record for every entry, and no other.
LEMMA DirectoryIs ==
    ASSUME NEW l \in Zip!Layouts
    PROVE  /\ Zip!Directory(l) \in Seq(ZipCell)
           /\ Len(Zip!Directory(l)) = Len(l.sizes)
           /\ \A i \in 1..Len(l.sizes) : \E e \in 1..Len(l.sizes) :
                 Zip!Directory(l)[i] = Zip!Cell("cd", <<e, Zip!Declared(l, e)>>)
           /\ \A e \in 1..Len(l.sizes) : \E i \in 1..Len(l.sizes) :
                 Zip!Directory(l)[i] = Zip!Cell("cd", <<e, Zip!Declared(l, e)>>)
<1> DEFINE n == Len(l.sizes)
           At(i) == IF l.reverse THEN n + 1 - i ELSE i
<1>1. n \in Nat
  BY LayoutIs
<1>2. \A e \in 1..n : Zip!Declared(l, e) \in Nat
  <2>1. \A e \in 1..n : Zip!Offset(l, e) \in Nat
    <3>1. DataLen(l) \in Nat /\ \A e \in 1..n : Zip!Offset(l, e) \in 0..(DataLen(l) - 1)
      BY DataIs, Zenon
    <3> HIDE DEF n
    <3>2. QED
      BY <3>1
  <2>2. Len(Zip!DataArea(l)) \in Nat
    BY DataIs DEF DataLen
  <2>3. ASSUME NEW e \in 1..n PROVE Zip!Declared(l, e) \in Nat
    <3>1. Zip!Offset(l, 1) \in Nat /\ Zip!Offset(l, e) \in Nat
      BY <1>1, <2>1
    <3>2. QED
      BY <2>2, <3>1 DEF Zip!Declared
  <2>4. QED
    BY <2>3
<1>3. \A i \in 1..n : At(i) \in 1..n /\ At(At(i)) = i
  BY <1>1
<1>4. Zip!Directory(l) = [i \in 1..n |-> Zip!Cell("cd", <<At(i), Zip!Declared(l, At(i))>>)]
  BY DEF Zip!Directory
<1> HIDE DEF n, At
<1>5. \A e \in 1..n : Zip!Cell("cd", <<e, Zip!Declared(l, e)>>) \in ZipCell
  <2>1. \A e \in 1..n : e \in Nat
    BY <1>1
  <2>2. QED
    BY <1>2, <2>1, CellTyped, Zenon
<1>6. \A i \in 1..n : Zip!Directory(l)[i] = Zip!Cell("cd", <<At(i), Zip!Declared(l, At(i))>>)
  BY <1>4
<1>7. Zip!Directory(l) \in [1..n -> ZipCell]
  <2>1. \A i \in 1..n : Zip!Cell("cd", <<At(i), Zip!Declared(l, At(i))>>) \in ZipCell
    BY <1>3, <1>5, Zenon
  <2>2. QED
    BY <1>4, <2>1, Zenon
<1>8. Zip!Directory(l) \in Seq(ZipCell) /\ Len(Zip!Directory(l)) = n
  <2> DEFINE d == Zip!Directory(l)
  <2>1. d \in [1..n -> ZipCell]
    BY <1>7
  <2> HIDE DEF d
  <2>2. d \in Seq(ZipCell) /\ Len(d) = n
    BY <1>1, <2>1
  <2>3. QED
    BY <2>2 DEF d
<1>9. \A i \in 1..n : \E e \in 1..n : Zip!Directory(l)[i] = Zip!Cell("cd", <<e, Zip!Declared(l, e)>>)
  BY <1>3, <1>6, Zenon
<1>10. \A e \in 1..n : \E i \in 1..n : Zip!Directory(l)[i] = Zip!Cell("cd", <<e, Zip!Declared(l, e)>>)
  <2>1. \A e \in 1..n : Zip!Directory(l)[At(e)] = Zip!Cell("cd", <<e, Zip!Declared(l, e)>>)
    BY <1>3, <1>6, Zenon
  <2>2. QED
    BY <1>3, <2>1, Zenon
<1>11. QED
  BY <1>8, <1>9, <1>10 DEF n

\* The comment has no end record that reaches to the end of the archive.
LEMMA CommentIs ==
    ASSUME NEW l \in Zip!Layouts
    PROVE  /\ Zip!Comment(l) \in Seq(ZipCell)
           /\ Len(Zip!Comment(l)) = l.comment
           /\ \A i \in 1..l.comment : /\ Zip!Comment(l)[i].t \in {"zero", "eocd"}
                                      /\ Zip!Comment(l)[i].t = "eocd" => Zip!Comment(l)[i].x[1] = 5
<1> DEFINE fake == Zip!Cell("eocd", <<5, 0, 0, 0>>)
<1>1. Zip!Zero \in ZipCell /\ Zip!Zero.t = "zero" /\ fake \in ZipCell
  <2>1. 0 \in Nat /\ 5 \in Nat
    OBVIOUS
  <2>2. QED
    BY <2>1, CellTyped, CellIs, Zenon DEF Zip!Zero
<1>2. fake.t = "eocd" /\ fake.x[1] = 5
  BY CellIs
<1>3. Zip!Comment(l) = [i \in 1..l.comment |-> IF i = 1 /\ l.comment = 2 THEN fake ELSE Zip!Zero]
  BY DEF Zip!Comment
<1> HIDE DEF fake
<1>4. QED
  BY <1>1, <1>2, <1>3, LayoutIs

\* The end records: the last one says where the directory is, or the zip64 record does.
LEMMA EndIs ==
    ASSUME NEW l \in Zip!Layouts
    PROVE  LET R == Zip!EndRecords(l)
               n == IF l.zip64 THEN 6 ELSE 1
           IN  /\ R \in Seq(ZipCell)
               /\ Len(R) = n
               /\ \A i \in 1..n : R[i].t \notin {"cd", "lfh"} /\ (R[i].t = "eocd" => i = n)
               /\ R[n].t = "eocd"
               /\ R[n].x[1] = l.comment
               /\ R[n].x[4] = IF l.zip64 THEN 0 ELSE DataLen(l)
               /\ l.zip64 =>
                     /\ R[4].x[1] = DataLen(l)
                     /\ R[5].t = "loc"
                     /\ R[5].x[1] = DataLen(l) + Len(l.sizes)
                                       + (IF l.flaw = "locator" THEN 1 ELSE 0)
<1> DEFINE n == Zip!Numbers(l)
           at == Len(Zip!DataArea(l)) + Len(l.sizes) + (IF l.flaw = "locator" THEN 1 ELSE 0)
<1>1. /\ n[1] \in Nat /\ n[2] \in Nat /\ n[3] \in Nat /\ n[3] = DataLen(l)
      /\ at \in Nat /\ at = DataLen(l) + Len(l.sizes) + (IF l.flaw = "locator" THEN 1 ELSE 0)
      /\ l.comment \in Nat
  <2>1. Len(l.sizes) \in Nat /\ l.comment \in Nat
    BY LayoutIs
  <2>2. Len(Zip!DataArea(l)) \in Nat
    BY DataIs DEF DataLen
  <2> DEFINE len == Len(l.sizes)
             data == Len(Zip!DataArea(l))
             x == len + (IF l.flaw = "count" THEN 1 ELSE 0)
             y == len + (IF l.flaw = "size" THEN 9 ELSE 0)
  <2>3. n = <<x, y, data>>
    BY DEF Zip!Numbers
  <2>4. len \in Nat /\ data \in Nat
    BY <2>1, <2>2
  <2> HIDE DEF len, data
  <2>5. x \in Nat /\ y \in Nat
    BY <2>4
  <2> HIDE DEF x, y, n
  <2>6. n[1] = x /\ n[2] = y /\ n[3] = data
    BY <2>3
  <2>7. at \in Nat
    <3>1. at = data + len + (IF l.flaw = "locator" THEN 1 ELSE 0)
      BY DEF data, len
    <3> HIDE DEF at
    <3>2. QED
      BY <2>4, <3>1
  <2>8. data = DataLen(l) /\ at = DataLen(l) + Len(l.sizes) + (IF l.flaw = "locator" THEN 1 ELSE 0)
    BY DEF DataLen, data
  <2>9. QED
    BY <2>1, <2>4, <2>5, <2>6, <2>7, <2>8
<1>2. n[1] % CountMod \in Nat
  BY <1>1, StepsAssumption
<1>3. CASE ~ l.zip64
  <2> DEFINE cell == Zip!Cell("eocd", <<l.comment, n[1] % CountMod, n[2], n[3]>>)
  <2>1. Zip!EndRecords(l) = <<cell>>
    BY <1>3 DEF Zip!EndRecords
  <2>2. cell \in ZipCell
    BY <1>1, <1>2, CellTyped, Zenon
  <2>3. cell.t = "eocd" /\ cell.x = <<l.comment, n[1] % CountMod, n[2], n[3]>>
    BY CellIs, Zenon
  <2>4. cell.x[1] = l.comment /\ cell.x[4] = DataLen(l)
    BY <1>1, <2>3
  <2> HIDE DEF cell
  <2>5. QED
    BY <1>3, <2>1, <2>2, <2>3, <2>4
<1>4. CASE l.zip64
  <2> DEFINE sig == Zip!Cell("sig64", <<0>>)
             a == Zip!Cell("num", <<n[1]>>)
             b == Zip!Cell("num", <<n[2]>>)
             c == Zip!Cell("num", <<n[3]>>)
             loc == Zip!Cell("loc", <<at>>)
             end == Zip!Cell("eocd", <<l.comment, 0, 0, 0>>)
  <2>1. Zip!EndRecords(l) = (<<sig, a, b, c>> \o <<loc>>) \o <<end>>
    BY <1>4 DEF Zip!EndRecords
  <2>2. {sig, a, b, c, loc, end} \subseteq ZipCell
    <3>1. 0 \in Nat
      OBVIOUS
    <3>2. /\ sig \in ZipCell /\ a \in ZipCell /\ b \in ZipCell /\ c \in ZipCell
          /\ loc \in ZipCell /\ end \in ZipCell
      BY <1>1, <3>1, CellTyped, Zenon
    <3>3. QED
      BY <3>2, Zenon
  <2>3. /\ sig.t = "sig64" /\ a.t = "num" /\ b.t = "num" /\ c.t = "num"
        /\ loc.t = "loc" /\ end.t = "eocd"
        /\ c.x = <<n[3]>> /\ loc.x = <<at>> /\ end.x = <<l.comment, 0, 0, 0>>
    BY CellIs, Zenon
  <2>4. /\ c.x[1] = DataLen(l) /\ loc.x[1] = at
        /\ end.x[1] = l.comment /\ end.x[4] = 0
    <3> HIDE DEF c, loc, end, at, n
    <3>1. QED
      BY <1>1, <2>3
  <2> HIDE DEF sig, a, b, c, loc, end, at, n
  <2> DEFINE rec == <<sig, a, b, c>>
             one == <<loc>>
             two == <<end>>
             some == rec \o one
             R == some \o two
  <2>5. /\ rec \in Seq(ZipCell) /\ Len(rec) = 4
        /\ rec[1] = sig /\ rec[2] = a /\ rec[3] = b /\ rec[4] = c
        /\ one \in Seq(ZipCell) /\ Len(one) = 1 /\ one[1] = loc
        /\ two \in Seq(ZipCell) /\ Len(two) = 1 /\ two[1] = end
    BY <2>2
  <2>6. /\ R \in Seq(ZipCell) /\ Len(R) = 6 /\ R[1] = sig /\ R[2] = a /\ R[3] = b /\ R[4] = c
        /\ R[5] = loc /\ R[6] = end
    <3> HIDE DEF rec, one, two
    <3>1. Join(ZipCell, some, rec, one, 4, 1)
      BY <2>5, Joined
    <3>2. /\ some \in Seq(ZipCell) /\ Len(some) = 5
          /\ some[1] = sig /\ some[2] = a /\ some[3] = b /\ some[4] = c /\ some[5] = loc
      <4> HIDE DEF some
      <4>1. QED
        BY <2>5, <3>1 DEF Join
    <3> HIDE DEF some
    <3>3. Join(ZipCell, R, some, two, 5, 1)
      BY <2>5, <3>2, Joined
    <3> HIDE DEF R
    <3>4. QED
      BY <2>5, <3>2, <3>3 DEF Join
  <2>7. Zip!EndRecords(l) = R
    BY <2>1
  <2> HIDE DEF R
  <2>8. \A i \in 1..6 : i = 1 \/ i = 2 \/ i = 3 \/ i = 4 \/ i = 5 \/ i = 6
    OBVIOUS
  <2>9. \A i \in 1..6 : R[i].t \notin {"cd", "lfh"} /\ (R[i].t = "eocd" => i = 6)
    BY <2>3, <2>6, <2>8
  <2>10. QED
    BY <1>1, <1>4, <2>3, <2>4, <2>6, <2>7, <2>9
<1>5. QED
  BY <1>3, <1>4

\* An archive is its data, its directory, its end records and its comment, or is torn off
\* before the last end record.
LEMMA ArchiveIs ==
    ASSUME NEW l \in Zip!Layouts
    PROVE  LET A == Zip!Archive(l)
               d == DataLen(l)
               n == Len(l.sizes)
               e == EndAt(l)
           IN  /\ A \in Seq(ZipCell)
               /\ Len(A) = IF l.flaw = "torn" THEN e - 1 ELSE e + l.comment
               /\ \A i \in 1..d : A[i] = Zip!DataArea(l)[i]
               /\ \A i \in 1..n : A[d + i] = Zip!Directory(l)[i]
               /\ \A i \in 1..(e - (d + n)) :
                     d + n + i <= Len(A) => A[d + n + i] = Zip!EndRecords(l)[i]
               /\ l.flaw # "torn" => \A i \in 1..l.comment : A[e + i] = Zip!Comment(l)[i]
<1> DEFINE d == DataLen(l)
           n == Len(l.sizes)
           r == IF l.zip64 THEN 6 ELSE 1
           k == l.comment
           D == Zip!DataArea(l)
           C == Zip!Directory(l)
           R == Zip!EndRecords(l)
           K == Zip!Comment(l)
           DC == D \o C
           DCR == DC \o R
           all == DCR \o K
<1>1. D \in Seq(ZipCell) /\ Len(D) = d /\ d \in Nat
  BY DataIs DEF DataLen
<1>2. C \in Seq(ZipCell) /\ Len(C) = n /\ n \in Nat
  BY DirectoryIs, LayoutIs
<1>3. R \in Seq(ZipCell) /\ Len(R) = r /\ r \in Nat /\ r >= 1
  BY EndIs
<1>4. K \in Seq(ZipCell) /\ Len(K) = k /\ k \in Nat
  BY CommentIs, LayoutIs
<1>5. Zip!Archive(l) = IF l.flaw = "torn" THEN SubSeq(all, 1, Len(all) - k - 1) ELSE all
  BY DEF Zip!Archive
<1>6. EndAt(l) = d + n + r
  BY DEF EndAt
<1> HIDE DEF d, n, r, k, D, C, R, K
<1>7. Join(ZipCell, DC, D, C, d, n)
  BY <1>1, <1>2, Joined, Zenon
<1>8. DC \in Seq(ZipCell) /\ Len(DC) = d + n /\ d + n \in Nat
  BY <1>1, <1>2, <1>7 DEF Join
<1> HIDE DEF DC
<1>9. Join(ZipCell, DCR, DC, R, d + n, r)
  BY <1>3, <1>8, Joined, Zenon
<1>10. DCR \in Seq(ZipCell) /\ Len(DCR) = (d + n) + r /\ (d + n) + r \in Nat
  <2> HIDE DEF DCR
  <2>1. QED
    BY <1>3, <1>8, <1>9 DEF Join
<1> HIDE DEF DCR
<1>11. Join(ZipCell, all, DCR, K, (d + n) + r, k)
  BY <1>4, <1>10, Joined, Zenon
<1> HIDE DEF all
<1>12. /\ all \in Seq(ZipCell) /\ Len(all) = d + n + r + k
       /\ \A i \in 1..(d + n + r) : all[i] = DCR[i]
       /\ \A i \in 1..k : all[d + n + r + i] = K[i]
  BY <1>4, <1>10, <1>11 DEF Join
<1>13. /\ \A i \in 1..(d + n) : DCR[i] = DC[i]
       /\ \A i \in 1..r : DCR[d + n + i] = R[i]
  BY <1>3, <1>8, <1>9 DEF Join
<1>14. /\ \A i \in 1..d : DC[i] = D[i]
       /\ \A i \in 1..n : DC[d + i] = C[i]
  BY <1>1, <1>2, <1>7 DEF Join
<1>15. /\ \A i \in 1..d : all[i] = D[i]
       /\ \A i \in 1..n : all[d + i] = C[i]
       /\ \A i \in 1..r : all[d + n + i] = R[i]
  <2>1. \A i \in 1..d : i \in 1..(d + n) /\ i \in 1..(d + n + r)
    BY <1>1, <1>2, <1>3
  <2>2. \A i \in 1..n : d + i \in 1..(d + n) /\ d + i \in 1..(d + n + r)
    BY <1>1, <1>2, <1>3
  <2>3. \A i \in 1..r : d + n + i \in 1..(d + n + r)
    BY <1>1, <1>2, <1>3
  <2>4. QED
    BY <1>12, <1>13, <1>14, <2>1, <2>2, <2>3
<1> DEFINE A == Zip!Archive(l)
<1>16. CASE l.flaw # "torn"
  <2>1. A = all
    BY <1>5, <1>16
  <2> HIDE DEF A
  <2>2. /\ A \in Seq(ZipCell)
        /\ Len(A) = EndAt(l) + k
        /\ \A i \in 1..k : A[EndAt(l) + i] = K[i]
    BY <1>6, <1>12, <2>1
  <2>3. EndAt(l) - (d + n) = r
    BY <1>1, <1>2, <1>3, <1>6
  <2>4. QED
    BY <1>15, <1>16, <2>1, <2>2, <2>3 DEF A, D, C, R, K, d, n, k
<1>17. CASE l.flaw = "torn"
  <2>1. A = SubSeq(all, 1, d + n + r - 1)
    <3>1. Len(all) - k - 1 = d + n + r - 1
      BY <1>1, <1>2, <1>3, <1>4, <1>12
    <3>2. QED
      BY <1>5, <1>17, <3>1
  <2> HIDE DEF A
  <2>2. /\ A \in Seq(ZipCell) /\ Len(A) = d + n + r - 1
        /\ \A i \in 1..(d + n + r - 1) : A[i] = all[i]
    BY <1>1, <1>2, <1>3, <1>4, <1>12, <2>1
  <2>3. EndAt(l) - (d + n) = r /\ EndAt(l) - 1 = d + n + r - 1
    BY <1>1, <1>2, <1>3, <1>6
  <2>4. \A i \in 1..d : A[i] = D[i]
    BY <1>1, <1>2, <1>3, <1>15, <2>2
  <2>5. \A i \in 1..n : A[d + i] = C[i]
    <3>1. \A i \in 1..n : d + i \in 1..(d + n + r - 1)
      BY <1>1, <1>2, <1>3
    <3>2. QED
      BY <1>15, <2>2, <3>1
  <2>6. \A i \in 1..r : d + n + i <= Len(A) => A[d + n + i] = R[i]
    <3>1. \A i \in 1..r : d + n + i <= Len(A) => d + n + i \in 1..(d + n + r - 1)
      BY <1>1, <1>2, <1>3, <2>2
    <3>2. QED
      BY <1>15, <2>2, <3>1
  <2>7. QED
    BY <1>17, <2>2, <2>3, <2>4, <2>5, <2>6 DEF A, D, C, R, K, d, n, k
<1>18. QED
  BY <1>16, <1>17

\* Where the headers, the records of the directory and the end records are.
LEMMA KindsAre ==
    ASSUME NEW l \in Zip!Layouts, NEW i \in 1..Len(Zip!Archive(l))
    PROVE  LET c == Zip!Archive(l)[i]
               d == DataLen(l)
               n == Len(l.sizes)
           IN  /\ c.t = "lfh" => i \in 1..d
               /\ c.t = "cd" <=> i \in (d + 1)..(d + n)
               /\ c.t = "loc" => l.zip64
               /\ c.t = "eocd" => \/ i = EndAt(l) /\ l.flaw # "torn"
                                  \/ i > EndAt(l) /\ l.flaw # "torn" /\ c.x[1] = 5
<1> DEFINE c == Zip!Archive(l)[i]
           d == DataLen(l)
           n == Len(l.sizes)
           r == IF l.zip64 THEN 6 ELSE 1
           k == l.comment
<1>1. /\ d \in Nat /\ n \in Nat /\ r \in Nat /\ k \in Nat /\ EndAt(l) = d + n + r
      /\ Len(Zip!Archive(l)) = IF l.flaw = "torn" THEN d + n + r - 1 ELSE d + n + r + k
  <2>1. d \in Nat
    BY DataIs, Zenon
  <2>2. n \in Nat /\ k \in Nat
    BY LayoutIs
  <2>3. r \in Nat
    OBVIOUS
  <2>4. EndAt(l) = d + n + r
    BY DEF EndAt
  <2>5. Len(Zip!Archive(l)) = IF l.flaw = "torn" THEN EndAt(l) - 1 ELSE EndAt(l) + k
    BY ArchiveIs, Zenon
  <2> HIDE DEF d, n, r, k
  <2>6. QED
    BY <2>1, <2>2, <2>3, <2>4, <2>5
<1>2. CASE i \in 1..d
  <2>1. c.t \in {"zero", "lfh", "data"}
    BY <1>2, ArchiveIs, DataIs
  <2>2. QED
    BY <1>1, <1>2, <2>1
<1>3. CASE i \in (d + 1)..(d + n)
  <2>1. PICK j \in 1..n : i = d + j
    <3>1. i - d \in 1..n /\ i = d + (i - d)
      BY <1>1, <1>3
    <3>2. QED
      BY <3>1
  <2>2. c = Zip!Directory(l)[j]
    BY <2>1, ArchiveIs
  <2>3. c.t = "cd"
    <3>1. PICK e \in 1..n : Zip!Directory(l)[j] = Zip!Cell("cd", <<e, Zip!Declared(l, e)>>)
      BY DirectoryIs, Zenon
    <3>2. Zip!Cell("cd", <<e, Zip!Declared(l, e)>>).t = "cd"
      BY CellIs, Zenon
    <3> HIDE DEF c
    <3>3. QED
      BY <2>2, <3>1, <3>2
  <2>4. QED
    BY <1>1, <1>3, <2>3
<1>4. CASE i \in (d + n + 1)..(d + n + r)
  <2>1. PICK j \in 1..r : i = d + n + j
    <3> HIDE DEF d, n, r, k
    <3>1. i - (d + n) \in 1..r /\ i = d + n + (i - (d + n))
      BY <1>1, <1>4
    <3>2. QED
      BY <3>1
  <2>2. c = Zip!EndRecords(l)[j]
    <3>1. EndAt(l) - (d + n) = r /\ d + n + j <= Len(Zip!Archive(l))
      BY <1>1, <2>1
    <3>2. QED
      BY <2>1, <3>1, ArchiveIs
  <2>3. /\ c.t \notin {"cd", "lfh"} /\ (c.t = "eocd" => j = r)
        /\ c.t = "loc" => l.zip64
    BY <2>2, EndIs
  <2>4. j = r => i = EndAt(l) /\ l.flaw # "torn"
    BY <1>1, <2>1
  <2>5. i \notin (d + 1)..(d + n)
    BY <1>1, <1>4
  <2>6. QED
    BY <2>3, <2>4, <2>5
<1>5. CASE i > d + n + r
  <2>1. l.flaw # "torn" /\ i <= d + n + r + k
    BY <1>1, <1>5
  <2>2. PICK j \in 1..k : i = EndAt(l) + j
    <3> HIDE DEF d, n, r, k
    <3>1. i - EndAt(l) \in 1..k /\ i = EndAt(l) + (i - EndAt(l))
      BY <1>1, <1>5, <2>1
    <3>2. QED
      BY <3>1
  <2>3. c = Zip!Comment(l)[j]
    BY <2>1, <2>2, ArchiveIs
  <2>4. c.t \in {"zero", "eocd"} /\ (c.t = "eocd" => c.x[1] = 5)
    BY <2>3, CommentIs
  <2>5. i \notin (d + 1)..(d + n)
    BY <1>1, <1>5
  <2>6. i > EndAt(l)
    BY <1>1, <1>5
  <2>7. QED
    BY <2>1, <2>4, <2>5, <2>6
<1>6. QED
  BY <1>1, <1>2, <1>3, <1>4, <1>5

\* The tail holds the archive's last cells.
TailInv == /\ Len(tail) = Zip!size - Zip!tailOffset
           /\ \A i \in 1..Len(tail) : tail[i] = archive[Zip!tailOffset + i]

\* What readZipDirectory knows: the end record is the archive's, and where the directory
\* begins is what the archive says or, after a read that came short, the beginning.
DirInv == /\ DOMAIN dir = DOMAIN Zip!NoDir
          /\ step \in {"locator", "record"} =>
                TailInv /\ layout.flaw # "torn" /\ dir.eocd = EndAt(layout) - 1
          /\ step = "locator" => dir.offset = IF layout.zip64 THEN 0 ELSE DataLen(layout)
          /\ step = "record" => layout.zip64 /\ dir.rec = DataLen(layout) + Len(layout.sizes)
          /\ step \in {"check", "head", "parse"} => dir.offset \in {0, DataLen(layout)}

ZipInv == /\ storage \in Zip!Storages
          /\ layout \in Zip!Layouts
          /\ archive = Zip!Archive(layout)
          /\ step \in {"tail", "locator", "record", "check", "head", "parse", "listed", "failed"}
          /\ DirInv
          /\ Zip!ZipListingExact

\* The lengths of an archive.
LEMMA ZipFacts ==
    ASSUME ZipInv
    PROVE  /\ archive \in Seq(ZipCell) /\ Zip!size \in Nat /\ Zip!size = Len(archive)
           /\ Zip!tailOffset \in Nat /\ Zip!tailOffset <= Zip!size
           /\ Zip!size > 0 => Zip!tailOffset < Zip!size
           /\ DataLen(layout) \in Nat /\ Len(layout.sizes) \in Nat /\ layout.comment \in 0..2
           /\ EndAt(layout) = DataLen(layout) + Len(layout.sizes) + (IF layout.zip64 THEN 6 ELSE 1)
           /\ Zip!size = IF layout.flaw = "torn" THEN EndAt(layout) - 1
                         ELSE EndAt(layout) + layout.comment
<1>1. archive \in Seq(ZipCell) /\ Zip!size = Len(archive)
  BY ArchiveIs DEF ZipInv, Zip!size
<1>2. Zip!size \in Nat
  BY <1>1
<1>3. TailLen \in Nat \ {0}
  BY StepsAssumption
<1>4. /\ Zip!tailOffset \in Nat /\ Zip!tailOffset <= Zip!size
      /\ Zip!size > 0 => Zip!tailOffset < Zip!size
  BY <1>2, <1>3 DEF Zip!tailOffset, Zip!Least
<1>5. layout \in Zip!Layouts /\ archive = Zip!Archive(layout)
  BY DEF ZipInv
<1>6. DataLen(layout) \in Nat /\ Len(layout.sizes) \in Nat /\ layout.comment \in 0..2
  BY <1>5, DataIs, LayoutIs
<1>7. Len(archive) = IF layout.flaw = "torn" THEN EndAt(layout) - 1
                     ELSE EndAt(layout) + layout.comment
  BY <1>5, ArchiveIs
<1>8. QED
  BY <1>1, <1>2, <1>4, <1>6, <1>7 DEF EndAt

\* An archive that is not torn holds its end record.
LEMMA EndInside ==
    ASSUME ZipInv, layout.flaw # "torn"
    PROVE  /\ DataLen(layout) + Len(layout.sizes) \in Nat
           /\ EndAt(layout) \in Nat /\ EndAt(layout) <= Zip!size /\ Zip!size \in Nat
           /\ layout.zip64 => EndAt(layout) = (DataLen(layout) + Len(layout.sizes)) + 6
<1> DEFINE at == DataLen(layout) + Len(layout.sizes)
           k == layout.comment
           e == EndAt(layout)
<1>1. at \in Nat /\ k \in 0..2 /\ e = at + (IF layout.zip64 THEN 6 ELSE 1)
  BY ZipFacts
<1>2. Zip!size = e + k
  BY ZipFacts
<1> HIDE DEF at, k, e
<1>3. e \in Nat /\ (layout.zip64 => e = at + 6)
  BY <1>1
<1>4. e <= e + k /\ e + k \in Nat
  BY <1>1, <1>3
<1>5. QED
  BY <1>1, <1>2, <1>3, <1>4 DEF at, e

\* Where the archive is stays as it is while it is listed.
LEMMA SameArchive ==
    ASSUME UNCHANGED <<storage, layout, archive>>
    PROVE  /\ Zip!size' = Zip!size /\ Zip!tailOffset' = Zip!tailOffset
           /\ \A e : Zip!Place(e)' = Zip!Place(e)
BY DEF Zip!size, Zip!tailOffset, Zip!Least, Zip!Place, Zip!Cell

\* A step that fails, or keeps what it knows of the directory.
LEMMA ZipGoesOn ==
    ASSUME ZipInv, UNCHANGED <<storage, layout, archive, tail, dir>>,
           \/ step' = "failed"
           \/ step \in {"check", "head", "parse"} /\ step' \in {"head", "parse"}
           \/ step' = "check" /\ dir.offset \in {0, DataLen(layout)}
    PROVE  ZipInv'
<1>1. DirInv'
  BY DEF ZipInv, DirInv, DataLen
<1>2. (Zip!ZipListingExact)'
  BY DEF Zip!ZipListingExact
<1>3. QED
  BY <1>1, <1>2 DEF ZipInv

\* The end record that is found is the archive's.
LEMMA ReadTailStep ==
    ASSUME ZipInv, Zip!ReadTail
    PROVE  ZipInv'
<1>1. CASE Zip!Fail
  BY <1>1, ZipGoesOn DEF Zip!Fail, Zip!GoOn
<1>2. CASE ~ Zip!Fail
  <2> DEFINE n == Zip!size - Zip!tailOffset
  <2>1. Zip!size >= 1
    BY <1>2 DEF Zip!ReadTail, Zip!eocdLen
  <2>2. PICK out \in Zip!ReadAt(storage, Zip!tailOffset, n, archive) :
           LET ends == {i \in 1..Len(out.data) : Zip!IsEnd(out.data, i)}
           IN  IF ~ Zip!Complete(out, n) \/ ends = {}
               THEN Zip!Fail
               ELSE /\ \E i \in ends :
                          /\ \A j \in ends : j <= i
                          /\ dir' = [eocd |-> Zip!tailOffset + i - 1, records |-> out.data[i].x[2],
                                     size |-> out.data[i].x[3], offset |-> out.data[i].x[4],
                                     end  |-> Zip!tailOffset + i - 1, rec |-> 0]
                    /\ tail' = out.data
                    /\ Zip!GoOn("locator")
                    /\ UNCHANGED ranges
    BY <1>2 DEF Zip!ReadTail
  <2>3. Zip!Complete(out, n) /\ tail' = out.data /\ Zip!GoOn("locator")
    BY <1>2, <2>2
  <2>4. PICK i \in 1..Len(out.data) :
           /\ Zip!IsEnd(out.data, i)
           /\ dir' = [eocd |-> Zip!tailOffset + i - 1, records |-> out.data[i].x[2],
                      size |-> out.data[i].x[3], offset |-> out.data[i].x[4],
                      end  |-> Zip!tailOffset + i - 1, rec |-> 0]
    BY <1>2, <2>2
  <2>5. /\ n \in Nat /\ n > 0 /\ Zip!tailOffset \in Nat /\ Zip!tailOffset + n <= Len(archive)
        /\ Zip!tailOffset + n = Len(archive)
    <3>1. /\ Zip!size \in Nat /\ Zip!size = Len(archive)
          /\ Zip!tailOffset \in Nat /\ Zip!tailOffset < Zip!size
      BY <2>1, ZipFacts
    <3>2. QED
      BY <3>1
  <2> HIDE DEF n
  <2>6. /\ Len(out.data) = n
        /\ \A j \in 1..n : out.data[j] = archive[Zip!tailOffset + j]
    <3> DEFINE off == Zip!tailOffset
    <3>1. storage \in Zip!Storages /\ archive \in Seq(ZipCell)
      BY ZipFacts DEF ZipInv
    <3>2. out \in Zip!ReadAt(storage, off, n, archive) /\ off \in Nat /\ off + n <= Len(archive)
      BY <2>5
    <3> HIDE DEF off
    <3>3. BeginningOf(off, n, archive, out)
      BY <2>5, <3>1, <3>2, ReadsArePrefixes, Zenon
    <3>4. Len(out.data) = n
      BY <2>3, <3>3 DEF Zip!Complete, BeginningOf
    <3>5. \A j \in 1..n : out.data[j] = archive[off + j]
      BY <3>3, <3>4, Zenon DEF BeginningOf
    <3>6. QED
      BY <3>4, <3>5, Zenon DEF off
  <2> DEFINE at == Zip!tailOffset + i
             c == archive[at]
  <2>7. /\ at \in 1..Len(archive) /\ at \in Nat /\ out.data[i] = c
        /\ c.t = "eocd" /\ i + c.x[1] = n
    <3>1. out.data[i].t = "eocd" /\ i + out.data[i].x[1] = n /\ i \in 1..n
      BY <2>4, <2>6, Zenon DEF Zip!IsEnd
    <3>2. out.data[i] = c
      BY <2>6, <3>1, Zenon
    <3>3. at \in 1..Len(archive) /\ at \in Nat
      BY <2>5, <3>1
    <3>4. QED
      BY <3>1, <3>2, <3>3, Zenon
  <2>8. layout \in Zip!Layouts /\ archive = Zip!Archive(layout)
    BY DEF ZipInv
  <2>9. \/ at = EndAt(layout) /\ layout.flaw # "torn"
        \/ at > EndAt(layout) /\ layout.flaw # "torn" /\ c.x[1] = 5
    BY <2>7, <2>8, KindsAre
  <2>10. at = EndAt(layout) /\ layout.flaw # "torn"
    <3>1. ASSUME at > EndAt(layout), layout.flaw # "torn", c.x[1] = 5 PROVE FALSE
      <4>1. Len(archive) = EndAt(layout) + layout.comment /\ layout.comment \in 0..2
        BY <3>1, ZipFacts
      <4>2. EndAt(layout) \in Nat
        BY ZipFacts
      <4>3. i + 5 = n
        BY <2>7, <3>1
      <4>4. QED
        BY <2>4, <2>5, <3>1, <4>1, <4>2, <4>3
    <3>2. QED
      BY <2>9, <3>1
  <2>11. c.x[4] = IF layout.zip64 THEN 0 ELSE DataLen(layout)
    <3> DEFINE r == IF layout.zip64 THEN 6 ELSE 1
               R == Zip!EndRecords(layout)
    <3>1. /\ EndAt(layout) = DataLen(layout) + Len(layout.sizes) + r
          /\ DataLen(layout) \in Nat /\ Len(layout.sizes) \in Nat /\ r \in Nat /\ r \in 1..r
      BY ZipFacts
    <3>2. R[r].x[4] = IF layout.zip64 THEN 0 ELSE DataLen(layout)
      BY <2>8, EndIs
    <3>3. EndAt(layout) - (DataLen(layout) + Len(layout.sizes)) = r
      BY <3>1
    <3>4. \A j \in 1..r : DataLen(layout) + Len(layout.sizes) + j <= Len(archive) =>
                             archive[DataLen(layout) + Len(layout.sizes) + j] = R[j]
      BY <2>8, <3>3, ArchiveIs
    <3>5. c = R[r]
      BY <2>7, <2>10, <3>1, <3>4
    <3>6. QED
      BY <3>2, <3>5
  <2>12. UNCHANGED <<storage, layout, archive>> /\ step' = "locator"
    BY <2>3 DEF Zip!GoOn
  <2>13. /\ DOMAIN dir' = DOMAIN Zip!NoDir
         /\ dir'.eocd = EndAt(layout) - 1
         /\ dir'.offset = IF layout.zip64 THEN 0 ELSE DataLen(layout)
    <3>1. /\ dir'.eocd = at - 1 /\ dir'.offset = out.data[i].x[4]
          /\ DOMAIN dir' = {"eocd", "records", "size", "offset", "end", "rec"}
      <4> DEFINE x2 == out.data[i].x[2]
                 x3 == out.data[i].x[3]
                 x4 == out.data[i].x[4]
                 e == Zip!tailOffset + i - 1
      <4>1. dir' = [eocd |-> e, records |-> x2, size |-> x3, offset |-> x4, end |-> e, rec |-> 0]
        BY <2>4, Zenon
      <4> HIDE DEF x2, x3, x4, e
      <4>2. /\ dir'.eocd = e /\ dir'.offset = x4
            /\ DOMAIN dir' = {"eocd", "records", "size", "offset", "end", "rec"}
        BY <4>1
      <4>3. e = at - 1
        BY <2>5, <2>6 DEF e
      <4>4. QED
        BY <4>2, <4>3, Zenon DEF x4
    <3>2. DOMAIN Zip!NoDir = {"eocd", "records", "size", "offset", "end", "rec"}
      BY DEF Zip!NoDir
    <3> HIDE DEF at, c
    <3>3. QED
      BY <2>7, <2>10, <2>11, <3>1, <3>2
  <2>14. TailInv'
    BY <2>3, <2>6, <2>12, SameArchive DEF TailInv, n
  <2>15. DirInv'
    BY <2>10, <2>12, <2>13, <2>14 DEF DirInv, Zip!NoDir, DataLen, EndAt
  <2>16. (Zip!ZipListingExact)'
    BY <2>12 DEF Zip!ZipListingExact
  <2>17. QED
    BY <2>12, <2>15, <2>16 DEF ZipInv
<1>3. QED
  BY <1>1, <1>2

\* A cell that readAtCached returns is the archive's, or zero where the read came short.
LEMMA CachedIs ==
    ASSUME ZipInv, TailInv, NEW off \in Nat, NEW n \in Nat, n > 0, off + n <= Zip!size,
           NEW out \in Zip!ReadAtCached(off, n)
    PROVE  \A i \in 1..n : out.data[i] = archive[off + i] \/ out.data[i] = Zip!Zero
<1>1. CASE off >= Zip!tailOffset
  <2> DEFINE a == off - Zip!tailOffset
  <2>1. out.data = SubSeq(tail, a + 1, a + n)
    BY <1>1 DEF Zip!ReadAtCached
  <2>2. a \in Nat /\ a + n <= Len(tail) /\ Len(tail) \in Nat /\ off = Zip!tailOffset + a
    BY <1>1, ZipFacts DEF TailInv
  <2> HIDE DEF a
  <2>3. \A i \in 1..n : out.data[i] = tail[a + i]
    <3> DEFINE b == SubSeq(tail, a + 1, a + n)
    <3>1. a \in Nat
      BY <2>2
    <3>2. \A i \in 1..n : b[i] = tail[a + i]
      BY <3>1, RangeCells, Zenon
    <3>3. out.data = b
      BY <2>1, Zenon
    <3> HIDE DEF b
    <3>4. QED
      BY <3>2, <3>3, Zenon
  <2>4. \A i \in 1..n : a + i \in 1..Len(tail) /\ Zip!tailOffset + (a + i) = off + i
    <3>1. Zip!tailOffset \in Nat
      BY ZipFacts
    <3> HIDE DEF Zip!tailOffset
    <3>2. QED
      BY <2>2, <3>1
  <2>5. QED
    BY <2>3, <2>4 DEF TailInv
<1>2. CASE off < Zip!tailOffset
  <2>1. ~ (off >= Zip!tailOffset)
    BY <1>2, ZipFacts
  <2> DEFINE Got(o) == [i \in 1..n |-> IF i <= Len(o.data) THEN o.data[i] ELSE Zip!Zero]
  <2>2. PICK o \in Zip!ReadAt(storage, off, n, archive) : out.data = Got(o)
    <3>1. out \in {[data |-> Got(o), ok |-> o.err # "io"] : o \in Zip!ReadAt(storage, off, n, archive)}
      BY <2>1, Zenon DEF Zip!ReadAtCached
    <3> HIDE DEF Got
    <3>2. QED
      BY <3>1
  <2>3. storage \in Zip!Storages /\ archive \in Seq(ZipCell) /\ off + n <= Len(archive)
    BY ZipFacts DEF ZipInv
  <2>4. /\ Len(o.data) \in 0..n
        /\ \A i \in 1..Len(o.data) : o.data[i] = archive[off + i]
    <3>1. BeginningOf(off, n, archive, o)
      BY <2>3, ReadsArePrefixes, Zenon
    <3>2. QED
      BY <3>1, Zenon DEF BeginningOf
  <2>5. QED
    BY <2>2, <2>4
<1>3. Zip!tailOffset \in Nat
  BY ZipFacts
<1>4. QED
  BY <1>1, <1>2, <1>3

\* Zero is no cell of a record, and says zero.
LEMMA ZeroIs == Zip!Zero.t = "zero" /\ Zip!Zero.x[1] = 0
BY DEF Zip!Zero, Zip!Cell

\* The end records in the archive.
LEMMA RecordsAre ==
    ASSUME ZipInv, layout.flaw # "torn", layout.zip64
    PROVE  LET at == DataLen(layout) + Len(layout.sizes)
           IN  /\ archive[at + 4].x[1] = DataLen(layout)
               /\ archive[at + 5].t = "loc"
               /\ archive[at + 5].x[1] = at + (IF layout.flaw = "locator" THEN 1 ELSE 0)
<1> DEFINE at == DataLen(layout) + Len(layout.sizes)
           R == Zip!EndRecords(layout)
<1>1. layout \in Zip!Layouts /\ archive = Zip!Archive(layout)
  BY DEF ZipInv
<1>2. at \in Nat /\ EndAt(layout) = at + 6 /\ EndAt(layout) <= Len(archive)
  <2>1. /\ DataLen(layout) \in Nat /\ Len(layout.sizes) \in Nat /\ layout.comment \in 0..2
        /\ EndAt(layout) = DataLen(layout) + Len(layout.sizes) + (IF layout.zip64 THEN 6 ELSE 1)
        /\ Len(archive) = EndAt(layout) + layout.comment
    BY ZipFacts
  <2>2. QED
    BY <2>1
<1>3. EndAt(layout) - at = 6
  BY <1>2
<1>4. \A j \in 1..6 : at + j <= Len(archive) => archive[at + j] = R[j]
  <2>1. \A j \in 1..(EndAt(layout) - at) : at + j <= Len(archive) => archive[at + j] = R[j]
    BY <1>1, ArchiveIs, Zenon
  <2>2. QED
    BY <1>3, <2>1
<1>5. archive[at + 4] = R[4] /\ archive[at + 5] = R[5]
  <2> HIDE DEF at
  <2>1. QED
    BY <1>2, <1>4
<1>6. /\ R[4].x[1] = DataLen(layout) /\ R[5].t = "loc"
      /\ R[5].x[1] = at + (IF layout.flaw = "locator" THEN 1 ELSE 0)
  BY <1>1, EndIs
<1>7. QED
  BY <1>5, <1>6

\* A locator that is found points to the archive's record.
LEMMA ReadLocatorStep ==
    ASSUME ZipInv, Zip!ReadLocator
    PROVE  ZipInv'
<1>1. /\ step = "locator" /\ TailInv /\ layout.flaw # "torn" /\ dir.eocd = EndAt(layout) - 1
      /\ dir.offset = IF layout.zip64 THEN 0 ELSE DataLen(layout)
      /\ DOMAIN dir = DOMAIN Zip!NoDir
  BY DEF Zip!ReadLocator, ZipInv, DirInv
<1>2. CASE Zip!Fail
  BY <1>2, ZipGoesOn DEF Zip!Fail, Zip!GoOn
<1>3. CASE Zip!GoOn("check") /\ UNCHANGED <<tail, dir, ranges>>
  BY <1>1, <1>3, ZipGoesOn DEF Zip!GoOn
<1>4. CASE /\ dir.eocd >= 1
           /\ \E out \in Zip!ReadAtCached(dir.eocd - 1, 1) :
                 /\ ~ Zip!PointsOutside(out.data[1])
                 /\ out.data[1].t = "loc"
                 /\ dir' = [dir EXCEPT !.rec = out.data[1].x[1]]
                 /\ Zip!GoOn("record")
                 /\ UNCHANGED <<tail, ranges>>
  <2> DEFINE off == dir.eocd - 1
  <2>1. PICK out \in Zip!ReadAtCached(off, 1) :
                 /\ ~ Zip!PointsOutside(out.data[1])
                 /\ out.data[1].t = "loc"
                 /\ dir' = [dir EXCEPT !.rec = out.data[1].x[1]]
                 /\ Zip!GoOn("record")
                 /\ UNCHANGED <<tail, ranges>>
    BY <1>4
  <2>2. /\ Zip!size = EndAt(layout) + layout.comment /\ layout.comment \in 0..2
        /\ EndAt(layout) = DataLen(layout) + Len(layout.sizes) + (IF layout.zip64 THEN 6 ELSE 1)
        /\ DataLen(layout) \in Nat /\ Len(layout.sizes) \in Nat /\ Zip!size = Len(archive)
    BY <1>1, ZipFacts
  <2>3. off \in Nat /\ off + 1 <= Zip!size /\ off + 1 = EndAt(layout) - 1
    <3>1. EndAt(layout) \in Nat /\ EndAt(layout) <= Zip!size
      BY <1>1, EndInside
    <3>2. dir.eocd = EndAt(layout) - 1 /\ dir.eocd >= 1 /\ Zip!size \in Nat
      BY <1>1, <1>4, ZipFacts
    <3>3. QED
      BY <3>1, <3>2
  <2> DEFINE cell == out.data[1]
  <2>4. cell = archive[off + 1]
    <3> HIDE DEF off
    <3>1. \A i \in 1..1 : out.data[i] = archive[off + i] \/ out.data[i] = Zip!Zero
      <4>1. 1 \in Nat /\ 1 > 0
        OBVIOUS
      <4>2. QED
        BY <1>1, <2>3, <4>1, CachedIs, Zenon
    <3>2. QED
      BY <2>1, <3>1, ZeroIs
  <2>5. layout \in Zip!Layouts /\ archive = Zip!Archive(layout)
    BY DEF ZipInv
  <2>6. layout.zip64
    <3> HIDE DEF off
    <3>1. off + 1 \in 1..Len(archive) /\ archive[off + 1].t = "loc"
      BY <2>1, <2>2, <2>3, <2>4
    <3>2. QED
      BY <2>5, <3>1, KindsAre
  <2> DEFINE at == DataLen(layout) + Len(layout.sizes)
  <2>7. off + 1 = at + 5
    BY <2>2, <2>3, <2>6
  <2>8. cell.t = "loc" /\ cell.x[1] = at + (IF layout.flaw = "locator" THEN 1 ELSE 0)
    BY <1>1, <2>4, <2>6, <2>7, RecordsAre
  <2>9. cell.x[1] = at
    <3>1. ~ (cell.x[1] + 4 > dir.eocd - 1)
      BY <2>1, <2>8 DEF Zip!PointsOutside, Zip!zip64EOCDLen, Zip!zip64LocatorLen
    <3>2. dir.eocd - 1 = at + 4 /\ at \in Nat
      <4>1. dir.eocd = EndAt(layout) - 1
        BY <1>1
      <4>2. EndAt(layout) = at + 6 /\ at \in Nat
        BY <2>2, <2>6
      <4> HIDE DEF at
      <4>3. QED
        BY <4>1, <4>2
    <3> HIDE DEF cell, at
    <3>3. QED
      BY <2>8, <3>1, <3>2
  <2>10. UNCHANGED <<storage, layout, archive, tail>> /\ step' = "record"
    BY <2>1 DEF Zip!GoOn
  <2>11. /\ DOMAIN dir' = DOMAIN Zip!NoDir /\ dir'.eocd = dir.eocd /\ dir'.rec = at
    <3>1. dir' = [dir EXCEPT !.rec = at]
      BY <2>1, <2>9
    <3>2. DOMAIN dir = {"eocd", "records", "size", "offset", "end", "rec"}
      BY <1>1 DEF Zip!NoDir
    <3> HIDE DEF at
    <3>3. DOMAIN dir' = DOMAIN dir /\ dir'.eocd = dir.eocd /\ dir'.rec = at
      BY <3>1, <3>2
    <3>4. QED
      BY <1>1, <3>3
  <2>12. TailInv'
    BY <1>1, <2>10, SameArchive DEF TailInv
  <2>13. DirInv'
    BY <1>1, <2>6, <2>10, <2>11, <2>12 DEF DirInv, DataLen, EndAt, Zip!NoDir
  <2>14. (Zip!ZipListingExact)'
    BY <2>10 DEF Zip!ZipListingExact
  <2>15. QED
    BY <2>10, <2>13, <2>14 DEF ZipInv
<1>5. QED
  <2>1. EndAt(layout) \in Nat
    BY ZipFacts
  <2>2. ~ (dir.eocd < 1) => dir.eocd >= 1
    BY <1>1, <2>1
  <2>3. QED
    BY <1>2, <1>3, <1>4, <2>2 DEF Zip!ReadLocator, Zip!zip64LocatorLen

\* The zip64 record, or what of it was read, says where the directory begins, or zero.
LEMMA ReadRecordStep ==
    ASSUME ZipInv, Zip!ReadRecord
    PROVE  ZipInv'
<1>1. /\ step = "record" /\ TailInv /\ layout.flaw # "torn" /\ layout.zip64
      /\ dir.rec = DataLen(layout) + Len(layout.sizes)
      /\ DOMAIN dir = DOMAIN Zip!NoDir
  BY DEF Zip!ReadRecord, ZipInv, DirInv
<1>2. CASE Zip!Fail
  BY <1>2, ZipGoesOn DEF Zip!Fail, Zip!GoOn
<1>3. CASE \E out \in Zip!ReadAtCached(dir.rec, 4) :
              /\ dir' = [dir EXCEPT !.records = out.data[2].x[1], !.size = out.data[3].x[1],
                                    !.offset = out.data[4].x[1], !.end = dir.rec]
              /\ Zip!GoOn("check")
              /\ UNCHANGED <<tail, ranges>>
  <2> DEFINE off == dir.rec
  <2>1. PICK out \in Zip!ReadAtCached(off, 4) :
              /\ dir' = [dir EXCEPT !.records = out.data[2].x[1], !.size = out.data[3].x[1],
                                    !.offset = out.data[4].x[1], !.end = dir.rec]
              /\ Zip!GoOn("check")
              /\ UNCHANGED <<tail, ranges>>
    BY <1>3
  <2>2. off \in Nat /\ off + 4 <= Zip!size
    <3> DEFINE at == DataLen(layout) + Len(layout.sizes)
               e == EndAt(layout)
    <3>1. at \in Nat /\ e \in Nat /\ e <= Zip!size /\ Zip!size \in Nat /\ e = at + 6
      BY <1>1, EndInside
    <3>2. off = at
      BY <1>1
    <3> HIDE DEF at, e, off
    <3>3. QED
      BY <3>1, <3>2
  <2>3. out.data[4] = archive[off + 4] \/ out.data[4] = Zip!Zero
    <3> HIDE DEF off
    <3>1. \A i \in 1..4 : out.data[i] = archive[off + i] \/ out.data[i] = Zip!Zero
      <4>1. 4 \in Nat /\ 4 > 0
        OBVIOUS
      <4>2. QED
        BY <1>1, <2>2, <4>1, CachedIs, Zenon
    <3>2. QED
      BY <3>1
  <2>4. archive[off + 4].x[1] = DataLen(layout)
    BY <1>1, RecordsAre
  <2>5. out.data[4].x[1] \in {0, DataLen(layout)}
    BY <2>3, <2>4, ZeroIs
  <2>6. UNCHANGED <<storage, layout, archive>> /\ step' = "check"
    BY <2>1 DEF Zip!GoOn
  <2>7. DOMAIN dir' = DOMAIN Zip!NoDir /\ dir'.offset \in {0, DataLen(layout)}
    <3> DEFINE x2 == out.data[2].x[1]
               x3 == out.data[3].x[1]
               x4 == out.data[4].x[1]
    <3>1. dir' = [dir EXCEPT !.records = x2, !.size = x3, !.offset = x4, !.end = dir.rec]
      BY <2>1
    <3>2. DOMAIN dir = {"eocd", "records", "size", "offset", "end", "rec"}
      BY <1>1 DEF Zip!NoDir
    <3> HIDE DEF x2, x3, x4
    <3>3. DOMAIN dir' = DOMAIN dir /\ dir'.offset = x4
      BY <3>1, <3>2
    <3>4. QED
      BY <1>1, <2>5, <3>3 DEF x4
  <2>8. DirInv'
    BY <2>6, <2>7 DEF DirInv, DataLen, Zip!NoDir
  <2>9. (Zip!ZipListingExact)'
    BY <2>6 DEF Zip!ZipListingExact
  <2>10. QED
    BY <2>6, <2>8, <2>9 DEF ZipInv
<1>4. QED
  BY <1>2, <1>3 DEF Zip!ReadRecord, Zip!zip64EOCDLen

\* Where the entry after e begins, or the directory.
NextAt(l, e) == IF e = 1 /\ Len(l.sizes) = 2 THEN Zip!Offset(l, 2) ELSE DataLen(l)

\* The records of the directory that are in the archive.
LEMMA FilesAre ==
    ASSUME ZipInv
    PROVE  Zip!Files = {Zip!Cell("cd", <<e, Zip!Declared(layout, e)>>) : e \in 1..Len(layout.sizes)}
<1> DEFINE d == DataLen(layout)
           n == Len(layout.sizes)
           F(e) == Zip!Cell("cd", <<e, Zip!Declared(layout, e)>>)
<1>1. layout \in Zip!Layouts /\ archive = Zip!Archive(layout)
  BY DEF ZipInv
<1>2. d \in Nat /\ n \in Nat /\ Zip!size = Len(archive) /\ d + n <= Zip!size /\ Zip!size \in Nat
  <2>1. /\ d \in Nat /\ n \in Nat /\ Zip!size = Len(archive) /\ Zip!size \in Nat
        /\ layout.comment \in 0..2
        /\ EndAt(layout) = d + n + (IF layout.zip64 THEN 6 ELSE 1)
        /\ Zip!size = IF layout.flaw = "torn" THEN EndAt(layout) - 1
                      ELSE EndAt(layout) + layout.comment
    BY ZipFacts
  <2> HIDE DEF d, n
  <2>2. QED
    BY <2>1
<1>3. \A i \in 1..n : archive[d + i] = Zip!Directory(layout)[i]
  BY <1>1, ArchiveIs, Zenon
<1>4. \A i \in 1..Zip!size : archive[i].t = "cd" <=> i \in (d + 1)..(d + n)
  BY <1>1, <1>2, KindsAre
<1>5. \A i \in 1..n : \E e \in 1..n : archive[d + i] = F(e)
  BY <1>1, <1>3, DirectoryIs, Zenon
<1>6. \A e \in 1..n : \E i \in 1..n : archive[d + i] = F(e)
  BY <1>1, <1>3, DirectoryIs, Zenon
<1> HIDE DEF d, n, F
<1>7. \A i \in (d + 1)..(d + n) : i \in 1..Zip!size /\ i - d \in 1..n /\ d + (i - d) = i
  BY <1>2
<1>8. \A i \in 1..n : d + i \in (d + 1)..(d + n)
  BY <1>2
<1>9. Zip!Files = {archive[i] : i \in (d + 1)..(d + n)}
  <2>1. {j \in 1..Zip!size : archive[j].t = "cd"} = (d + 1)..(d + n)
    BY <1>4, <1>7
  <2>2. QED
    BY <2>1 DEF Zip!Files
<1>10. {archive[i] : i \in (d + 1)..(d + n)} = {F(e) : e \in 1..n}
  <2>1. ASSUME NEW i \in (d + 1)..(d + n) PROVE \E e \in 1..n : archive[i] = F(e)
    BY <1>5, <1>7
  <2>2. ASSUME NEW e \in 1..n PROVE \E i \in (d + 1)..(d + n) : archive[i] = F(e)
    BY <1>6, <1>8
  <2>3. QED
    BY <2>1, <2>2
<1>11. QED
  BY <1>9, <1>10 DEF n, F

\* An entry is between its header and the next one, or the directory.
LEMMA PlaceIs ==
    ASSUME ZipInv, NEW e \in 1..Len(layout.sizes)
    PROVE  Zip!Place(e) = [name |-> e, start |-> Zip!Offset(layout, e), end |-> NextAt(layout, e)]
<1> DEFINE d == DataLen(layout)
           n == Len(layout.sizes)
           o == Zip!Offset(layout, e)
           H(x) == Zip!Cell("lfh", <<x>>)
<1>1. layout \in Zip!Layouts /\ archive = Zip!Archive(layout)
  BY DEF ZipInv
<1>2. /\ d \in Nat /\ n \in Nat /\ Zip!size = Len(archive) /\ d + n <= Zip!size /\ Zip!size \in Nat
      /\ n \in 0..2
  <2>1. /\ d \in Nat /\ n \in Nat /\ Zip!size = Len(archive) /\ Zip!size \in Nat
        /\ layout.comment \in 0..2
        /\ EndAt(layout) = d + n + (IF layout.zip64 THEN 6 ELSE 1)
        /\ Zip!size = IF layout.flaw = "torn" THEN EndAt(layout) - 1
                      ELSE EndAt(layout) + layout.comment
    BY ZipFacts
  <2>2. n \in 0..2
    BY <1>1, LayoutIs
  <2> HIDE DEF d, n
  <2>3. QED
    BY <2>1, <2>2
<1>3. \A i \in 1..d : archive[i] = Zip!DataArea(layout)[i]
  BY <1>1, ArchiveIs, Zenon
<1>4. \A x \in 1..n : Zip!Offset(layout, x) \in 0..(d - 1)
  BY <1>1, DataIs, Zenon
<1>5. \A x \in 1..n : archive[Zip!Offset(layout, x) + 1] = H(x)
  <2>1. \A x \in 1..n : Zip!DataArea(layout)[Zip!Offset(layout, x) + 1] = H(x)
    BY <1>1, DataIs, Zenon
  <2>2. \A x \in 1..n : Zip!Offset(layout, x) + 1 \in 1..d
    <3> HIDE DEF d, n
    <3>1. QED
      BY <1>2, <1>4
  <2>3. QED
    BY <1>3, <2>1, <2>2, Zenon
<1>6. \A i \in 1..Zip!size : archive[i].t = "lfh" => \E x \in 1..n : i = Zip!Offset(layout, x) + 1
  <2>1. \A i \in 1..Zip!size : archive[i].t = "lfh" => i \in 1..d
    BY <1>1, <1>2, KindsAre
  <2>2. \A i \in 1..d : Zip!DataArea(layout)[i].t = "lfh" =>
                           \E x \in 1..n : i = Zip!Offset(layout, x) + 1
    BY <1>1, DataIs, Zenon
  <2> HIDE DEF d, n
  <2>3. QED
    BY <1>3, <2>1, <2>2
<1>7. \A i \in 1..Zip!size : archive[i].t = "cd" <=> i \in (d + 1)..(d + n)
  BY <1>1, <1>2, KindsAre
<1>8. \A x : H(x).t = "lfh" /\ H(x).x[1] = x
  BY CellIs
<1>9. n = 2 => Zip!Offset(layout, 1) < Zip!Offset(layout, 2)
  BY <1>1, DataIs
<1> DEFINE s == CHOOSE i \in 1..Zip!size : archive[i] = H(e)
<1> HIDE DEF H
<1>10. s = o + 1
  <2>1. o + 1 \in 1..Zip!size /\ archive[o + 1] = H(e)
    <3> HIDE DEF d, n
    <3>1. e \in 1..n
      BY DEF n
    <3>2. QED
      BY <1>2, <1>4, <1>5, <3>1
  <2>2. ASSUME NEW i \in 1..Zip!size, archive[i] = H(e) PROVE i = o + 1
    <3>1. PICK x \in 1..n : i = Zip!Offset(layout, x) + 1
      BY <1>6, <1>8, <2>2
    <3>2. archive[i] = H(x)
      BY <1>5, <3>1
    <3>3. x = e
      <4>1. H(x) = H(e) /\ H(x).x[1] = x /\ H(e).x[1] = e
        BY <1>8, <2>2, <3>2, Zenon
      <4>2. QED
        BY <4>1, Zenon
    <3>4. QED
      BY <3>1, <3>3
  <2> HIDE DEF o
  <2>3. QED
    BY <2>1, <2>2
<1> HIDE DEF s
<1> DEFINE after == {i \in (s + 1)..Zip!size : archive[i].t \in {"lfh", "cd"}}
           m == NextAt(layout, e) + 1
<1>11. m \in after /\ \A i \in after : m <= i
  <2>1. e \in 1..n /\ o \in Nat /\ o < d /\ n >= 1
    <3>1. e \in 1..n
      OBVIOUS
    <3>2. o \in 0..(d - 1)
      BY <1>4, <3>1
    <3> HIDE DEF d, n, o
    <3>3. QED
      BY <1>2, <3>1, <3>2
  <2>2. CASE e = 1 /\ n = 2
    <3> DEFINE q == Zip!Offset(layout, 2)
    <3>1. m = q + 1 /\ q \in Nat /\ q < d /\ o < q
      <4>1. q \in 0..(d - 1)
        BY <1>4, <2>2
      <4>2. o < q
        BY <1>9, <2>2
      <4>3. NextAt(layout, e) = q
        BY <2>2 DEF NextAt
      <4> HIDE DEF d, n, o, q
      <4>4. QED
        BY <1>2, <4>1, <4>2, <4>3
    <3>2. archive[q + 1].t = "lfh"
      <4>1. 2 \in 1..n
        BY <2>2
      <4>2. QED
        BY <1>5, <1>8, <4>1
    <3>3. m \in after
      <4>1. q + 1 \in (s + 1)..Zip!size
        <5> HIDE DEF d, n, o, q
        <5>1. QED
          BY <1>2, <1>10, <2>1, <3>1
      <4> HIDE DEF m, q
      <4>2. QED
        BY <3>1, <3>2, <4>1
    <3>4. ASSUME NEW i \in after PROVE m <= i
      <4>1. i \in (s + 1)..Zip!size /\ archive[i].t \in {"lfh", "cd"} /\ s \in Nat /\ i \in 1..Zip!size
        <5>1. i \in (s + 1)..Zip!size /\ archive[i].t \in {"lfh", "cd"}
          OBVIOUS
        <5> HIDE DEF after, o
        <5>2. QED
          BY <1>2, <1>10, <2>1, <5>1
      <4>2. CASE archive[i].t = "cd"
        <5>1. i \in (d + 1)..(d + n)
          BY <1>7, <4>1, <4>2
        <5> HIDE DEF d, n, o, q, m
        <5>2. QED
          BY <1>2, <3>1, <5>1
      <4>3. CASE archive[i].t = "lfh"
        <5>1. PICK x \in 1..n : i = Zip!Offset(layout, x) + 1
          BY <1>6, <4>1, <4>3
        <5>2. x = 1 \/ x = 2
          BY <2>2
        <5>3. x # 1
          <6>1. x = 1 => i = o + 1
            BY <2>2, <5>1
          <6> HIDE DEF o
          <6>2. QED
            BY <1>10, <2>1, <4>1, <6>1
        <5>4. i = q + 1
          BY <5>1, <5>2, <5>3
        <5> HIDE DEF q, m
        <5>5. QED
          BY <3>1, <5>4
      <4>4. QED
        BY <4>1, <4>2, <4>3
    <3>5. QED
      BY <3>3, <3>4
  <2>3. CASE ~ (e = 1 /\ n = 2)
    <3>1. m = d + 1
      BY <2>3 DEF NextAt
    <3>2. m \in after
      <4>1. d + 1 \in (s + 1)..Zip!size /\ d + 1 \in 1..Zip!size /\ d + 1 \in (d + 1)..(d + n)
        <5> HIDE DEF d, n, o
        <5>1. QED
          BY <1>2, <1>10, <2>1
      <4>2. archive[d + 1].t = "cd"
        BY <1>7, <4>1
      <4> HIDE DEF m, d
      <4>3. QED
        BY <3>1, <4>1, <4>2
    <3>3. ASSUME NEW i \in after PROVE m <= i
      <4>1. i \in (s + 1)..Zip!size /\ archive[i].t \in {"lfh", "cd"} /\ s \in Nat /\ i \in 1..Zip!size
        <5>1. i \in (s + 1)..Zip!size /\ archive[i].t \in {"lfh", "cd"}
          OBVIOUS
        <5> HIDE DEF after, o
        <5>2. QED
          BY <1>2, <1>10, <2>1, <5>1
      <4>2. CASE archive[i].t = "cd"
        <5>1. i \in (d + 1)..(d + n)
          BY <1>7, <4>1, <4>2
        <5> HIDE DEF d, n, o, m
        <5>2. QED
          BY <1>2, <3>1, <5>1
      <4>3. CASE archive[i].t = "lfh"
        <5>1. PICK x \in 1..n : i = Zip!Offset(layout, x) + 1
          BY <1>6, <4>1, <4>3
        <5>2. Zip!Offset(layout, x) > o
          <6>1. Zip!Offset(layout, x) \in 0..(d - 1)
            BY <1>4
          <6> HIDE DEF o, d
          <6>2. QED
            BY <1>2, <1>10, <2>1, <4>1, <5>1, <6>1
        <5>3. FALSE
          <6>1. x = e \/ (n = 2 /\ x = 1 /\ e = 2)
            <7> HIDE DEF n
            <7>1. QED
              BY <1>2, <2>1, <2>3
          <6>2. Zip!Offset(layout, 1) \in Nat /\ Zip!Offset(layout, x) \in Nat
            <7>1. Zip!Offset(layout, x) \in 0..(d - 1)
              BY <1>4
            <7>2. 1 \in 1..n
              BY <2>1
            <7>3. Zip!Offset(layout, 1) \in 0..(d - 1)
              BY <1>4, <7>2
            <7> HIDE DEF d
            <7>4. QED
              BY <1>2, <7>1, <7>3
          <6>3. QED
            BY <1>9, <2>1, <5>2, <6>1, <6>2
        <5>4. QED
          BY <5>3
      <4>4. QED
        BY <4>1, <4>2, <4>3
    <3>4. QED
      BY <3>2, <3>3
  <2>4. QED
    BY <2>2, <2>3
<1>12. (CHOOSE i \in after : \A j \in after : i <= j) = m
  <2>1. \A i \in after : i \in Int
    <3>1. s \in Int /\ \A i \in after : i \in (s + 1)..Zip!size
      <4>1. o \in 0..(d - 1)
        BY <1>4
      <4> HIDE DEF o, d
      <4>2. QED
        BY <1>2, <1>10, <4>1
    <3> HIDE DEF after
    <3>2. QED
      BY <1>2, <3>1
  <2> HIDE DEF after, m
  <2>2. QED
    BY <1>11, <2>1
<1>13. Zip!Place(e) = [name |-> e, start |-> s - 1,
                       end |-> (CHOOSE i \in after : \A j \in after : i <= j) - 1]
  BY Zenon DEF Zip!Place, s, H
<1>14. s - 1 = o /\ m - 1 = NextAt(layout, e)
  <2>1. o \in 0..(d - 1) /\ NextAt(layout, e) \in Int
    <3>1. o \in 0..(d - 1)
      BY <1>4
    <3>2. n = 2 => Zip!Offset(layout, 2) \in 0..(d - 1)
      BY <1>4
    <3>3. QED
      BY <1>2, <3>1, <3>2 DEF NextAt
  <2> HIDE DEF o, d
  <2>2. QED
    BY <1>2, <1>10, <2>1
<1>15. QED
  BY <1>12, <1>13, <1>14

\* Entries that are neither at one place nor outside the data are at their offsets, and each
\* range ends where the next one begins.
LEMMA RangesAre ==
    ASSUME ZipInv, ~ Zip!BadOffsets, dir.offset \in {0, DataLen(layout)},
           NEW e \in 1..Len(layout.sizes)
    PROVE  /\ Zip!Declared(layout, e) = Zip!Offset(layout, e)
           /\ Zip!RangeEnd(Zip!Offset(layout, e)) = NextAt(layout, e)
<1> DEFINE d == DataLen(layout)
           n == Len(layout.sizes)
           D(x) == Zip!Declared(layout, x)
           F(x) == Zip!Cell("cd", <<x, D(x)>>)
           o(x) == Zip!Offset(layout, x)
<1>1. layout \in Zip!Layouts
  BY DEF ZipInv
<1>2. d \in Nat /\ n \in 0..2
  BY <1>1, DataIs, LayoutIs
<1>3. \A x \in 1..n : o(x) \in 0..(d - 1)
  BY <1>1, DataIs, Zenon
<1>4. n = 2 => o(1) < o(2)
  BY <1>1, DataIs
<1>5. Zip!Files = {F(x) : x \in 1..n}
  BY FilesAre
<1>6. \A x : F(x).x[1] = x /\ F(x).x[2] = D(x)
  BY CellIs
<1>7. \A x \in 1..n : ~ (D(x) >= dir.offset)
  <2> HIDE DEF F, D
  <2>1. \A f \in Zip!Files : ~ (f.x[2] >= dir.offset)
    BY DEF Zip!BadOffsets
  <2>2. QED
    BY <1>5, <1>6, <2>1
<1>8. \A x, y \in 1..n : x # y => D(x) # D(y)
  <2> HIDE DEF F, D
  <2>1. \A f, g \in Zip!Files : f # g => f.x[2] # g.x[2]
    BY DEF Zip!BadOffsets
  <2>2. \A x, y \in 1..n : x # y => F(x) # F(y)
    BY <1>6
  <2>3. QED
    BY <1>5, <1>6, <2>1, <2>2
<1>9. \A x \in 1..n : /\ layout.flaw = "shared" /\ x = 2 => D(x) = o(1)
                      /\ layout.flaw = "outside" /\ x = 1 => D(x) = d
                      /\ layout.flaw = "shared" /\ x # 2 => D(x) = o(x)
                      /\ layout.flaw = "outside" /\ x # 1 => D(x) = o(x)
                      /\ layout.flaw \notin {"shared", "outside"} => D(x) = o(x)
  BY DEF Zip!Declared, DataLen
<1> HIDE DEF d, D, F
<1>10. e \in 1..n /\ 1 \in 1..n
  <2>1. e \in 1..n
    OBVIOUS
  <2> HIDE DEF n
  <2>2. QED
    BY <1>2, <2>1
<1> HIDE DEF n
<1>11. \A x \in 1..n : D(x) \in Nat
  <2>1. \A x \in 1..n : o(x) \in Nat
    BY <1>2, <1>3
  <2>2. QED
    BY <1>2, <1>9, <1>10, <2>1
<1>12. dir.offset = d
  <2>1. ~ (D(1) >= dir.offset) /\ D(1) \in Nat
    BY <1>7, <1>10, <1>11
  <2>2. dir.offset \in {0, d}
    BY DEF d
  <2>3. QED
    BY <2>1, <2>2
<1>13. \A x \in 1..n : D(x) = o(x)
  <2>1. layout.flaw # "outside"
    <3>1. layout.flaw = "outside" => D(1) = d
      BY <1>9, <1>10
    <3>2. QED
      BY <1>2, <1>7, <1>10, <1>12, <3>1
  <2>2. ASSUME NEW x \in 1..n, layout.flaw = "shared", x = 2 PROVE FALSE
    <3>1. D(2) = o(1) /\ D(1) = o(1)
      BY <1>9, <1>10, <2>2
    <3>2. QED
      BY <1>8, <1>10, <2>2, <3>1
  <2>3. QED
    BY <1>9, <2>1, <2>2
<1> DEFINE later == {f.x[2] : f \in Zip!Files} \cap (o(e) + 1)..(dir.offset)
<1>14. {f.x[2] : f \in Zip!Files} = {o(x) : x \in 1..n}
  BY <1>5, <1>6, <1>13
<1>15. Zip!RangeEnd(o(e)) = IF later = {} THEN dir.offset
                            ELSE CHOOSE q \in later : \A p \in later : q <= p
  BY Zenon DEF Zip!RangeEnd
<1>16. later = {q \in {o(x) : x \in 1..n} : q \in (o(e) + 1)..d}
  BY <1>12, <1>14
<1> HIDE DEF later
<1>17. CASE e = 1 /\ n = 2
  <2>1. 1 \in 1..n /\ 2 \in 1..n /\ o(1) \in 0..(d - 1) /\ o(2) \in 0..(d - 1) /\ o(1) < o(2)
        /\ \A x \in 1..n : x = 1 \/ x = 2
    BY <1>3, <1>4, <1>17
  <2> DEFINE a == o(1)
             b == o(2)
  <2>2. {o(x) : x \in 1..n} = {a, b}
    BY <2>1, Zenon
  <2>3. o(e) = a /\ NextAt(layout, e) = b
    BY <1>17 DEF NextAt, n
  <2>4. a \in 0..(d - 1) /\ b \in 0..(d - 1) /\ a < b
    BY <2>1
  <2> HIDE DEF a, b, o
  <2>5. later = {b}
    BY <1>2, <1>16, <2>2, <2>3, <2>4
  <2>6. (CHOOSE q \in later : \A p \in later : q <= p) = b
    BY <1>2, <2>4, <2>5
  <2>7. Zip!RangeEnd(o(e)) = b
    BY <1>15, <2>5, <2>6
  <2>8. QED
    BY <1>10, <1>13, <2>3, <2>7 DEF D, o
<1>18. CASE ~ (e = 1 /\ n = 2)
  <2>1. ASSUME NEW q \in later PROVE FALSE
    <3>1. PICK x \in 1..n : q = o(x) /\ q \in (o(e) + 1)..d
      BY <1>16
    <3>2. x = e \/ (n = 2 /\ x = 1 /\ e = 2)
      BY <1>2, <1>10, <1>18
    <3>3. o(x) \in 0..(d - 1) /\ o(e) \in 0..(d - 1)
      BY <1>3, <1>10
    <3>4. ~ (o(x) > o(e))
      BY <1>2, <1>4, <3>2, <3>3
    <3> HIDE DEF o
    <3>5. QED
      BY <1>2, <3>1, <3>3, <3>4
  <2>2. NextAt(layout, e) = d
    BY <1>18 DEF NextAt, n, d
  <2>3. QED
    BY <1>10, <1>12, <1>13, <1>15, <2>1, <2>2 DEF D
<1>19. QED
  BY <1>17, <1>18

\* What is listed is what is there.
LEMMA ParseStep ==
    ASSUME ZipInv, Zip!ParseDirectory
    PROVE  ZipInv'
<1>1. CASE Zip!Fail
  BY <1>1, ZipGoesOn DEF Zip!Fail, Zip!GoOn
<1>2. CASE /\ ~ Zip!BadOffsets
           /\ ranges' = {[name |-> f.x[1], start |-> f.x[2], end |-> Zip!RangeEnd(f.x[2])] :
                            f \in Zip!Files}
           /\ Zip!GoOn("listed")
           /\ UNCHANGED <<tail, dir>>
  <2> DEFINE n == Len(layout.sizes)
             D(x) == Zip!Declared(layout, x)
             F(x) == Zip!Cell("cd", <<x, D(x)>>)
             P(f) == [name |-> f.x[1], start |-> f.x[2], end |-> Zip!RangeEnd(f.x[2])]
  <2>1. dir.offset \in {0, DataLen(layout)}
    BY DEF Zip!ParseDirectory, ZipInv, DirInv
  <2>2. Zip!Files = {F(x) : x \in 1..n}
    BY FilesAre
  <2>3. ranges' = {P(f) : f \in Zip!Files}
    BY <1>2
  <2>4. \A x : F(x).x[1] = x /\ F(x).x[2] = D(x)
    BY CellIs
  <2>5. ASSUME NEW x \in 1..n PROVE P(F(x)) = Zip!Place(x)
    <3>1. /\ D(x) = Zip!Offset(layout, x)
          /\ Zip!RangeEnd(Zip!Offset(layout, x)) = NextAt(layout, x)
      BY <1>2, <2>1, RangesAre
    <3>2. Zip!Place(x) = [name |-> x, start |-> Zip!Offset(layout, x), end |-> NextAt(layout, x)]
      BY PlaceIs
    <3>3. F(x).x[1] = x /\ F(x).x[2] = D(x)
      BY <2>4, Zenon
    <3> HIDE DEF F, D
    <3>4. P(F(x)) = [name |-> x, start |-> D(x), end |-> Zip!RangeEnd(D(x))]
      BY <3>3, Zenon
    <3>5. QED
      BY <3>1, <3>2, <3>4, Zenon
  <2>6. ranges' = {Zip!Place(x) : x \in 1..n}
    <3> HIDE DEF F, D, P, n
    <3>1. QED
      BY <2>2, <2>3, <2>5
  <2>7. UNCHANGED <<storage, layout, archive, tail, dir>> /\ step' = "listed"
    BY <1>2 DEF Zip!GoOn
  <2>8. \A x : Zip!Place(x)' = Zip!Place(x)
    BY <2>7, SameArchive
  <2>9. (Zip!ZipListingExact)'
    <3>1. ranges' = {Zip!Place(x)' : x \in 1..n}
      BY <2>6, <2>8
    <3>2. QED
      BY <2>7, <3>1 DEF Zip!ZipListingExact
  <2>10. DirInv'
    BY <2>7 DEF ZipInv, DirInv, Zip!NoDir
  <2>11. QED
    BY <2>7, <2>9, <2>10 DEF ZipInv
<1>3. QED
  BY <1>1, <1>2 DEF Zip!ParseDirectory

\* Listing an archive keeps ZipInv.
LEMMA ZipTask == StepSpec => [](task = "zip" => ZipInv)
<1>1. StepInit => (task = "zip" => ZipInv)
  <2>1. SUFFICES ASSUME Zip!Init PROVE ZipInv
    BY DEF StepInit
  <2>2. QED
    BY <2>1 DEF Zip!Init, ZipInv, DirInv, Zip!ZipListingExact
<1>2. (task = "zip" => ZipInv) /\ [StepNext]_stepVars => (task = "zip" => ZipInv)'
  <2>1. SUFFICES ASSUME task = "zip" => ZipInv, [StepNext]_stepVars, task' = "zip"
                 PROVE  ZipInv'
    OBVIOUS
  <2>2. task' = task /\ (Zip!Next \/ UNCHANGED zipVars)
    BY <2>1 DEF StepNext, stepVars
  <2>3. ZipInv
    BY <2>1, <2>2
  <2>4. CASE UNCHANGED zipVars
    <3>1. UNCHANGED <<storage, layout, archive, step, tail, dir, ranges>>
      BY <2>4 DEF zipVars
    <3>2. TailInv => TailInv'
      BY <3>1, SameArchive DEF TailInv
    <3>3. DirInv'
      BY <2>3, <3>1, <3>2 DEF ZipInv, DirInv, DataLen, EndAt, Zip!NoDir
    <3>4. \A x : Zip!Place(x)' = Zip!Place(x)
      BY <3>1, SameArchive
    <3>5. (Zip!ZipListingExact)'
      BY <2>3, <3>1, <3>4 DEF ZipInv, Zip!ZipListingExact
    <3>6. QED
      BY <2>3, <3>1, <3>3, <3>5 DEF ZipInv
  <2>5. CASE Zip!Listed
    BY <2>4, <2>5 DEF Zip!Listed, Zip!vars, zipVars
  <2>6. CASE Zip!CheckDirectory
    BY <2>3, <2>6, ZipGoesOn DEF Zip!CheckDirectory, Zip!Fail, Zip!GoOn
  <2>7. CASE Zip!ReadHead
    BY <2>3, <2>7, ZipGoesOn DEF Zip!ReadHead, Zip!Fail, Zip!GoOn
  <2>8. QED
    BY <2>2, <2>3, <2>4, <2>5, <2>6, <2>7, ReadTailStep, ReadLocatorStep, ReadRecordStep, ParseStep
    DEF Zip!Next
<1>3. QED
  BY <1>1, <1>2, PTL DEF StepSpec

\* ListEntries names every entry of an archive at the place where it is, or fails, however much
\* of the tail is read, wherever reads break off, and with counts that wrap at any width
\* (readZipDirectory, GetZipPartRanges).
THEOREM ZipListingsExact == StepSpec => []ZipListingExact
<1>1. (task = "zip" => ZipInv) => ZipListingExact
  BY DEF ZipInv, ZipListingExact
<1>2. QED
  BY <1>1, ZipTask, PTL
=============================================================================
