-------------------------- MODULE TsyncStoreProofs --------------------------
(***************************************************************************)
(* Proofs about TsyncStore for every set of version IDs, file keys and     *)
(* tree nodes, every tree shape and every number of runs; and, at the end, *)
(* about TsyncRestore: a restore beside another client's operation always  *)
(* finds its parts, as long as its version is kept.                        *)
(***************************************************************************)
EXTENDS TsyncRestore, TLAPS

-----------------------------------------------------------------------------
(* Trees. *)

\* A walk (walkCollect) visits its roots and, below every node it can read, the
\* node's subdirectories.
LEMMA ReachClosed ==
    ASSUME NEW R \in SUBSET Hashes, NEW T
    PROVE  /\ R \subseteq Reach(R, T)
           /\ Reach(R, T) \subseteq Hashes
           /\ Closed(Reach(R, T), T)
<1>1. R \subseteq Reach(R, T) /\ Reach(R, T) \subseteq Hashes
  BY DEF Reach
<1>2. ASSUME NEW h \in Reach(R, T) \cap T, NEW g \in Sub[h]
      PROVE  g \in Reach(R, T)
  <2>1. h \in Hashes /\ g \in Hashes
    BY <1>2, TreeAssumption DEF Reach
  <2>2. ASSUME NEW H \in SUBSET Hashes, R \subseteq H, Closed(H, T)
        PROVE  g \in H
    <3>1. h \in H
      BY <2>2, <1>2 DEF Reach
    <3> QED
      BY <3>1, <2>2, <1>2 DEF Closed
  <2> QED
    BY <2>1, <2>2 DEF Reach
<1> QED
  BY <1>1, <1>2 DEF Closed

\* It visits nothing else: any set with that property contains what it visits.
LEMMA ReachLeast ==
    ASSUME NEW R, NEW T, NEW H \in SUBSET Hashes, R \subseteq H, Closed(H, T)
    PROVE  Reach(R, T) \subseteq H
BY DEF Reach

\* The nodes and keys of a snapshot are nodes and keys.
LEMMA ContentType ==
    ASSUME NEW r \in Hashes
    PROVE  /\ r \in Nodes(r)
           /\ Nodes(r) \subseteq Hashes
           /\ Content(r) \subseteq Keys
<1>1. r \in Nodes(r) /\ Nodes(r) \subseteq Hashes
  BY ReachClosed DEF Nodes
<1> QED
  BY <1>1, TreeAssumption DEF Content, KeysIn

\* When the walk over all versions succeeds, it has visited every node of every version,
\* although it only reads the nodes ".tsync" holds.
LEMMA WalkComplete ==
    ASSUME NEW m \in Metadata, ~ WalkFails(m), NEW v \in Live(m)
    PROVE  /\ m.versions[v] \in Hashes
           /\ Nodes(m.versions[v]) \subseteq Visited(m)
           /\ Content(m.versions[v]) \subseteq KeysIn(Visited(m) \cap m.trees)
<1>1. Roots(m) \in SUBSET Hashes /\ m.versions[v] \in Roots(m)
  BY DEF Roots, Live, Metadata
<1>2. /\ Roots(m) \subseteq Visited(m)
      /\ Visited(m) \subseteq Hashes
      /\ Closed(Visited(m), m.trees)
  BY <1>1, ReachClosed DEF Visited
<1>3. Closed(Visited(m), Hashes)
  BY <1>2 DEF WalkFails, Closed
<1>4. Nodes(m.versions[v]) \subseteq Visited(m)
  BY <1>1, <1>2, <1>3, ReachLeast DEF Nodes
<1>5. Nodes(m.versions[v]) \subseteq Visited(m) \cap m.trees
  BY <1>4 DEF WalkFails
<1> QED
  BY <1>1, <1>4, <1>5 DEF Content, KeysIn

-----------------------------------------------------------------------------
(* Metadata an operation computes. *)

\* The contents of every version of m are recorded in m.
Consistent(m) == \A v \in Live(m) : Content(m.versions[v]) \subseteq Recorded(m)

\* A record with fields of the right kind is metadata.
LEMMA MetadataIntro ==
    ASSUME NEW e \in BOOLEAN, NEW x \in BOOLEAN,
           NEW vs \in [VersionIDs -> Hashes \cup {NoTree}],
           NEW t \in SUBSET Hashes, NEW f \in [Keys -> Nat]
    PROVE  [exists |-> e, extra |-> x, versions |-> vs, trees |-> t, files |-> f] \in Metadata
BY DEF Metadata

\* Removing a version from the map keeps the rest of the metadata as it is.
LEMMA RemoveVersion ==
    ASSUME NEW m \in Metadata, NEW v \in VersionIDs, Consistent(m)
    PROVE  LET rest == [m EXCEPT !.versions[v] = NoTree]
           IN  /\ rest \in Metadata
               /\ rest.files = m.files
               /\ Consistent(rest)
<1> DEFINE rest == [m EXCEPT !.versions[v] = NoTree]
<1>1. rest \in Metadata /\ rest.files = m.files
  BY DEF Metadata
<1>2. Live(rest) \subseteq Live(m) /\ \A w \in Live(rest) : rest.versions[w] = m.versions[w]
  BY DEF Metadata, Live
<1>3. Recorded(rest) = Recorded(m)
  BY DEF Metadata, Recorded
<1> QED
  BY <1>1, <1>2, <1>3 DEF Consistent

\* Pruning (DeleteVersion, GC) after a successful walk keeps every record a version
\* needs and changes none.
LEMMA PruneSafe ==
    ASSUME NEW m \in Metadata, ~ WalkFails(m), Consistent(m)
    PROVE  /\ Prune(m) \in Metadata
           /\ Consistent(Prune(m))
           /\ \A k \in Recorded(Prune(m)) : k \in Recorded(m) /\ Prune(m).files[k] = m.files[k]
<1> DEFINE P == Prune(m)
<1>1. P \in Metadata /\ P.versions = m.versions
  BY DEF Prune, Metadata, Absent
<1>2. \A k \in Keys : P.files[k] = IF k \in KeysIn(Visited(m) \cap m.trees) THEN m.files[k]
                                                                             ELSE Absent
  BY DEF Prune, Metadata
<1>3. ASSUME NEW v \in Live(P), NEW k \in Content(P.versions[v])
      PROVE  k \in Recorded(P)
  <2>1. v \in Live(m)
    BY <1>1 DEF Live
  <2>2. k \in KeysIn(Visited(m) \cap m.trees) /\ k \in Recorded(m)
    BY <2>1, <1>1, WalkComplete DEF Consistent
  <2> QED
    BY <2>2, <1>2 DEF Recorded
<1>4. \A k \in Recorded(P) : k \in Recorded(m) /\ P.files[k] = m.files[k]
  BY <1>2 DEF Recorded
<1> HIDE DEF P
<1> QED
  BY <1>1, <1>3, <1>4 DEF Consistent, P

\* What RunBackup is going to write: old records are kept as they are, the records of
\* the new snapshot are old ones or carry the run's password, and every version, old
\* or new, has all its records.
LEMMA NewMetadataSafe ==
    ASSUME NEW m \in Metadata, NEW v \in VersionIDs, NEW r \in Hashes,
           NEW p \in Nat, p # Absent, NEW s \in BOOLEAN, Consistent(m)
    PROVE  LET new == NewMetadata(m, v, r, p, s)
           IN  /\ new \in Metadata
               /\ Consistent(new)
               /\ \A k \in Recorded(new) \cap Recorded(m) : new.files[k] = m.files[k]
               /\ \A k \in Recorded(new) \ Recorded(m) : k \in Content(r) /\ new.files[k] = p
               /\ Content(r) \subseteq Recorded(new)
<1> DEFINE b   == Base(m, s)
           new == NewMetadata(m, v, r, p, s)
<1>1. Nodes(r) \subseteq Hashes /\ Content(r) \subseteq Keys
  BY ContentType
<1>2. /\ b \in Metadata
      /\ Consistent(b)
      /\ \A k \in Keys : b.files[k] \in {m.files[k], Absent}
  <2>1. EmptyMetadata \in Metadata /\ Live(EmptyMetadata) = {}
    BY DEF EmptyMetadata, Metadata, Live, Absent
  <2>2. \A k \in Keys : EmptyMetadata.files[k] = Absent
    BY DEF EmptyMetadata
  <2>3. Consistent(EmptyMetadata)
    BY <2>1 DEF Consistent
  <2> QED
    BY <2>1, <2>2, <2>3 DEF Base
<1>3. \A k \in Keys : RecordOf(m, k, p) \in Nat /\ RecordOf(m, k, p) # Absent
  BY DEF RecordOf, Metadata
<1>4. \A k \in Keys : new.files[k] = IF k \in Content(r) THEN RecordOf(m, k, p)
                                                         ELSE b.files[k]
  BY DEF NewMetadata
<1>5. new.versions = [b.versions EXCEPT ![v] = r]
  BY DEF NewMetadata
<1> HIDE DEF b
<1>6. new \in Metadata
  <2>1. new.trees \in SUBSET Hashes
    BY <1>1, <1>2 DEF NewMetadata, b, Metadata
  <2>2. new.files \in [Keys -> Nat]
    <3>1. \A k \in Keys : b.files[k] \in Nat
      BY <1>2 DEF Metadata
    <3> QED
      BY <3>1, <1>3 DEF NewMetadata, b
  <2>3. new.versions \in [VersionIDs -> Hashes \cup {NoTree}]
    BY <1>2, <1>5 DEF Metadata
  <2>4. /\ new.exists \in BOOLEAN /\ new.extra \in BOOLEAN
        /\ new = [exists |-> new.exists, extra |-> new.extra, versions |-> new.versions,
                  trees |-> new.trees, files |-> new.files]
    BY DEF NewMetadata
  <2> HIDE DEF new
  <2> QED
    BY <2>1, <2>2, <2>3, <2>4, MetadataIntro
<1> HIDE DEF new
<1>7. Recorded(b) \subseteq Recorded(new) /\ Content(r) \subseteq Recorded(new)
  BY <1>1, <1>3, <1>4 DEF Recorded
<1>8. ASSUME NEW w \in Live(new) PROVE Content(new.versions[w]) \subseteq Recorded(new)
  <2>1. CASE w = v
    BY <2>1, <1>2, <1>5, <1>7 DEF Metadata
  <2>2. CASE w # v
    BY <2>2, <1>2, <1>5, <1>7 DEF Metadata, Live, Consistent
  <2> QED
    BY <2>1, <2>2
<1>9. /\ \A k \in Recorded(new) \cap Recorded(m) : new.files[k] = m.files[k]
      /\ \A k \in Recorded(new) \ Recorded(m) : k \in Content(r) /\ new.files[k] = p
  BY <1>2, <1>4 DEF Recorded, RecordOf
<1> QED
  BY <1>6, <1>7, <1>8, <1>9 DEF Consistent, new

-----------------------------------------------------------------------------
(* The inductive invariant, one lemma per operation's steps. *)

\* A new store, empty or initialised by another client, has no versions and no records.
LEMMA InitEmpty ==
    ASSUME Init
    PROVE  meta \in Metadata /\ Live(meta) = {} /\ Recorded(meta) = {}
<1>0. EmptyMetadata \in Metadata
  BY DEF EmptyMetadata, Metadata, Absent
<1> DEFINE fresh == [EmptyMetadata EXCEPT !.exists = TRUE]
           other == [fresh EXCEPT !.extra = TRUE]
<1>1. /\ fresh \in Metadata
      /\ fresh.versions = EmptyMetadata.versions
      /\ fresh.files = EmptyMetadata.files
  BY <1>0 DEF Metadata
<1> HIDE DEF fresh
<1>2. /\ other \in Metadata
      /\ other.versions = EmptyMetadata.versions
      /\ other.files = EmptyMetadata.files
  BY <1>1 DEF Metadata
<1>3. meta = EmptyMetadata \/ meta = other
  BY DEF Init, fresh
<1> HIDE DEF other
<1>4. /\ EmptyMetadata.versions = [v \in VersionIDs |-> NoTree]
      /\ EmptyMetadata.files = [k \in Keys |-> Absent]
  BY DEF EmptyMetadata
<1> QED
  BY <1>0, <1>2, <1>3, <1>4 DEF Live, Recorded

\* An empty store, or one another client has initialised, satisfies StoreInv.
LEMMA StoreInvInit == Init => StoreInv
<1> SUFFICES ASSUME Init PROVE StoreInv
  OBVIOUS
<1>1. EmptyMetadata \in Metadata
  BY DEF EmptyMetadata, Metadata, Absent
<1>2. meta \in Metadata /\ Live(meta) = {} /\ Recorded(meta) = {}
  BY InitEmpty
<1>3. op \in Operation /\ op.kind = "none" /\ op.phase = "idle"
  BY <1>1 DEF Init, Idle, Operation, Absent
<1>4. TypeOK
  BY <1>2, <1>3 DEF Init, TypeOK, Absent
<1>5. RecordsBacked /\ ContentsRecorded
  BY <1>2 DEF RecordsBacked, ContentsRecorded
<1>6. OpSafe
  BY <1>3 DEF OpSafe
<1> QED
  BY <1>4, <1>5, <1>6 DEF StoreInv

\* Whatever else a step did, an operation that has ended holds nothing back.
LEMMA IdleSafe == ASSUME op' = Idle
                  PROVE  /\ op' \in Operation
                         /\ OpSafe'
                         /\ op'.phase \notin {"upload", "drain"}
<1>1. EmptyMetadata \in Metadata
  BY DEF EmptyMetadata, Metadata, Absent
<1>2. op' \in Operation /\ op'.kind = "none" /\ op'.phase = "idle"
  BY <1>1 DEF Idle, Operation, Absent
<1> QED
  BY <1>2 DEF OpSafe

\* RunBackup begins with uploads that touch no recorded part, and with metadata whose
\* records will all have parts once those uploads are done.
LEMMA StartBackupSafe ==
    ASSUME StoreInv, NEW v \in VersionIDs, NEW r \in Hashes, NEW s \in BOOLEAN,
           StartBackup(v, r, s)
    PROVE  StoreInv'
<1> DEFINE p == NextPassword
           new == NewMetadata(meta, v, r, p, s)
           dels == IF s THEN Dropped(meta, new) ELSE {}
<1>1. meta \in Metadata /\ Consistent(meta) /\ p \in Nat /\ p # Absent
  BY DEF StoreInv, TypeOK, ContentsRecorded, Consistent, NextPassword, Absent
<1>2. /\ new \in Metadata
      /\ Consistent(new)
      /\ \A k \in Recorded(new) \cap Recorded(meta) : new.files[k] = meta.files[k]
      /\ \A k \in Recorded(new) \ Recorded(meta) : k \in Content(r) /\ new.files[k] = p
      /\ Content(r) \subseteq Recorded(new)
  BY <1>1, NewMetadataSafe
<1>3. Content(r) \subseteq Keys
  BY ContentType
<1> HIDE DEF new, p
<1>4. /\ op' = [kind |-> IF s THEN "single" ELSE "backup", phase |-> "upload", pass |-> p,
                todo |-> Content(r) \ Recorded(meta), target |-> new, dels |-> dels,
                clean |-> TRUE]
      /\ UNCHANGED <<meta, parts, faulty, damaged>>
      /\ runs' = runs + 1
  BY DEF StartBackup, Begin, new, p
<1>5. TypeOK'
  <2>1. dels \in SUBSET Keys /\ Content(r) \ Recorded(meta) \in SUBSET Keys
    BY <1>3 DEF Dropped, Recorded
  <2>2. op' \in Operation
    BY <2>1, <1>1, <1>2, <1>4 DEF Operation
  <2> QED
    BY <2>2, <1>1, <1>4 DEF StoreInv, TypeOK
<1>6. RecordsBacked' /\ ContentsRecorded'
  BY <1>4 DEF StoreInv, RecordsBacked, ContentsRecorded
<1>7. OpSafe'
  <2>1. op'.kind # "none" /\ op'.phase = "upload" /\ op'.todo = Content(r) \ Recorded(meta)
        /\ op'.target = new /\ op'.pass = p /\ op'.dels = dels
    BY <1>4
  <2>2. \A k \in op'.todo : new.files[k] = p
    BY <2>1, <1>2
  <2>3. \A k \in Recorded(new) \ op'.todo : parts[k] = new.files[k]
    BY <2>1, <1>2 DEF StoreInv, RecordsBacked
  <2>4. dels \cap Recorded(new) = {}
    BY DEF Dropped
  <2>5. op'.todo \cap Recorded(meta) = {}
    BY <2>1
  <2> QED
    BY <2>1, <2>2, <2>3, <2>4, <2>5, <1>2, <1>4 DEF OpSafe, Consistent
<1> QED
  BY <1>5, <1>6, <1>7 DEF StoreInv

\* An upload (uploadPart), successful or not, replaces no part a record names.
LEMMA UploadPartSafe ==
    ASSUME StoreInv, NEW k \in Keys, UploadPart(k) \/ UploadFails(k)
    PROVE  StoreInv'
<1>1. /\ k \in op.todo /\ op.phase \in {"upload", "drain"} /\ k \notin Recorded(meta)
      /\ meta' = meta /\ op \in Operation /\ op.pass \in Nat /\ op.pass # Absent
      /\ parts \in [Keys -> Nat]
      /\ parts' \in {parts, [parts EXCEPT ![k] = op.pass]}
  BY DEF StoreInv, OpSafe, TypeOK, UploadPart, UploadFails, Operation
<1>2. op' \in Operation /\ op'.pass = op.pass /\ op'.phase \in {"upload", "drain"}
  <2>1. CASE UploadPart(k)
    <3>1. op' = [op EXCEPT !.todo = op.todo \ {k}]
      BY <2>1 DEF UploadPart
    <3> QED
      BY <3>1, <1>1 DEF Operation
  <2>2. CASE UploadFails(k)
    <3> DEFINE o == [op EXCEPT !.todo = op.todo \ {k}]
    <3>1. o \in Operation /\ o.pass = op.pass
      BY <1>1 DEF Operation
    <3>2. op' = [o EXCEPT !.phase = "drain"]
      BY <2>2 DEF UploadFails
    <3> HIDE DEF o
    <3> QED
      BY <3>1, <3>2 DEF Operation
  <2> QED
    BY <2>1, <2>2
<1>3. TypeOK'
  BY <1>1, <1>2 DEF StoreInv, TypeOK, UploadPart, UploadFails
<1>4. RecordsBacked' /\ ContentsRecorded'
  BY <1>1 DEF StoreInv, RecordsBacked, ContentsRecorded, Recorded
<1>5. CASE UploadPart(k)
  <2>1. /\ parts' = [parts EXCEPT ![k] = op.pass]
        /\ op'.todo = op.todo \ {k} /\ op'.phase = op.phase /\ op'.kind = op.kind
        /\ op'.target = op.target /\ op'.dels = op.dels
    BY <1>5, <1>1 DEF UploadPart, Operation
  <2>2. ASSUME op.phase = "upload", NEW j \in Recorded(op.target) \ op'.todo
        PROVE  parts'[j] = op.target.files[j]
    BY <2>1, <2>2, <1>1 DEF StoreInv, OpSafe, Recorded
  <2> QED
    BY <2>1, <2>2, <1>1, <1>2, <1>3, <1>4 DEF StoreInv, OpSafe
<1>6. CASE UploadFails(k)
  <2>1. op'.phase = "drain" /\ op'.kind = op.kind /\ op'.todo \subseteq op.todo
    BY <1>6, <1>1 DEF UploadFails, Operation
  <2> QED
    BY <2>1, <1>1, <1>3, <1>4 DEF StoreInv, OpSafe
<1> QED
  BY <1>5, <1>6

\* DeleteVersion begins with metadata that records every file of the versions it keeps.
LEMMA StartDeleteSafe ==
    ASSUME StoreInv, NEW v \in VersionIDs, StartDelete(v)
    PROVE  StoreInv'
<1> DEFINE rest == [meta EXCEPT !.versions[v] = NoTree]
           new  == Prune(rest)
<1>1. meta \in Metadata /\ Consistent(meta)
  BY DEF StoreInv, TypeOK, ContentsRecorded, Consistent
<1>2. rest \in Metadata /\ rest.files = meta.files /\ Consistent(rest) /\ ~ WalkFails(rest)
  BY <1>1, RemoveVersion DEF StartDelete
<1> HIDE DEF rest
<1>3. /\ new \in Metadata
      /\ Consistent(new)
      /\ \A k \in Recorded(new) : k \in Recorded(meta) /\ new.files[k] = meta.files[k]
  BY <1>2, PruneSafe DEF Recorded
<1>4. /\ op' = [kind |-> "delete", phase |-> "write", pass |-> Absent, todo |-> {},
                target |-> new, dels |-> Dropped(meta, new), clean |-> TRUE]
      /\ UNCHANGED <<meta, parts, runs, faulty, damaged>>
  BY DEF StartDelete, Begin, rest
<1> HIDE DEF new
<1>5. TypeOK'
  <2>1. op' \in Operation
    BY <1>3, <1>4 DEF Operation, Dropped, Recorded, Absent
  <2> QED
    BY <2>1, <1>4 DEF StoreInv, TypeOK
<1>6. RecordsBacked' /\ ContentsRecorded'
  BY <1>4 DEF StoreInv, RecordsBacked, ContentsRecorded
<1>7. OpSafe'
  <2>1. \A k \in Recorded(new) : parts[k] = new.files[k]
    BY <1>3 DEF StoreInv, RecordsBacked
  <2>2. Dropped(meta, new) \cap Recorded(new) = {}
    BY DEF Dropped
  <2> QED
    BY <2>1, <2>2, <1>3, <1>4 DEF OpSafe, Consistent
<1> QED
  BY <1>5, <1>6, <1>7 DEF StoreInv

\* GC begins with metadata that records every file of every version.
LEMMA StartGCSafe ==
    ASSUME StoreInv, StartGC
    PROVE  StoreInv'
<1> DEFINE new  == Prune(meta)
<1>1. meta \in Metadata /\ Consistent(meta) /\ ~ WalkFails(meta)
  BY DEF StoreInv, TypeOK, ContentsRecorded, Consistent, StartGC
<1>2. /\ new \in Metadata
      /\ Consistent(new)
      /\ \A k \in Recorded(new) : k \in Recorded(meta) /\ new.files[k] = meta.files[k]
  BY <1>1, PruneSafe
<1>3. /\ op' = [kind |-> "gc", phase |-> IF new = meta THEN "list" ELSE "write",
                pass |-> Absent, todo |-> {}, target |-> new, dels |-> {}, clean |-> TRUE]
      /\ UNCHANGED <<meta, parts, runs, faulty, damaged>>
  BY DEF StartGC, Begin
<1> HIDE DEF new
<1>4. TypeOK'
  <2>1. op' \in Operation
    BY <1>2, <1>3 DEF Operation, Absent
  <2> QED
    BY <2>1, <1>3 DEF StoreInv, TypeOK
<1>5. RecordsBacked' /\ ContentsRecorded'
  BY <1>3 DEF StoreInv, RecordsBacked, ContentsRecorded
<1>6. OpSafe'
  <2>1. \A k \in Recorded(new) : parts[k] = new.files[k]
    BY <1>2 DEF StoreInv, RecordsBacked
  <2> QED
    BY <2>1, <1>2, <1>3 DEF OpSafe, Consistent
<1> QED
  BY <1>4, <1>5, <1>6 DEF StoreInv

\* The rewrite of ".tsync", done or failed, commits metadata whose records all have parts.
LEMMA WriteMetadataSafe ==
    ASSUME StoreInv, WriteMetadata \/ WriteMetadataFails
    PROVE  StoreInv'
<1>1. /\ op \in Operation /\ op.target \in Metadata /\ meta \in Metadata
      /\ parts' = parts /\ runs' = runs /\ damaged' = damaged /\ faulty' \in BOOLEAN
  BY DEF StoreInv, TypeOK, Operation, WriteMetadata, WriteMetadataFails
<1>2. /\ \A k \in Recorded(op.target) : parts[k] = op.target.files[k]
      /\ \A v \in Live(op.target) :
            Content(op.target.versions[v]) \subseteq Recorded(op.target)
      /\ op.dels \cap Recorded(op.target) = {}
      /\ op.kind # "none"
  <2>1. ReadyToWrite
    BY DEF WriteMetadata, WriteMetadataFails
  <2>2. op.todo = {} /\ op.phase \in {"upload", "write"}
    BY <2>1 DEF ReadyToWrite, StoreInv, OpSafe
  <2> QED
    BY <2>2 DEF StoreInv, OpSafe
<1>3. meta' \in {meta, op.target}
  BY DEF WriteMetadata, WriteMetadataFails
<1>4. meta' \in Metadata /\ RecordsBacked' /\ ContentsRecorded'
  BY <1>1, <1>2, <1>3 DEF StoreInv, RecordsBacked, ContentsRecorded
<1>5. CASE WriteMetadata
  <2>1. /\ op' \in Operation /\ op'.phase \in {"list", "delete"} /\ op'.kind = op.kind
        /\ op'.target = op.target /\ op'.dels = op.dels /\ meta' = op.target
    BY <1>1, <1>5 DEF WriteMetadata, Operation
  <2>2. TypeOK'
    BY <2>1, <1>1, <1>4 DEF StoreInv, TypeOK
  <2>3. OpSafe'
    BY <2>1, <1>2 DEF OpSafe
  <2> QED
    BY <2>2, <2>3, <1>4 DEF StoreInv
<1>6. CASE WriteMetadataFails
  <2>1. op' \in Operation /\ OpSafe' /\ op'.phase \notin {"upload", "drain"}
    BY <1>6, IdleSafe DEF WriteMetadataFails
  <2>2. TypeOK'
    BY <2>1, <1>1, <1>4 DEF StoreInv, TypeOK
  <2> QED
    BY <2>1, <2>2, <1>4 DEF StoreInv
<1> QED
  BY <1>5, <1>6

\* The orphans GC finds in storage have no record.
LEMMA ListPartsSafe ==
    ASSUME StoreInv, ListParts
    PROVE  StoreInv'
<1> DEFINE dels == {k \in Keys : parts[k] # Absent} \ Recorded(op.target)
<1>1. /\ op \in Operation /\ op.phase = "list" /\ Recorded(op.target) = Recorded(meta)
      /\ UNCHANGED <<meta, parts, runs, faulty, damaged>>
  BY DEF StoreInv, TypeOK, OpSafe, ListParts
<1>2. /\ op' \in Operation /\ op'.phase = "delete" /\ op'.kind = op.kind /\ op'.dels = dels
  <2> DEFINE o == [op EXCEPT !.phase = "delete"]
  <2>1. o \in Operation /\ o.phase = "delete" /\ o.kind = op.kind
    BY <1>1 DEF Operation
  <2>2. op' = [o EXCEPT !.dels = dels]
    BY DEF ListParts
  <2>3. dels \in SUBSET Keys
    OBVIOUS
  <2> HIDE DEF o, dels
  <2> QED
    BY <2>1, <2>2, <2>3 DEF Operation
<1>3. TypeOK' /\ RecordsBacked' /\ ContentsRecorded'
  BY <1>1, <1>2 DEF StoreInv, TypeOK, RecordsBacked, ContentsRecorded
<1>4. OpSafe'
  BY <1>1, <1>2 DEF StoreInv, OpSafe
<1> QED
  BY <1>3, <1>4 DEF StoreInv

\* Deleting an orphan (or failing to) takes no part a record names.
LEMMA DeletePartSafe ==
    ASSUME StoreInv, NEW k \in Keys, DeletePart(k) \/ DeletePartFails(k)
    PROVE  StoreInv'
<1>1. /\ op \in Operation /\ op.phase = "delete" /\ op.kind # "none"
      /\ k \in op.dels /\ op.dels \cap Recorded(meta) = {}
      /\ meta' = meta /\ runs' = runs /\ damaged' = damaged /\ faulty' \in BOOLEAN
      /\ parts \in [Keys -> Nat] /\ parts' \in {parts, [parts EXCEPT ![k] = Absent]}
  BY DEF StoreInv, TypeOK, OpSafe, DeletePart, DeletePartFails
<1>2. /\ op' \in Operation /\ op'.phase = "delete" /\ op'.kind = op.kind
      /\ op'.dels \subseteq op.dels
  <2> DEFINE o == [op EXCEPT !.dels = op.dels \ {k}]
  <2>1. o \in Operation /\ o.phase = "delete" /\ o.kind = op.kind /\ o.dels \subseteq op.dels
    BY <1>1 DEF Operation
  <2>2. op' = o \/ op' = [o EXCEPT !.clean = FALSE]
    BY DEF DeletePart, DeletePartFails
  <2> HIDE DEF o
  <2> QED
    BY <2>1, <2>2 DEF Operation
<1>3. TypeOK'
  BY <1>1, <1>2 DEF StoreInv, TypeOK, Absent
<1>4. RecordsBacked' /\ ContentsRecorded'
  BY <1>1 DEF StoreInv, RecordsBacked, ContentsRecorded, Recorded
<1>5. OpSafe'
  BY <1>1, <1>2 DEF OpSafe
<1> QED
  BY <1>3, <1>4, <1>5 DEF StoreInv

\* An operation that returns, is abandoned or crashes leaves the store as it is.
LEMMA EndSafe ==
    ASSUME StoreInv, Return \/ Stop
    PROVE  StoreInv'
<1>1. op' = Idle /\ UNCHANGED <<meta, parts, runs, damaged>> /\ faulty' \in BOOLEAN
  BY DEF StoreInv, TypeOK, Return, Stop
<1>2. op' \in Operation /\ OpSafe' /\ op'.phase \notin {"upload", "drain"}
  BY <1>1, IdleSafe
<1> QED
  BY <1>1, <1>2 DEF StoreInv, TypeOK, RecordsBacked, ContentsRecorded

\* A lost tree node takes no record.
LEMMA DamageSafe ==
    ASSUME StoreInv, NEW h \in Hashes, Damage(h)
    PROVE  StoreInv'
<1>1. meta \in Metadata /\ UNCHANGED <<parts, op, runs, faulty>> /\ damaged' = TRUE
  BY DEF StoreInv, TypeOK, Damage
<1>2. meta' \in Metadata /\ meta'.versions = meta.versions /\ meta'.files = meta.files
  BY <1>1 DEF Damage, Metadata
<1>3. Live(meta') = Live(meta) /\ Recorded(meta') = Recorded(meta)
  BY <1>2 DEF Live, Recorded
<1>4. TypeOK'
  BY <1>1, <1>2 DEF StoreInv, TypeOK
<1>5. RecordsBacked' /\ ContentsRecorded'
  BY <1>1, <1>2, <1>3 DEF StoreInv, RecordsBacked, ContentsRecorded
<1>6. OpSafe'
  BY <1>1, <1>3 DEF StoreInv, OpSafe
<1> QED
  BY <1>4, <1>5, <1>6 DEF StoreInv

\* Every step of every operation, every failure and every crash preserves StoreInv.
LEMMA StoreInvNext == StoreInv /\ [Next]_vars => StoreInv'
<1> SUFFICES ASSUME StoreInv, [Next]_vars PROVE StoreInv'
  OBVIOUS
<1>1. ASSUME NEW v \in VersionIDs, NEW r \in Hashes, NEW s \in BOOLEAN, StartBackup(v, r, s)
      PROVE  StoreInv'
  BY <1>1, StartBackupSafe
<1>2. ASSUME NEW k \in Keys, UploadPart(k) \/ UploadFails(k)
      PROVE  StoreInv'
  BY <1>2, UploadPartSafe
<1>3. ASSUME NEW v \in VersionIDs, StartDelete(v)
      PROVE  StoreInv'
  BY <1>3, StartDeleteSafe
<1>4. CASE StartGC
  BY <1>4, StartGCSafe
<1>5. CASE WriteMetadata \/ WriteMetadataFails
  BY <1>5, WriteMetadataSafe
<1>6. CASE ListParts
  BY <1>6, ListPartsSafe
<1>7. ASSUME NEW k \in Keys, DeletePart(k) \/ DeletePartFails(k)
      PROVE  StoreInv'
  BY <1>7, DeletePartSafe
<1>8. CASE Return \/ Stop
  BY <1>8, EndSafe
<1>9. ASSUME NEW h \in Hashes, Damage(h)
      PROVE  StoreInv'
  BY <1>9, DamageSafe
<1>10. CASE UNCHANGED vars
  BY <1>10 DEF vars, StoreInv, TypeOK, RecordsBacked, ContentsRecorded, OpSafe
<1> QED
  BY <1>1, <1>2, <1>3, <1>4, <1>5, <1>6, <1>7, <1>8, <1>9, <1>10 DEF Next

-----------------------------------------------------------------------------
(* Theorems. *)

\* StoreInv holds throughout every behaviour of the store.
THEOREM StoreInvariant == Spec => []StoreInv
<1>1. Init => StoreInv
  BY StoreInvInit
<1>2. StoreInv /\ [Next]_vars => StoreInv'
  BY StoreInvNext
<1> QED
  BY <1>1, <1>2, PTL DEF Spec

\* The state of the store and of the operation in progress is always well typed.
THEOREM TypeCorrect == Spec => []TypeOK
<1>1. StoreInv => TypeOK
  BY DEF StoreInv
<1> QED
  BY <1>1, StoreInvariant, PTL

\* Every committed record names a part that is in storage under the record's password.
THEOREM RecordsAlwaysBacked == Spec => []RecordsBacked
<1>1. StoreInv => RecordsBacked
  BY DEF StoreInv
<1> QED
  BY <1>1, StoreInvariant, PTL

\* Every file of every committed version always has its record.
THEOREM ContentsAlwaysRecorded == Spec => []ContentsRecorded
<1>1. StoreInv => ContentsRecorded
  BY DEF StoreInv
<1> QED
  BY <1>1, StoreInvariant, PTL

-----------------------------------------------------------------------------
(* Whole versions: their trees are complete, a backup or a GC leaves the   *)
(* others as they were, and the store implements VersionStore.  All rest   *)
(* on StoreInv and on what the operation in progress is about to write.    *)

\* Every version of m has its whole tree in m.
Whole(m) == \A v \in Live(m) : Nodes(m.versions[v]) \subseteq m.trees

\* What an operation may make of the versions vs: add one, replace them all by one, remove
\* one, or keep them.
Changes(kind, vs, ws) ==
    \/ \E v \in VersionIDs, r \in Hashes :
          /\ vs[v] = NoTree
          /\ \/ kind = "backup" /\ ws = [vs EXCEPT ![v] = r]
             \/ kind = "single" /\ ws = [w \in VersionIDs |-> IF w = v THEN r ELSE NoTree]
    \/ \E v \in VersionIDs :
          /\ vs[v] # NoTree
          /\ kind = "delete" /\ ws = [vs EXCEPT ![v] = NoTree]
    \/ kind = "gc" /\ ws = vs

\* The metadata an operation is about to write is whole, unless ".tsync" was damaged,
\* and changes the versions of ".tsync" as the operation should.
TargetKeeps ==
    op.phase \in {"upload", "write"} =>
        /\ ~ damaged => Whole(op.target)
        /\ Changes(op.kind, meta.versions, op.target.versions)

VersionsInv == StoreInv /\ TreesComplete /\ TargetKeeps

-----------------------------------------------------------------------------
(* Metadata an operation computes. *)

\* Pruning (DeleteVersion, GC) after a successful walk drops no node of a version.
LEMMA PruneWhole ==
    ASSUME NEW m \in Metadata, ~ WalkFails(m)
    PROVE  Whole(Prune(m)) /\ Prune(m).versions = m.versions
<1>1. Prune(m).versions = m.versions /\ Prune(m).trees = m.trees \cap Visited(m)
  BY DEF Prune, Metadata
<1>2. ASSUME NEW v \in Live(m)
      PROVE  Nodes(m.versions[v]) \subseteq m.trees \cap Visited(m)
  BY WalkComplete DEF WalkFails
<1>3. Live(Prune(m)) = Live(m)
  BY <1>1 DEF Live
<1> QED
  BY <1>1, <1>2, <1>3 DEF Whole

\* RunBackup adds the whole tree of the new version, and copies the others unless it is
\* in SingleVersionMode.
LEMMA NewMetadataWhole ==
    ASSUME NEW m \in Metadata, NEW v \in VersionIDs, NEW r \in Hashes, NEW p,
           NEW s \in BOOLEAN, m.versions[v] = NoTree
    PROVE  LET new == NewMetadata(m, v, r, p, s)
           IN  /\ Whole(m) => Whole(new)
               /\ Changes(IF s THEN "single" ELSE "backup", m.versions, new.versions)
<1> DEFINE b   == Base(m, s)
           new == NewMetadata(m, v, r, p, s)
<1>1. b.versions \in [VersionIDs -> Hashes \cup {NoTree}] /\ (Whole(m) => Whole(b))
  <2>1. EmptyMetadata.versions = [w \in VersionIDs |-> NoTree]
    BY DEF EmptyMetadata
  <2>2. Whole(EmptyMetadata)
    BY <2>1 DEF Whole, Live
  <2> QED
    BY <2>1, <2>2 DEF Base, Metadata
<1>2. new.versions = [b.versions EXCEPT ![v] = r] /\ new.trees = b.trees \cup Nodes(r)
  BY DEF NewMetadata
<1>3. b.versions = IF s THEN [w \in VersionIDs |-> NoTree] ELSE m.versions
  BY DEF Base, EmptyMetadata
<1> HIDE DEF b, new
<1>4. ASSUME Whole(m), NEW w \in Live(new)
      PROVE  Nodes(new.versions[w]) \subseteq new.trees
  <2>1. CASE w = v
    BY <1>1, <1>2, <2>1 DEF Live
  <2>2. CASE w # v
    BY <1>1, <1>2, <1>4, <2>2 DEF Live, Whole
  <2> QED
    BY <2>1, <2>2
<1>5. new.versions = IF s THEN [w \in VersionIDs |-> IF w = v THEN r ELSE NoTree]
                          ELSE [m.versions EXCEPT ![v] = r]
  BY <1>2, <1>3
<1>6. Changes(IF s THEN "single" ELSE "backup", m.versions, new.versions)
  BY <1>5 DEF Changes
<1> QED
  BY <1>4, <1>6 DEF Whole, new

-----------------------------------------------------------------------------
(* One lemma per kind of step. *)

\* An empty store has no versions, and no operation is about to write.
LEMMA VersionsInvInit == Init => VersionsInv
<1> SUFFICES ASSUME Init PROVE VersionsInv
  OBVIOUS
<1>1. Live(meta) = {}
  BY InitEmpty
<1>2. op.phase = "idle"
  BY DEF Init, Idle
<1> QED
  BY <1>1, <1>2, StoreInvInit DEF VersionsInv, TreesComplete, TargetKeeps

\* RunBackup begins: the metadata it will write has the old versions and the new one.
LEMMA StartBackupKeeps ==
    ASSUME VersionsInv, NEW v \in VersionIDs, NEW r \in Hashes, NEW s \in BOOLEAN,
           StartBackup(v, r, s)
    PROVE  VersionsInv'
<1> DEFINE new == NewMetadata(meta, v, r, NextPassword, s)
<1>1. StoreInv' /\ meta \in Metadata
  BY StartBackupSafe DEF VersionsInv, StoreInv, TypeOK
<1>2. meta.versions[v] = NoTree /\ UNCHANGED <<meta, damaged>>
  BY DEF StartBackup
<1>3. /\ Whole(meta) => Whole(new)
      /\ Changes(IF s THEN "single" ELSE "backup", meta.versions, new.versions)
  BY <1>1, <1>2, NewMetadataWhole
<1> HIDE DEF new
<1>4. op'.target = new /\ op'.phase = "upload" /\ op'.kind = IF s THEN "single" ELSE "backup"
  BY DEF StartBackup, Begin, new
<1>5. TreesComplete' /\ (~ damaged => Whole(meta))
  BY <1>2 DEF VersionsInv, TreesComplete, Whole
<1>6. TargetKeeps'
  BY <1>2, <1>3, <1>4, <1>5 DEF TargetKeeps
<1> QED
  BY <1>1, <1>5, <1>6 DEF VersionsInv

\* DeleteVersion begins: the walk over the versions it keeps has found all their nodes.
LEMMA StartDeleteKeeps ==
    ASSUME VersionsInv, NEW v \in VersionIDs, StartDelete(v)
    PROVE  VersionsInv'
<1> DEFINE rest == [meta EXCEPT !.versions[v] = NoTree]
<1>1. StoreInv' /\ meta \in Metadata
  BY StartDeleteSafe DEF VersionsInv, StoreInv, TypeOK
<1>2. rest \in Metadata /\ rest.versions = [meta.versions EXCEPT ![v] = NoTree]
  BY <1>1 DEF Metadata
<1>3. ~ WalkFails(rest) /\ UNCHANGED <<meta, damaged>> /\ meta.versions[v] # NoTree
  BY DEF StartDelete
<1>4. op'.target = Prune(rest) /\ op'.kind = "delete"
  BY DEF StartDelete, Begin
<1> HIDE DEF rest
<1>5. Whole(op'.target) /\ op'.target.versions = rest.versions
  BY <1>2, <1>3, <1>4, PruneWhole
<1>6. Changes(op'.kind, meta.versions, op'.target.versions)
  BY <1>2, <1>3, <1>4, <1>5 DEF Changes
<1> QED
  BY <1>1, <1>3, <1>5, <1>6 DEF VersionsInv, TreesComplete, TargetKeeps

\* GC begins: the walk over every version has found all their nodes.
LEMMA StartGCKeeps ==
    ASSUME VersionsInv, StartGC
    PROVE  VersionsInv'
<1>1. StoreInv' /\ meta \in Metadata
  BY StartGCSafe DEF VersionsInv, StoreInv, TypeOK
<1>2. /\ ~ WalkFails(meta) /\ UNCHANGED <<meta, damaged>>
      /\ op'.target = Prune(meta) /\ op'.kind = "gc"
  BY DEF StartGC, Begin
<1>3. Whole(op'.target) /\ Changes(op'.kind, meta.versions, op'.target.versions)
  BY <1>1, <1>2, PruneWhole DEF Changes
<1> QED
  BY <1>1, <1>2, <1>3 DEF VersionsInv, TreesComplete, TargetKeeps

\* The rewrite of ".tsync", done or failed, leaves it as it is or commits whole versions.
LEMMA WriteMetadataKeeps ==
    ASSUME VersionsInv, WriteMetadata \/ WriteMetadataFails
    PROVE  VersionsInv'
<1>1. StoreInv'
  BY WriteMetadataSafe DEF VersionsInv
<1>2. meta' \in {meta, op.target} /\ damaged' = damaged /\ op.phase \in {"upload", "write"}
  BY DEF WriteMetadata, WriteMetadataFails, ReadyToWrite
<1>3. TreesComplete'
  BY <1>2 DEF VersionsInv, TreesComplete, TargetKeeps, Whole
<1>4. op'.phase \notin {"upload", "write"}
  BY DEF WriteMetadata, WriteMetadataFails, Idle, VersionsInv, StoreInv, TypeOK, Operation
<1> QED
  BY <1>1, <1>3, <1>4 DEF VersionsInv, TargetKeeps

\* Uploads, part deletions, ends, crashes and damage change no version, and no metadata
\* that is about to be written.
LEMMA OtherStepsKeep ==
    ASSUME VersionsInv, StoreInv', meta'.versions = meta.versions,
           damaged' = TRUE \/ (damaged' = damaged /\ meta' = meta),
           op'.phase \in {"upload", "write"} =>
               op.phase = op'.phase /\ op'.target = op.target /\ op'.kind = op.kind
    PROVE  VersionsInv'
<1>1. TreesComplete'
  BY DEF VersionsInv, TreesComplete
<1>2. TargetKeeps'
  BY DEF VersionsInv, TargetKeeps
<1> QED
  BY <1>1, <1>2 DEF VersionsInv

\* Every step of every operation, every failure and every crash preserves VersionsInv.
LEMMA VersionsInvNext == VersionsInv /\ [Next]_vars => VersionsInv'
<1> SUFFICES ASSUME VersionsInv, [Next]_vars PROVE VersionsInv'
  OBVIOUS
<1>0. StoreInv' /\ op \in Operation /\ meta \in Metadata
  BY StoreInvNext DEF VersionsInv, StoreInv, TypeOK
<1>1. ASSUME NEW v \in VersionIDs, NEW r \in Hashes, NEW s \in BOOLEAN, StartBackup(v, r, s)
      PROVE  VersionsInv'
  BY <1>1, StartBackupKeeps
<1>2. ASSUME NEW v \in VersionIDs, StartDelete(v)
      PROVE  VersionsInv'
  BY <1>2, StartDeleteKeeps
<1>3. CASE StartGC
  BY <1>3, StartGCKeeps
<1>4. CASE WriteMetadata \/ WriteMetadataFails
  BY <1>4, WriteMetadataKeeps
<1>5. ASSUME NEW k \in Keys, UploadPart(k) \/ UploadFails(k)
      PROVE  VersionsInv'
  <2>1. meta' = meta /\ damaged' = damaged
    BY <1>5 DEF UploadPart, UploadFails
  <2>2. CASE UploadPart(k)
    BY <2>1, <2>2, <1>0, OtherStepsKeep DEF UploadPart, Operation
  <2>3. CASE UploadFails(k)
    <3>1. op'.phase = "drain"
      BY <2>3, <1>0 DEF UploadFails, Operation
    <3> QED
      BY <2>1, <3>1, <1>0, OtherStepsKeep
  <2> QED
    BY <1>5, <2>2, <2>3
<1>6. CASE ListParts
  <2>1. op'.phase = "delete" /\ meta' = meta /\ damaged' = damaged
    BY <1>6, <1>0 DEF ListParts, Operation
  <2> QED
    BY <2>1, <1>0, OtherStepsKeep
<1>7. ASSUME NEW k \in Keys, DeletePart(k) \/ DeletePartFails(k)
      PROVE  VersionsInv'
  <2>1. op'.phase = "delete" /\ meta' = meta /\ damaged' = damaged
    BY <1>7, <1>0 DEF DeletePart, DeletePartFails, Operation
  <2> QED
    BY <2>1, <1>0, OtherStepsKeep
<1>8. CASE Return \/ Stop
  <2>1. op'.phase = "idle" /\ meta' = meta /\ damaged' = damaged
    BY <1>8 DEF Return, Stop, Idle
  <2> QED
    BY <2>1, <1>0, OtherStepsKeep
<1>9. ASSUME NEW h \in Hashes, Damage(h)
      PROVE  VersionsInv'
  <2>1. meta'.versions = meta.versions /\ damaged' = TRUE /\ op' = op
    BY <1>9, <1>0 DEF Damage, Metadata
  <2> QED
    BY <2>1, <1>0, OtherStepsKeep
<1>10. CASE UNCHANGED vars
  <2>1. meta' = meta /\ damaged' = damaged /\ op' = op
    BY <1>10 DEF vars
  <2> QED
    BY <2>1, <1>0, OtherStepsKeep
<1> QED
  BY <1>1, <1>2, <1>3, <1>4, <1>5, <1>6, <1>7, <1>8, <1>9, <1>10 DEF Next

-----------------------------------------------------------------------------
(* Theorems. *)

\* VersionsInv holds throughout every behaviour of the store.
THEOREM VersionsInvariant == Spec => []VersionsInv
<1> QED
  BY VersionsInvInit, VersionsInvNext, PTL DEF Spec

\* Every tree node of every committed version stays in ".tsync", whatever is backed up,
\* deleted or collected (RunBackup, DeleteVersion, GC), unless damage took one.
THEOREM TreesAlwaysComplete == Spec => []TreesComplete
<1>1. VersionsInv => TreesComplete
  BY DEF VersionsInv
<1> QED
  BY <1>1, VersionsInvariant, PTL

\* Only the rewrite of ".tsync" (RunBackup, DeleteVersion, GC) changes versions, and it
\* changes them as its operation should.
LEMMA VersionsStep ==
    ASSUME VersionsInv, [Next]_vars
    PROVE  \/ meta'.versions = meta.versions
           \/ Changes(op.kind, meta.versions, meta'.versions)
<1>1. CASE WriteMetadata \/ WriteMetadataFails
  <2>1. meta' \in {meta, op.target} /\ op.phase \in {"upload", "write"}
    BY <1>1 DEF WriteMetadata, WriteMetadataFails, ReadyToWrite
  <2> QED
    BY <2>1 DEF VersionsInv, TargetKeeps
<1>2. ASSUME NEW h \in Hashes, Damage(h)
      PROVE  meta'.versions = meta.versions
  BY <1>2 DEF Damage, VersionsInv, StoreInv, TypeOK, Metadata
<1>3. \/ WriteMetadata \/ WriteMetadataFails
      \/ \E h \in Hashes : Damage(h)
      \/ meta' = meta
  BY DEF Next, StartBackup, UploadPart, UploadFails, StartDelete, StartGC, ListParts,
         DeletePart, DeletePartFails, Return, Stop, vars
<1> QED
  BY <1>1, <1>2, <1>3

\* No step of a backup without SingleVersionMode, or of a GC, changes or removes a
\* version that was committed (RunBackup's copy of the versions, GC's prune).
THEOREM VersionsAlwaysKept == Spec => KeepsVersions
<1> DEFINE Step == op.kind \in {"backup", "gc"} =>
                       \A v \in Live(meta) : meta'.versions[v] = meta.versions[v]
<1>1. VersionsInv /\ [Next]_vars => [Step]_vars
  <2> SUFFICES ASSUME VersionsInv, Next, op.kind \in {"backup", "gc"}, NEW v \in Live(meta)
               PROVE  meta'.versions[v] = meta.versions[v]
    OBVIOUS
  <2>1. meta.versions \in [VersionIDs -> Hashes \cup {NoTree}]
    BY DEF VersionsInv, StoreInv, TypeOK, Metadata
  <2> QED
    BY <2>1, VersionsStep DEF Changes, Live
<1> QED
  BY <1>1, VersionsInvariant, PTL DEF Spec, KeepsVersions

-----------------------------------------------------------------------------
(* Refinement. *)

\* The versions vs as VersionStore sees them: each with all its files.
View(vs) == [v \in VersionIDs |-> IF vs[v] # NoTree THEN Snapshot(vs[v], Content(vs[v]))
                                                     ELSE NoTree]

\* Every file of every version can be recovered.
LEMMA AllRecoverable ==
    ASSUME StoreInv, NEW v \in Live(meta)
    PROVE  Recoverable(v) = Content(meta.versions[v])
BY DEF StoreInv, RecordsBacked, ContentsRecorded, Recorded, Recoverable

\* Hence the refinement mapping depends on the map of versions only.
LEMMA MappedStore == StoreInv => Abs!vars = <<View(meta.versions)>>
<1> SUFFICES ASSUME StoreInv PROVE Abs!vars = <<View(meta.versions)>>
  OBVIOUS
<1>1. ASSUME NEW v \in VersionIDs
      PROVE  (IF v \in Live(meta) THEN Snapshot(meta.versions[v], Recoverable(v)) ELSE NoTree)
             = (IF meta.versions[v] # NoTree
                THEN Snapshot(meta.versions[v], Content(meta.versions[v])) ELSE NoTree)
  BY AllRecoverable DEF Live
<1> QED
  BY <1>1 DEF Abs!vars, View

\* So it does in the next state.
LEMMA MappedStoreNext == StoreInv' => (Abs!vars = <<View(meta.versions)>>)'
BY MappedStore, PTL

\* A change of the versions is a step of VersionStore: Backup, Replace or Delete.
LEMMA ChangeImplements ==
    ASSUME StoreInv, StoreInv', Changes(op.kind, meta.versions, meta'.versions)
    PROVE  [Abs!Next]_Abs!vars
<1> DEFINE vs == meta.versions
           ws == meta'.versions
<1>1. /\ vs \in [VersionIDs -> Hashes \cup {NoTree}]
      /\ ws \in [VersionIDs -> Hashes \cup {NoTree}]
  BY DEF StoreInv, TypeOK, Metadata
<1>2. Abs!vars = <<View(vs)>> /\ Abs!vars' = <<View(ws)>>
  BY MappedStore, MappedStoreNext
<1>3. \A r \in Hashes : Snapshot(r, Content(r)) # NoTree
  BY ContentType, TreeAssumption DEF Snapshot
<1>4. ASSUME NEW v \in VersionIDs, NEW r \in Hashes, vs[v] = NoTree,
             \/ ws = [vs EXCEPT ![v] = r]
             \/ ws = [w \in VersionIDs |-> IF w = v THEN r ELSE NoTree]
      PROVE  Abs!Next
  <2>1. View(vs)[v] = NoTree /\ r # NoTree
    BY <1>4, TreeAssumption DEF View
  <2>2. \/ View(ws) = [View(vs) EXCEPT ![v] = Snapshot(r, Content(r))]
        \/ View(ws) = [w \in VersionIDs |-> IF w = v THEN Snapshot(r, Content(r)) ELSE NoTree]
    BY <1>1, <1>4, <2>1 DEF View
  <2>3. Abs!Backup(v, Snapshot(r, Content(r))) \/ Abs!Replace(v, Snapshot(r, Content(r)))
    BY <1>2, <2>1, <2>2 DEF Abs!Backup, Abs!Replace, Abs!vars
  <2> QED
    BY <2>3 DEF Abs!Next
<1>5. ASSUME NEW v \in VersionIDs, vs[v] # NoTree, ws = [vs EXCEPT ![v] = NoTree]
      PROVE  Abs!Next
  <2>1. View(vs)[v] # NoTree
    BY <1>1, <1>3, <1>5 DEF View
  <2>2. View(ws) = [View(vs) EXCEPT ![v] = NoTree]
    BY <1>1, <1>5 DEF View
  <2>3. Abs!Delete(v)
    BY <1>2, <2>1, <2>2 DEF Abs!Delete, Abs!vars
  <2> QED
    BY <2>3 DEF Abs!Next
<1> QED
  BY <1>2, <1>4, <1>5 DEF Changes

\* An empty store is VersionStore's, whatever else ".tsync" holds.
LEMMA InitImplements == Init => Abs!Init
<1> SUFFICES ASSUME Init PROVE Abs!Init
  OBVIOUS
<1>1. Live(meta) = {}
  BY InitEmpty
<1> QED
  BY <1>1 DEF Abs!Init

\* The store implements VersionStore: every step of RunBackup, DeleteVersion and GC, every
\* failure, crash and damaged node adds a version with all its files recoverable, takes
\* versions away in one step, or shows nothing.
THEOREM StoreImplementsVersions == Spec => ImplementsVersionStore
<1>1. VersionsInv /\ VersionsInv' /\ [Next]_vars => [Abs!Next]_Abs!vars
  <2> SUFFICES ASSUME VersionsInv, VersionsInv', [Next]_vars
               PROVE  [Abs!Next]_Abs!vars
    OBVIOUS
  <2>1. StoreInv /\ StoreInv'
    BY DEF VersionsInv
  <2>2. CASE meta'.versions = meta.versions
    BY <2>1, <2>2, MappedStore, MappedStoreNext
  <2>3. CASE Changes(op.kind, meta.versions, meta'.versions)
    BY <2>1, <2>3, ChangeImplements
  <2> QED
    BY <2>2, <2>3, VersionsStep
<1> QED
  BY <1>1, InitImplements, VersionsInvariant, PTL DEF Spec, ImplementsVersionStore, Abs!Spec

-----------------------------------------------------------------------------
(* The parts in storage: none without a record while nothing fails, and    *)
(* none without a version once a GC is done.                               *)

Present == {k \in Keys : parts[k] # Absent}

\* The files of the versions vs.
Needed(vs) == UNION {Content(vs[v]) : v \in {w \in VersionIDs : vs[w] # NoTree}}

\* While nothing has failed, the parts are those of the records, of the uploads that are
\* done and of the deletions that are left, and a rewrite of ".tsync" but GC's will
\* delete the parts of every record it drops.
LeakFree ==
    ~ faulty =>
        /\ op.kind = "none" => Present = Recorded(meta)
        /\ op.phase \in {"upload", "write"} =>
              /\ Present \cup op.todo = Recorded(meta) \cup Recorded(op.target)
              /\ op.kind # "gc" => op.dels = Recorded(meta) \ Recorded(op.target)
        /\ op.phase = "delete" => Present = Recorded(meta) \cup op.dels

\* A GC keeps the versions, records only what they need, and, unless a Delete failed, has
\* yet to delete every part without a record.
GCSound ==
    /\ op.phase \in {"upload", "drain"} => op.kind # "gc"
    /\ op.kind = "gc" =>
          /\ op.target.versions = meta.versions
          /\ Recorded(op.target) \subseteq Needed(meta.versions)
          /\ op.phase = "delete" /\ op.clean => Present \subseteq Recorded(op.target) \cup op.dels

PartsInv == StoreInv /\ LeakFree /\ GCSound

-----------------------------------------------------------------------------
(* Metadata an operation computes. *)

\* A walk visits nodes of versions only, so what pruning (DeleteVersion, GC) leaves is
\* what some version needs.
LEMMA PruneNeeded ==
    ASSUME NEW m \in Metadata
    PROVE  /\ Prune(m).versions = m.versions
           /\ Recorded(Prune(m)) \subseteq Needed(m.versions)
<1> DEFINE H == UNION {Nodes(m.versions[v]) : v \in Live(m)}
<1>1. \A v \in Live(m) : m.versions[v] \in Hashes
  BY DEF Live, Metadata
<1>2. ASSUME NEW v \in Live(m)
      PROVE  /\ m.versions[v] \in Nodes(m.versions[v])
             /\ Nodes(m.versions[v]) \subseteq Hashes
             /\ Closed(Nodes(m.versions[v]), Hashes)
  <2>1. {m.versions[v]} \in SUBSET Hashes
    BY <1>1
  <2> QED
    BY <2>1, ReachClosed DEF Nodes
<1>3. H \in SUBSET Hashes /\ Roots(m) \subseteq H
  BY <1>2 DEF Roots
<1>4. Closed(H, m.trees)
  BY <1>2 DEF Closed
<1>5. Visited(m) \subseteq H
  BY <1>3, <1>4, ReachLeast DEF Visited
<1>6. KeysIn(H) \subseteq Needed(m.versions)
  BY DEF KeysIn, Needed, Content, Live
<1>7. Prune(m).versions = m.versions
      /\ \A k \in Keys : Prune(m).files[k] = IF k \in KeysIn(Visited(m) \cap m.trees)
                                             THEN m.files[k] ELSE Absent
  BY DEF Prune, Metadata
<1>8. Recorded(Prune(m)) \subseteq KeysIn(Visited(m) \cap m.trees)
  BY <1>7 DEF Recorded
<1>9. KeysIn(Visited(m) \cap m.trees) \subseteq KeysIn(H)
  BY <1>5 DEF KeysIn
<1> QED
  BY <1>6, <1>7, <1>8, <1>9

\* A backup without SingleVersionMode keeps every record.
LEMMA BackupKeepsRecords ==
    ASSUME NEW m \in Metadata, NEW v \in VersionIDs, NEW r \in Hashes,
           NEW p \in Nat, p # Absent
    PROVE  Recorded(m) \subseteq Recorded(NewMetadata(m, v, r, p, FALSE))
<1>1. \A k \in Keys : NewMetadata(m, v, r, p, FALSE).files[k]
                      = IF k \in Content(r) THEN RecordOf(m, k, p) ELSE m.files[k]
  BY DEF NewMetadata, Base
<1> QED
  BY <1>1 DEF Recorded, RecordOf

-----------------------------------------------------------------------------
(* One lemma per operation's steps. *)

\* A new store has no parts and no records.
LEMMA PartsInvInit == Init => PartsInv
<1> SUFFICES ASSUME Init PROVE PartsInv
  OBVIOUS
<1>1. Recorded(meta) = {} /\ Present = {}
  BY InitEmpty DEF Init, Present
<1>2. op.kind = "none" /\ op.phase = "idle"
  BY DEF Init, Idle
<1> QED
  BY <1>1, <1>2, StoreInvInit DEF PartsInv, LeakFree, GCSound

\* RunBackup begins: it uploads what has no record, and deletes what it drops.
LEMMA StartBackupParts ==
    ASSUME PartsInv, NEW v \in VersionIDs, NEW r \in Hashes, NEW s \in BOOLEAN,
           StartBackup(v, r, s)
    PROVE  LeakFree' /\ GCSound'
<1> DEFINE p == NextPassword
           new == NewMetadata(meta, v, r, p, s)
<1>1. meta \in Metadata /\ Consistent(meta) /\ p \in Nat /\ p # Absent
  BY DEF PartsInv, StoreInv, TypeOK, ContentsRecorded, Consistent, NextPassword, Absent
<1>2. /\ Recorded(new) \ Recorded(meta) \subseteq Content(r)
      /\ Content(r) \subseteq Recorded(new)
  BY <1>1, NewMetadataSafe
<1>3. ~ s => Recorded(meta) \subseteq Recorded(new)
  <2>1. CASE s
    BY <2>1
  <2>2. CASE s = FALSE
    BY <1>1, <2>2, BackupKeepsRecords
  <2> QED
    BY <2>1, <2>2
<1> HIDE DEF new, p
<1>4. /\ op' = [kind |-> IF s THEN "single" ELSE "backup", phase |-> "upload", pass |-> p,
                todo |-> Content(r) \ Recorded(meta), target |-> new,
                dels |-> IF s THEN Dropped(meta, new) ELSE {}, clean |-> TRUE]
      /\ UNCHANGED <<meta, parts, faulty>>
      /\ op.kind = "none"
  BY DEF StartBackup, Begin, new, p
<1>5. /\ op'.kind \in {"single", "backup"} /\ op'.phase = "upload" /\ op'.target = new
      /\ op'.todo = Content(r) \ Recorded(meta)
      /\ op'.dels = Recorded(meta) \ Recorded(new)
  BY <1>3, <1>4 DEF Dropped
<1>6. ~ faulty => Present = Recorded(meta)
  BY <1>4 DEF PartsInv, LeakFree
<1>7. Present' = Present
  BY <1>4 DEF Present
<1>8. LeakFree'
  BY <1>2, <1>4, <1>5, <1>6, <1>7 DEF LeakFree
<1>9. GCSound'
  BY <1>5 DEF GCSound
<1> QED
  BY <1>8, <1>9

\* An upload that succeeds adds a part and takes it off the list.
LEMMA UploadPartParts ==
    ASSUME PartsInv, NEW k \in Keys, UploadPart(k) \/ UploadFails(k)
    PROVE  LeakFree' /\ GCSound'
<1>1. /\ op \in Operation /\ op.pass # Absent /\ k \in op.todo
      /\ op.phase \in {"upload", "drain"} /\ op.kind # "gc" /\ op.kind # "none"
      /\ parts \in [Keys -> Nat]
  BY DEF PartsInv, StoreInv, OpSafe, TypeOK, GCSound, UploadPart, UploadFails
<1>2. CASE UploadPart(k)
  <2>1. /\ op'.todo = op.todo \ {k} /\ op'.phase = op.phase /\ op'.kind = op.kind
        /\ op'.target = op.target /\ op'.dels = op.dels
        /\ UNCHANGED <<meta, faulty>>
    BY <1>1, <1>2 DEF UploadPart, Operation
  <2>2. Present' = Present \cup {k}
    BY <1>1, <1>2 DEF UploadPart, Present
  <2>3. Present' \cup op'.todo = Present \cup op.todo
    BY <1>1, <2>1, <2>2
  <2> QED
    BY <1>1, <2>1, <2>3 DEF PartsInv, LeakFree, GCSound
<1>3. CASE UploadFails(k)
  <2>1. faulty' /\ op'.kind = op.kind
    BY <1>1, <1>3 DEF UploadFails, Operation
  <2> QED
    BY <1>1, <2>1 DEF LeakFree, GCSound
<1> QED
  BY <1>2, <1>3

\* DeleteVersion begins: it will delete the parts of the records it drops.
LEMMA StartDeleteParts ==
    ASSUME PartsInv, NEW v \in VersionIDs, StartDelete(v)
    PROVE  LeakFree' /\ GCSound'
<1> DEFINE rest == [meta EXCEPT !.versions[v] = NoTree]
           new  == Prune(rest)
<1>1. meta \in Metadata /\ Consistent(meta)
  BY DEF PartsInv, StoreInv, TypeOK, ContentsRecorded, Consistent
<1>2. rest \in Metadata /\ rest.files = meta.files /\ Consistent(rest) /\ ~ WalkFails(rest)
  BY <1>1, RemoveVersion DEF StartDelete
<1> HIDE DEF rest
<1>3. Recorded(new) \subseteq Recorded(meta)
  BY <1>2, PruneSafe DEF Recorded
<1>4. /\ op'.kind = "delete" /\ op'.phase = "write" /\ op'.todo = {} /\ op'.target = new
      /\ op'.dels = Recorded(meta) \ Recorded(new) /\ op.kind = "none"
      /\ UNCHANGED <<meta, parts, faulty>>
  BY DEF StartDelete, Begin, rest, Dropped
<1> HIDE DEF new
<1>5. Present' = Present
  BY <1>4 DEF Present
<1> QED
  BY <1>3, <1>4, <1>5 DEF PartsInv, LeakFree, GCSound

\* GC begins: what it keeps is what some version needs.
LEMMA StartGCParts ==
    ASSUME PartsInv, StartGC
    PROVE  LeakFree' /\ GCSound'
<1> DEFINE new == Prune(meta)
<1>1. meta \in Metadata /\ Consistent(meta) /\ ~ WalkFails(meta)
  BY DEF PartsInv, StoreInv, TypeOK, ContentsRecorded, Consistent, StartGC
<1>2. /\ Recorded(new) \subseteq Recorded(meta)
      /\ Recorded(new) \subseteq Needed(meta.versions)
      /\ new.versions = meta.versions
  BY <1>1, PruneSafe, PruneNeeded
<1>3. /\ op'.kind = "gc" /\ op'.phase \in {"list", "write"} /\ op'.todo = {}
      /\ op'.target = new /\ op.kind = "none"
      /\ UNCHANGED <<meta, parts, faulty>>
  BY DEF StartGC, Begin
<1> HIDE DEF new
<1>4. Present' = Present
  BY <1>3 DEF Present
<1> QED
  BY <1>2, <1>3, <1>4 DEF PartsInv, LeakFree, GCSound

\* The rewrite of ".tsync" leaves the dropped records' parts to be deleted.
LEMMA WriteMetadataParts ==
    ASSUME PartsInv, WriteMetadata \/ WriteMetadataFails
    PROVE  LeakFree' /\ GCSound'
<1>1. op \in Operation /\ op.todo = {} /\ op.phase \in {"upload", "write"} /\ op.kind # "none"
  BY DEF PartsInv, StoreInv, TypeOK, OpSafe, WriteMetadata, WriteMetadataFails, ReadyToWrite
<1>2. CASE WriteMetadata
  <2>1. /\ op'.kind = op.kind /\ op'.target = op.target /\ op'.dels = op.dels
        /\ op'.phase = IF op.kind = "gc" THEN "list" ELSE "delete"
        /\ meta' = op.target /\ parts' = parts /\ faulty' = faulty
    BY <1>1, <1>2 DEF WriteMetadata, Operation
  <2>2. Present' = Present
    BY <2>1 DEF Present
  <2>3. LeakFree'
    BY <1>1, <2>1, <2>2 DEF PartsInv, LeakFree
  <2>4. GCSound'
    BY <2>1 DEF PartsInv, GCSound
  <2> QED
    BY <2>3, <2>4
<1>3. CASE WriteMetadataFails
  BY <1>3 DEF WriteMetadataFails, Idle, LeakFree, GCSound
<1> QED
  BY <1>2, <1>3

\* GC lists every part that has no record.
LEMMA ListPartsParts ==
    ASSUME PartsInv, ListParts
    PROVE  LeakFree' /\ GCSound'
<1>1. op \in Operation /\ op.phase = "list" /\ op.kind # "none"
  BY DEF PartsInv, StoreInv, TypeOK, OpSafe, ListParts
<1>2. /\ op'.kind = op.kind /\ op'.target = op.target /\ op'.phase = "delete"
      /\ op'.dels = Present \ Recorded(op.target)
      /\ UNCHANGED <<meta, parts, faulty>>
  BY <1>1 DEF ListParts, Operation, Present
<1>3. Recorded(meta) \subseteq Present /\ Recorded(op.target) = Recorded(meta)
  BY <1>1 DEF PartsInv, StoreInv, RecordsBacked, OpSafe, Recorded, Present
<1>4. Present' = Present
  BY <1>2 DEF Present
<1> QED
  BY <1>1, <1>2, <1>3, <1>4 DEF PartsInv, LeakFree, GCSound

\* A Delete takes a part and takes it off the list; one that fails is remembered.
LEMMA DeletePartParts ==
    ASSUME PartsInv, NEW k \in Keys, DeletePart(k) \/ DeletePartFails(k)
    PROVE  LeakFree' /\ GCSound'
<1>1. /\ op \in Operation /\ op.phase = "delete" /\ op.kind # "none" /\ k \in op.dels
      /\ op.dels \cap Recorded(meta) = {} /\ parts \in [Keys -> Nat]
  BY DEF PartsInv, StoreInv, TypeOK, OpSafe, DeletePart, DeletePartFails
<1>2. CASE DeletePart(k)
  <2>1. /\ op'.kind = op.kind /\ op'.target = op.target /\ op'.phase = "delete"
        /\ op'.clean = op.clean /\ op'.dels = op.dels \ {k}
        /\ UNCHANGED <<meta, faulty>>
    BY <1>1, <1>2 DEF DeletePart, Operation
  <2>2. Present' = Present \ {k}
    BY <1>1, <1>2 DEF DeletePart, Present
  <2> QED
    BY <1>1, <2>1, <2>2 DEF PartsInv, LeakFree, GCSound
<1>3. CASE DeletePartFails(k)
  <2>1. /\ op'.kind = op.kind /\ op'.target = op.target /\ op'.phase = "delete"
        /\ ~ op'.clean /\ faulty' /\ meta' = meta
    BY <1>1, <1>3 DEF DeletePartFails, Operation
  <2> QED
    BY <2>1 DEF PartsInv, LeakFree, GCSound
<1> QED
  BY <1>2, <1>3

\* An operation that returns has deleted all it was to delete; any other end is a failure.
LEMMA EndParts ==
    ASSUME PartsInv, Return \/ Stop
    PROVE  LeakFree' /\ GCSound'
<1>1. op' = Idle /\ UNCHANGED <<meta, parts>>
  BY DEF Return, Stop
<1>2. op'.kind = "none" /\ op'.phase = "idle"
  BY <1>1 DEF Idle
<1>3. ~ faulty' => Present = Recorded(meta)
  BY DEF Return, Stop, PartsInv, LeakFree
<1>4. Present' = Present
  BY <1>1 DEF Present
<1> QED
  BY <1>1, <1>2, <1>3, <1>4 DEF LeakFree, GCSound

\* A lost tree node takes no version and no record.
LEMMA DamageParts ==
    ASSUME PartsInv, NEW h \in Hashes, Damage(h)
    PROVE  LeakFree' /\ GCSound'
<1>1. /\ meta'.versions = meta.versions /\ meta'.files = meta.files
      /\ UNCHANGED <<parts, op, faulty>>
  BY DEF PartsInv, StoreInv, TypeOK, Damage, Metadata
<1>2. Recorded(meta') = Recorded(meta) /\ Present' = Present
  BY <1>1 DEF Recorded, Present
<1> QED
  BY <1>1, <1>2 DEF PartsInv, LeakFree, GCSound

\* Every step of every operation, every failure and every crash preserves PartsInv.
LEMMA PartsInvNext == PartsInv /\ [Next]_vars => PartsInv'
<1> SUFFICES ASSUME PartsInv, [Next]_vars PROVE LeakFree' /\ GCSound'
  BY StoreInvNext DEF PartsInv
<1>1. ASSUME NEW v \in VersionIDs, NEW r \in Hashes, NEW s \in BOOLEAN, StartBackup(v, r, s)
      PROVE  LeakFree' /\ GCSound'
  BY <1>1, StartBackupParts
<1>2. ASSUME NEW k \in Keys, UploadPart(k) \/ UploadFails(k)
      PROVE  LeakFree' /\ GCSound'
  BY <1>2, UploadPartParts
<1>3. ASSUME NEW v \in VersionIDs, StartDelete(v)
      PROVE  LeakFree' /\ GCSound'
  BY <1>3, StartDeleteParts
<1>4. CASE StartGC
  BY <1>4, StartGCParts
<1>5. CASE WriteMetadata \/ WriteMetadataFails
  BY <1>5, WriteMetadataParts
<1>6. CASE ListParts
  BY <1>6, ListPartsParts
<1>7. ASSUME NEW k \in Keys, DeletePart(k) \/ DeletePartFails(k)
      PROVE  LeakFree' /\ GCSound'
  BY <1>7, DeletePartParts
<1>8. CASE Return \/ Stop
  BY <1>8, EndParts
<1>9. ASSUME NEW h \in Hashes, Damage(h)
      PROVE  LeakFree' /\ GCSound'
  BY <1>9, DamageParts
<1>10. CASE UNCHANGED vars
  <2>1. Present' = Present
    BY <1>10 DEF vars, Present
  <2> QED
    BY <1>10, <2>1 DEF vars, PartsInv, LeakFree, GCSound
<1> QED
  BY <1>1, <1>2, <1>3, <1>4, <1>5, <1>6, <1>7, <1>8, <1>9, <1>10 DEF Next

-----------------------------------------------------------------------------
(* Theorems. *)

\* PartsInv holds throughout every behaviour of the store.
THEOREM PartsInvariant == Spec => []PartsInv
<1> QED
  BY PartsInvInit, PartsInvNext, PTL DEF Spec

\* Orphaned parts come from failures and crashes only: while nothing has failed, RunBackup,
\* DeleteVersion and GC leave exactly the parts ".tsync" records.
THEOREM NeverLeaks == Spec => []NoLeak
<1>1. PartsInv => NoLeak
  BY DEF PartsInv, LeakFree, NoLeak, Present, Recorded
<1> QED
  BY <1>1, PartsInvariant, PTL

\* A GC that returns without a failed Delete leaves no part that no version needs,
\* whatever crashes came before it.
THEOREM GCAlwaysComplete == Spec => GCComplete
<1> DEFINE Step == (op.kind = "gc" /\ op.clean /\ Return) =>
                       \A k \in Keys : parts[k] # Absent =>
                           \E v \in Live(meta) : k \in Content(meta.versions[v])
<1>1. PartsInv /\ [Next]_vars => [Step]_vars
  <2> SUFFICES ASSUME PartsInv, op.kind = "gc", op.clean, Return, NEW k \in Keys,
                      parts[k] # Absent
               PROVE  \E v \in Live(meta) : k \in Content(meta.versions[v])
    OBVIOUS
  <2>1. k \in Recorded(op.target)
    BY DEF PartsInv, GCSound, Present, Return
  <2>2. k \in Needed(meta.versions)
    BY <2>1 DEF PartsInv, GCSound
  <2> QED
    BY <2>2 DEF Needed, Live
<1> QED
  BY <1>1, PartsInvariant, PTL DEF Spec, GCComplete

-----------------------------------------------------------------------------
(* One of several clients.  When another client may rewrite ".tsync" and   *)
(* delete parts at any time, StoreInv does not hold; what is left is that  *)
(* every client writes metadata that is consistent in itself.              *)

SharedInv == /\ meta \in Metadata
             /\ runs \in Nat
             /\ Consistent(meta)
             /\ ~ damaged => Whole(meta)

OwnInv == /\ op \in Operation
          /\ op.phase \in {"upload", "write"} =>
                /\ Consistent(op.target)
                /\ ~ damaged => Whole(op.target)

\* RunBackup, DeleteVersion and GC compute consistent metadata from what they loaded,
\* whoever wrote it.
LEMMA StartShared ==
    ASSUME SharedInv,
           \/ \E v \in VersionIDs, r \in Hashes, s \in BOOLEAN : StartBackup(v, r, s)
           \/ \E v \in VersionIDs : StartDelete(v)
           \/ StartGC
    PROVE  OwnInv' /\ runs' \in Nat /\ UNCHANGED <<meta, damaged>>
<1>1. ASSUME NEW v \in VersionIDs, NEW r \in Hashes, NEW s \in BOOLEAN, StartBackup(v, r, s)
      PROVE  OwnInv' /\ runs' \in Nat /\ UNCHANGED <<meta, damaged>>
  <2> DEFINE p == NextPassword
             new == NewMetadata(meta, v, r, p, s)
             dels == IF s THEN Dropped(meta, new) ELSE {}
  <2>1. meta.versions[v] = NoTree /\ p \in Nat /\ p # Absent
    BY <1>1 DEF StartBackup, NextPassword, Absent, SharedInv
  <2>2. new \in Metadata /\ Consistent(new) /\ (Whole(meta) => Whole(new))
    BY <2>1, NewMetadataSafe, NewMetadataWhole DEF SharedInv
  <2> HIDE DEF new, p
  <2>3. /\ op' = [kind |-> IF s THEN "single" ELSE "backup", phase |-> "upload", pass |-> p,
                  todo |-> Content(r) \ Recorded(meta), target |-> new, dels |-> dels,
                  clean |-> TRUE]
        /\ UNCHANGED <<meta, damaged>>
        /\ runs' = runs + 1
    BY <1>1 DEF StartBackup, Begin, new, p
  <2>4. dels \in SUBSET Keys /\ Content(r) \ Recorded(meta) \in SUBSET Keys
    BY ContentType DEF Dropped, Recorded
  <2>5. op' \in Operation /\ op'.target = new
    BY <2>1, <2>2, <2>3, <2>4 DEF Operation
  <2> QED
    BY <2>2, <2>3, <2>5 DEF OwnInv, SharedInv
<1>2. ASSUME NEW v \in VersionIDs, StartDelete(v)
      PROVE  OwnInv' /\ runs' \in Nat /\ UNCHANGED <<meta, damaged>>
  <2> DEFINE rest == [meta EXCEPT !.versions[v] = NoTree]
  <2>1. rest \in Metadata /\ Consistent(rest)
    BY RemoveVersion DEF SharedInv
  <2>2. /\ ~ WalkFails(rest)
        /\ op' = [kind |-> "delete", phase |-> "write", pass |-> Absent, todo |-> {},
                  target |-> Prune(rest), dels |-> Dropped(meta, Prune(rest)),
                  clean |-> TRUE]
        /\ UNCHANGED <<meta, runs, damaged>>
    BY <1>2 DEF StartDelete, Begin
  <2> HIDE DEF rest
  <2>3. Prune(rest) \in Metadata /\ Consistent(Prune(rest)) /\ Whole(Prune(rest))
    BY <2>1, <2>2, PruneSafe, PruneWhole
  <2>4. op' \in Operation /\ op'.target = Prune(rest)
    BY <2>2, <2>3 DEF Operation, Dropped, Recorded, Absent
  <2> QED
    BY <2>2, <2>3, <2>4 DEF OwnInv, SharedInv
<1>3. CASE StartGC
  <2>1. /\ ~ WalkFails(meta)
        /\ op' = [kind |-> "gc", phase |-> IF Prune(meta) = meta THEN "list" ELSE "write",
                  pass |-> Absent, todo |-> {}, target |-> Prune(meta), dels |-> {},
                  clean |-> TRUE]
        /\ UNCHANGED <<meta, runs, damaged>>
    BY <1>3 DEF StartGC, Begin
  <2>2. Prune(meta) \in Metadata /\ Consistent(Prune(meta)) /\ Whole(Prune(meta))
    BY <2>1, PruneSafe, PruneWhole DEF SharedInv
  <2>3. op' \in Operation /\ op'.target = Prune(meta)
    BY <2>1, <2>2 DEF Operation, Absent
  <2> QED
    BY <2>1, <2>2, <2>3 DEF OwnInv, SharedInv
<1> QED
  BY <1>1, <1>2, <1>3

\* A step that neither computes nor writes metadata.
LEMMA QuietShared ==
    ASSUME OwnInv,
           \/ \E k \in Keys : UploadPart(k) \/ UploadFails(k)
           \/ ListParts
           \/ \E k \in Keys : DeletePart(k) \/ DeletePartFails(k)
           \/ Return
           \/ Stop
    PROVE  OwnInv' /\ UNCHANGED <<meta, runs, damaged>>
<1>1. ASSUME NEW k \in Keys, UploadPart(k) \/ DeletePart(k)
      PROVE  OwnInv' /\ UNCHANGED <<meta, runs, damaged>>
  BY <1>1 DEF UploadPart, DeletePart, OwnInv, Operation
<1>2. ASSUME NEW k \in Keys, UploadFails(k)
      PROVE  OwnInv' /\ UNCHANGED <<meta, runs, damaged>>
  <2> DEFINE o == [op EXCEPT !.todo = @ \ {k}]
             n == [o EXCEPT !.phase = "drain"]
  <2>1. o \in Operation
    BY DEF OwnInv, Operation
  <2>2. op' = n /\ UNCHANGED <<meta, runs, damaged>>
    BY <1>2 DEF UploadFails
  <2> HIDE DEF o
  <2>3. n \in Operation /\ n.phase = "drain"
    BY <2>1 DEF Operation
  <2> QED
    BY <2>2, <2>3 DEF OwnInv
<1>3. ASSUME NEW k \in Keys, DeletePartFails(k)
      PROVE  OwnInv' /\ UNCHANGED <<meta, runs, damaged>>
  <2> DEFINE o == [op EXCEPT !.dels = @ \ {k}]
             n == [o EXCEPT !.clean = FALSE]
  <2>1. o \in Operation /\ o.phase = op.phase
    BY DEF OwnInv, Operation
  <2>2. op' = n /\ op.phase = "delete" /\ UNCHANGED <<meta, runs, damaged>>
    BY <1>3 DEF DeletePartFails
  <2> HIDE DEF o
  <2>3. n \in Operation /\ n.phase = o.phase
    BY <2>1 DEF Operation
  <2> QED
    BY <2>1, <2>2, <2>3 DEF OwnInv
<1>4. CASE ListParts
  <2> DEFINE d == {k \in Keys : parts[k] # Absent} \ Recorded(op.target)
             o == [op EXCEPT !.phase = "delete"]
             n == [o EXCEPT !.dels = d]
  <2>1. o \in Operation /\ o.phase = "delete"
    BY DEF OwnInv, Operation
  <2>2. op' = n /\ UNCHANGED <<meta, runs, damaged>> /\ d \subseteq Keys
    BY <1>4 DEF ListParts
  <2> HIDE DEF o, d
  <2>3. n \in Operation /\ n.phase = "delete"
    BY <2>1, <2>2 DEF Operation
  <2> QED
    BY <2>2, <2>3 DEF OwnInv
<1>5. CASE Return \/ Stop
  <2>1. op' = Idle /\ UNCHANGED <<meta, runs, damaged>>
    BY <1>5 DEF Return, Stop
  <2>2. op' \in Operation /\ op'.phase = "idle"
    BY <2>1, IdleSafe DEF Idle
  <2> QED
    BY <2>1, <2>2 DEF OwnInv
<1> QED
  BY <1>1, <1>2, <1>3, <1>4, <1>5

\* Whatever other clients do between its steps, a client keeps what ".tsync" and its own
\* operation promise; damage, once done, is remembered.
LEMMA ClientStep ==
    ASSUME SharedInv, OwnInv, Next
    PROVE  SharedInv' /\ OwnInv' /\ (damaged => damaged')
<1>1. CASE \/ \E v \in VersionIDs, r \in Hashes, s \in BOOLEAN : StartBackup(v, r, s)
           \/ \E v \in VersionIDs : StartDelete(v)
           \/ StartGC
  BY <1>1, StartShared DEF SharedInv
<1>2. CASE \/ \E k \in Keys : UploadPart(k) \/ UploadFails(k)
           \/ ListParts
           \/ \E k \in Keys : DeletePart(k) \/ DeletePartFails(k)
           \/ Return
           \/ Stop
  BY <1>2, QuietShared DEF SharedInv
<1>3. CASE WriteMetadata \/ WriteMetadataFails
  <2>1. /\ op.phase \in {"upload", "write"} /\ meta' \in {meta, op.target}
        /\ UNCHANGED <<runs, damaged>>
    BY <1>3 DEF WriteMetadata, WriteMetadataFails, ReadyToWrite
  <2>2. SharedInv'
    BY <2>1 DEF SharedInv, OwnInv, Operation
  <2>3. op' \in Operation /\ op'.phase \notin {"upload", "write"}
    <3>1. CASE WriteMetadata
      BY <3>1 DEF WriteMetadata, OwnInv, Operation
    <3>2. CASE WriteMetadataFails
      BY <3>2, IdleSafe DEF WriteMetadataFails, Idle
    <3> QED
      BY <1>3, <3>1, <3>2
  <2> QED
    BY <2>1, <2>2, <2>3 DEF OwnInv
<1>4. ASSUME NEW h \in Hashes, Damage(h)
      PROVE  SharedInv' /\ OwnInv' /\ damaged'
  <2>1. /\ meta' = [meta EXCEPT !.trees = @ \ {h}] /\ damaged'
        /\ UNCHANGED <<op, runs>>
    BY <1>4 DEF Damage
  <2>2. meta' \in Metadata /\ meta'.versions = meta.versions /\ meta'.files = meta.files
    BY <2>1 DEF SharedInv, Metadata
  <2>3. Consistent(meta)'
    BY <2>2 DEF SharedInv, Consistent, Live, Recorded
  <2> QED
    BY <2>1, <2>2, <2>3 DEF SharedInv, OwnInv
<1> QED
  BY <1>1, <1>2, <1>3, <1>4 DEF Next

\* A client starts on a store without versions, and with nothing to write.
LEMMA ClientInit ==
    ASSUME Init
    PROVE  SharedInv /\ OwnInv
<1>1. meta \in Metadata /\ Live(meta) = {} /\ runs \in Nat
  BY InitEmpty DEF Init
<1>2. EmptyMetadata \in Metadata
  BY DEF EmptyMetadata, Metadata, Absent
<1>3. op \in Operation /\ op.phase = "idle"
  BY <1>2 DEF Init, Idle, Operation, Absent
<1> QED
  BY <1>1, <1>3 DEF SharedInv, OwnInv, Consistent, Whole

-----------------------------------------------------------------------------
(* A restore beside the operations (TsyncRestore). *)

RestoreInv == StoreInv /\ rd \in Restore /\ CopyCurrent

\* Only the rewrite of ".tsync" (RunBackup, DeleteVersion, GC) changes versions or
\* records; damage takes tree nodes.
LEMMA MetadataStep ==
    ASSUME StoreInv, [Next]_vars
    PROVE  \/ ReadyToWrite /\ meta' = op.target
           \/ meta'.versions = meta.versions /\ meta'.files = meta.files
<1>1. ASSUME NEW v \in VersionIDs, NEW r \in Hashes, NEW s \in BOOLEAN, StartBackup(v, r, s)
      PROVE  meta' = meta
  BY <1>1 DEF StartBackup
<1>2. ASSUME NEW k \in Keys, UploadPart(k) \/ UploadFails(k)
      PROVE  meta' = meta
  BY <1>2 DEF UploadPart, UploadFails
<1>3. ASSUME NEW v \in VersionIDs, StartDelete(v)
      PROVE  meta' = meta
  BY <1>3 DEF StartDelete
<1>4. CASE WriteMetadata \/ WriteMetadataFails
  BY <1>4 DEF WriteMetadata, WriteMetadataFails
<1>5. ASSUME NEW k \in Keys, DeletePart(k) \/ DeletePartFails(k)
      PROVE  meta' = meta
  BY <1>5 DEF DeletePart, DeletePartFails
<1>6. CASE StartGC \/ ListParts \/ Return \/ Stop \/ UNCHANGED vars
  BY <1>6 DEF StartGC, ListParts, Return, Stop, vars
<1>7. ASSUME NEW h \in Hashes, Damage(h)
      PROVE  meta'.versions = meta.versions /\ meta'.files = meta.files
  BY <1>7 DEF Damage, StoreInv, TypeOK, Metadata
<1> QED
  BY <1>1, <1>2, <1>3, <1>4, <1>5, <1>6, <1>7 DEF Next

\* While a version stays in the store, nothing changes the record of any of its files.
LEMMA RecordsStable ==
    ASSUME StoreInv, [Next]_vars, NEW v \in Live(meta), v \in Live(meta'),
           meta'.versions[v] = meta.versions[v],
           NEW k \in Content(meta.versions[v])
    PROVE  meta'.files[k] = meta.files[k]
<1>1. k \in Recorded(meta) /\ parts[k] = meta.files[k]
  BY DEF StoreInv, ContentsRecorded, RecordsBacked
<1>2. CASE ReadyToWrite /\ meta' = op.target
  <2>1. k \in Recorded(op.target)
    BY <1>2 DEF StoreInv, OpSafe, ReadyToWrite
  <2>2. k \notin op.todo
    BY <1>1, <1>2 DEF StoreInv, OpSafe, ReadyToWrite
  <2>3. parts[k] = op.target.files[k]
    BY <1>2, <2>1, <2>2 DEF StoreInv, OpSafe, ReadyToWrite
  <2> QED
    BY <1>1, <1>2, <2>3
<1>3. CASE meta'.versions = meta.versions /\ meta'.files = meta.files
  BY <1>3
<1> QED
  BY <1>2, <1>3, MetadataStep

-----------------------------------------------------------------------------
(* The restore's steps. *)

\* ResolveVersionTree finds no file that is not in the version, whatever it cannot read.
LEMMA ResolveSound ==
    ASSUME NEW m \in Metadata, NEW v \in Live(m)
    PROVE  Resolve(m, v) \subseteq Content(m.versions[v])
<1> DEFINE r == m.versions[v]
<1>1. r \in Hashes
  BY DEF Live, Metadata
<1>2. Nodes(r) \in SUBSET Hashes /\ {r} \subseteq Nodes(r) /\ Closed(Nodes(r), Hashes)
  BY <1>1, ReachClosed DEF Nodes
<1>3. Closed(Nodes(r), m.trees)
  BY <1>2 DEF Closed, Metadata
<1>4. Reach({r}, m.trees) \subseteq Nodes(r)
  BY <1>2, <1>3, ReachLeast
<1> QED
  BY <1>4 DEF Resolve, Content, KeysIn

\* A restore that begins has a current copy of its version's records.
LEMMA StartRestoreSafe ==
    ASSUME RestoreInv, NEW v \in VersionIDs, NEW skip \in BOOLEAN, StartRestore(v, skip)
    PROVE  RestoreInv'
<1>1. UNCHANGED vars
  BY DEF StartRestore
<1>2. StoreInv'
  BY <1>1, StoreInvNext DEF RestoreInv
<1>3. meta \in Metadata /\ meta' = meta /\ v \in Live(meta)
  BY <1>1 DEF RestoreInv, StoreInv, TypeOK, StartRestore, Live, vars
<1>4. Resolve(meta, v) \subseteq Content(meta.versions[v])
  BY <1>3, ResolveSound
<1>5. Content(meta.versions[v]) \subseteq Keys
  BY <1>3, ContentType DEF Live, Metadata
<1>6. rd' = [vid |-> v, files |-> meta.files, todo |-> Resolve(meta, v), kept |-> TRUE]
  BY DEF StartRestore
<1>7. rd' \in Restore
  BY <1>3, <1>4, <1>5, <1>6 DEF Restore, Metadata
<1>8. CopyCurrent'
  BY <1>3, <1>4, <1>6 DEF CopyCurrent
<1> QED
  BY <1>2, <1>7, <1>8 DEF RestoreInv

\* Reading, skipping or failing to read a part leaves the copy as it is.
LEMMA ExtractSafe ==
    ASSUME RestoreInv, NEW k \in Keys,
           ExtractOne(k) \/ ExtractSkipped(k) \/ ExtractFails(k)
    PROVE  RestoreInv'
<1>1. UNCHANGED vars
  BY DEF ExtractOne, ExtractSkipped, ExtractFails
<1>2. StoreInv'
  BY <1>1, StoreInvNext DEF RestoreInv
<1>3. meta' = meta
  BY <1>1 DEF vars
<1>4. CASE rd' = [rd EXCEPT !.todo = @ \ {k}]
  <2>1. /\ rd' \in Restore
        /\ rd'.vid = rd.vid /\ rd'.files = rd.files /\ rd'.kept = rd.kept
        /\ rd'.todo \subseteq rd.todo
    BY <1>4 DEF RestoreInv, Restore
  <2>2. CopyCurrent'
    BY <1>3, <2>1 DEF RestoreInv, CopyCurrent
  <2> QED
    BY <1>2, <2>1, <2>2 DEF RestoreInv
<1>5. CASE rd' = NoRestore
  BY <1>2, <1>5 DEF RestoreInv, NoRestore, Restore, CopyCurrent, Absent
<1> QED
  BY <1>4, <1>5 DEF ExtractOne, ExtractSkipped, ExtractFails

\* Another client's step leaves the copy current, or the version is no longer kept.
LEMMA StoreStepSafe ==
    ASSUME RestoreInv, StoreStep
    PROVE  RestoreInv'
<1>1. StoreInv'
  BY StoreInvNext DEF RestoreInv, StoreStep
<1>2. /\ rd' \in Restore
      /\ rd'.vid = rd.vid /\ rd'.files = rd.files /\ rd'.todo = rd.todo
      /\ rd'.kept = (/\ rd.kept
                     /\ rd.vid \in Live(meta')
                     /\ meta'.versions[rd.vid] = meta.versions[rd.vid])
  BY DEF RestoreInv, Restore, StoreStep
<1>3. CopyCurrent'
  <2> SUFFICES ASSUME rd'.kept
               PROVE  /\ rd.vid \in Live(meta')
                      /\ rd.todo \subseteq Content(meta'.versions[rd.vid])
                      /\ \A k \in rd.todo : rd.files[k] = meta'.files[k]
    BY <1>2 DEF CopyCurrent
  <2>1. /\ rd.vid \in Live(meta) /\ rd.vid \in Live(meta')
        /\ meta'.versions[rd.vid] = meta.versions[rd.vid]
        /\ rd.todo \subseteq Content(meta.versions[rd.vid])
        /\ \A k \in rd.todo : rd.files[k] = meta.files[k]
    BY <1>2 DEF RestoreInv, CopyCurrent
  <2>2. \A k \in rd.todo : meta'.files[k] = meta.files[k]
    BY <2>1, RecordsStable DEF RestoreInv, StoreStep
  <2> QED
    BY <2>1, <2>2
<1> QED
  BY <1>1, <1>2, <1>3 DEF RestoreInv

\* Every step, of the restore or of the other client, preserves RestoreInv.
LEMMA RestoreInvNext == RestoreInv /\ [RestoreNext]_rvars => RestoreInv'
<1> SUFFICES ASSUME RestoreInv, [RestoreNext]_rvars PROVE RestoreInv'
  OBVIOUS
<1>1. ASSUME NEW v \in VersionIDs, NEW skip \in BOOLEAN, StartRestore(v, skip)
      PROVE  RestoreInv'
  BY <1>1, StartRestoreSafe
<1>2. ASSUME NEW k \in Keys, ExtractOne(k) \/ ExtractSkipped(k) \/ ExtractFails(k)
      PROVE  RestoreInv'
  BY <1>2, ExtractSafe
<1>3. CASE EndRestore
  <2>1. UNCHANGED vars /\ rd' = NoRestore
    BY <1>3 DEF EndRestore
  <2>2. StoreInv'
    BY <2>1, StoreInvNext DEF RestoreInv
  <2> QED
    BY <2>1, <2>2 DEF RestoreInv, NoRestore, Restore, CopyCurrent, Absent
<1>4. CASE StoreStep
  BY <1>4, StoreStepSafe
<1>5. CASE UNCHANGED rvars
  <2>1. UNCHANGED vars /\ rd' = rd
    BY <1>5 DEF rvars
  <2>2. StoreInv' /\ meta' = meta
    BY <2>1, StoreInvNext DEF RestoreInv, vars
  <2> QED
    BY <2>1, <2>2 DEF RestoreInv, CopyCurrent
<1> QED
  BY <1>1, <1>2, <1>3, <1>4, <1>5 DEF RestoreNext

-----------------------------------------------------------------------------
(* Theorems. *)

\* The restore's copy of its version's records is always the committed one while the
\* version is kept.
THEOREM RestoreInvariant == RestoreSpec => []RestoreInv
<1>1. RestoreInit => RestoreInv
  BY StoreInvInit DEF RestoreInit, RestoreInv, NoRestore, Restore, CopyCurrent, Absent
<1> QED
  BY <1>1, RestoreInvNext, PTL DEF RestoreSpec

\* A restore of a version that stays in the store never fails for want of a part or of
\* its password, whatever backups, deletions, collections and crashes happen meanwhile.
THEOREM KeptVersionAlwaysReadable == RestoreSpec => []KeptVersionReadable
<1>1. RestoreInv => KeptVersionReadable
  <2> SUFFICES ASSUME RestoreInv, rd.kept, NEW k \in rd.todo PROVE Readable(k)
    BY DEF KeptVersionReadable
  <2>1. /\ rd.vid \in Live(meta)
        /\ k \in Content(meta.versions[rd.vid])
        /\ rd.files[k] = meta.files[k]
    BY DEF RestoreInv, CopyCurrent
  <2>2. k \in Recorded(meta) /\ parts[k] = meta.files[k]
    BY <2>1 DEF RestoreInv, StoreInv, ContentsRecorded, RecordsBacked
  <2> QED
    BY <2>1, <2>2 DEF Readable, Recorded
<1> QED
  BY <1>1, RestoreInvariant, PTL
=============================================================================
