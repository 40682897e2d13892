----------------------------- MODULE TsyncStore -----------------------------
(***************************************************************************)
(* A t-sync store and the client operations that change it: RunBackup      *)
(* (tsync/backup.go), DeleteVersion and GC (tsync/client.go).              *)
(*                                                                         *)
(* A store is one metadata object, ".tsync", and one part object per file  *)
(* key.  An operation loads ".tsync" once, works on its copy, rewrites     *)
(* ".tsync" with a single Write and only then deletes parts.  There is no  *)
(* lock: one operation at a time runs here, and TsyncTwoClients lets two   *)
(* run together.  Between any two storage calls the call may fail, the run *)
(* may be abandoned, or the process may crash.                             *)
(***************************************************************************)
EXTENDS Naturals, FiniteSets

CONSTANTS VersionIDs,    \* version (snowflake) IDs
          Keys,          \* file keys, "<crc32>_<size>": what a part is named by
          Hashes,        \* hashes of directory tree nodes
          Sub,           \* Sub[h]:  hashes of the subdirectories of node h
          Leaf,          \* Leaf[h]: keys of the files directly in node h
          NoTree,        \* root of a version that does not exist
          MaxRuns        \* bound: RunBackup calls in a behaviour

ASSUME TreeAssumption == /\ Sub \in [Hashes -> SUBSET Hashes]
                         /\ Leaf \in [Hashes -> SUBSET Keys]
                         /\ NoTree \notin Hashes
                         /\ \A r \in Hashes, K \in SUBSET Keys : NoTree # <<r, K>>
ASSUME MaxRunsAssumption == MaxRuns \in Nat

VARIABLES meta,          \* the content of ".tsync"
          parts,         \* parts[k]: password the bytes of part k are encrypted under
          op,            \* the operation in progress and what it holds in memory
          runs,          \* RunBackup calls so far; call n encrypts under password n
          faulty,        \* history: a call failed, was abandoned, or crashed
          damaged        \* history: ".tsync" lost a tree node

vars == <<meta, parts, op, runs, faulty, damaged>>

\* Password 0 stands for "no such part" and "no such record".
Absent == 0

-----------------------------------------------------------------------------
(* Directory trees.  A node is named by the hash of its content, so what a  *)
(* hash stands for never changes; ".tsync" may or may not hold the node.    *)

\* H holds the subdirectories of its nodes, as far as the nodes in T tell.
Closed(H, T) == \A h \in H \cap T : Sub[h] \subseteq H

\* The nodes visited from the roots R when the nodes in T can be read.
Reach(R, T) == {h \in Hashes :
                   \A H \in SUBSET Hashes : (R \subseteq H /\ Closed(H, T)) => h \in H}

KeysIn(H) == UNION {Leaf[h] : h \in H}

\* The tree nodes and the file keys of the snapshot with root node r.
Nodes(r)   == Reach({r}, Hashes)
Content(r) == KeysIn(Nodes(r))

-----------------------------------------------------------------------------
(* Metadata. *)

Metadata == [exists   : BOOLEAN,                          \* ".tsync" is there
             extra    : BOOLEAN,                          \* store_label and fields
                                                          \* unknown to this client
             versions : [VersionIDs -> Hashes \cup {NoTree}],
             trees    : SUBSET Hashes,
             files    : [Keys -> Nat]]                    \* FileRecord: its password

EmptyMetadata == [exists   |-> FALSE,
                  extra    |-> FALSE,
                  versions |-> [v \in VersionIDs |-> NoTree],
                  trees    |-> {},
                  files    |-> [k \in Keys |-> Absent]]

Live(m)     == {v \in VersionIDs : m.versions[v] # NoTree}
Roots(m)    == {m.versions[v] : v \in Live(m)}
Recorded(m) == {k \in Keys : m.files[k] # Absent}

\* walkCollect over every version of m: what it visits, and whether it fails
\* because a node it needs is missing or does not match its hash.
Visited(m)   == Reach(Roots(m), m.trees)
WalkIgnored(m) == FALSE                     \* mutant: missing nodes are skipped
WalkFails(m) == ~ (Visited(m) \subseteq m.trees)

PruneShallow(m) ==                          \* mutant: only root nodes are live
    [m EXCEPT !.trees = m.trees \cap Roots(m)]
PruneTreesOnly(m) ==                        \* mutant: records are not pruned
    [m EXCEPT !.trees = m.trees \cap Visited(m)]

\* DeleteVersion and GC drop every tree node and record the walk did not visit.
Prune(m) ==
    [m EXCEPT !.trees = m.trees \cap Visited(m),
              !.files = [k \in Keys |->
                            IF k \in KeysIn(Visited(m) \cap m.trees) THEN m.files[k]
                                                                     ELSE Absent]]

FreshRecordOf(m, k, p) == p                 \* mutant: a reused part gets a new record

\* The record of key k in a run under password p: an existing one is reused.
RecordOf(m, k, p) == IF m.files[k] # Absent THEN m.files[k] ELSE p

ForgetBase(m, single) == EmptyMetadata      \* mutant: old versions are not copied

\* What RunBackup copies from the loaded metadata m.
Base(m, single) == IF single THEN EmptyMetadata ELSE m

\* The metadata RunBackup writes: a fresh message (store_label and unknown fields
\* are not carried over), the copies, then the new version, its trees and records.
NewMetadata(m, v, root, p, single) ==
    LET base == Base(m, single)
    IN  [exists   |-> TRUE,
         extra    |-> FALSE,
         versions |-> [base.versions EXCEPT ![v] = root],
         trees    |-> base.trees \cup Nodes(root),
         files    |-> [k \in Keys |-> IF k \in Content(root) THEN RecordOf(m, k, p)
                                                             ELSE base.files[k]]]

DroppedNone(m, target) == {}                \* mutant: the cleanup is forgotten

\* The records of m that target no longer has: their parts are deleted.
Dropped(m, target) == Recorded(m) \ Recorded(target)

-----------------------------------------------------------------------------
(* The operation in progress. *)

Operation == [kind   : {"none", "backup", "single", "delete", "gc"},
              phase  : {"idle", "upload", "drain", "write", "list", "delete"},
              pass   : Nat,             \* password of this run
              todo   : SUBSET Keys,     \* keys still to be uploaded
              target : Metadata,        \* the metadata to write, or written
              dels   : SUBSET Keys,     \* parts to delete after the write
              clean  : BOOLEAN]         \* no Delete has failed so far

Idle == [kind |-> "none", phase |-> "idle", pass |-> Absent, todo |-> {},
         target |-> EmptyMetadata, dels |-> {}, clean |-> TRUE]

\* Entered by RunBackup, DeleteVersion and GC once ".tsync" is loaded and checked.
Begin(kind, phase, pass, todo, target, dels) ==
    op' = [kind |-> kind, phase |-> phase, pass |-> pass, todo |-> todo,
           target |-> target, dels |-> dels, clean |-> TRUE]

EmptyPassword == runs                       \* mutant: the first run has no password

\* GenerateZipCryptoPassword: run n draws password n.
NextPassword == runs + 1

\* The store is empty, or another conforming client has initialised it.
Init == /\ meta \in {EmptyMetadata,
                     [EmptyMetadata EXCEPT !.exists = TRUE, !.extra = TRUE]}
        /\ parts = [k \in Keys |-> Absent]
        /\ op = Idle
        /\ runs = 0
        /\ faulty = FALSE
        /\ damaged = FALSE

\* RunBackup up to its workers: load, check the version ID, list the source, draw
\* a password.  Only keys without a record in the loaded metadata are uploaded.
\* SingleVersionMode will delete the parts of the records it drops.
StartBackup(v, root, single) ==
    /\ op.kind = "none"
    /\ runs < MaxRuns
    /\ meta.versions[v] = NoTree
    /\ LET target == NewMetadata(meta, v, root, NextPassword, single)
       IN  Begin(IF single THEN "single" ELSE "backup", "upload", NextPassword,
                 Content(root) \ Recorded(meta), target,
                 IF single THEN Dropped(meta, target) ELSE {})
    /\ runs' = runs + 1
    /\ UNCHANGED <<meta, parts, faulty, damaged>>

\* uploadPart: the writer's Close publishes the part, replacing any leftover one.
\* Workers in flight when a sibling fails may still get this far.
UploadPart(k) ==
    /\ op.phase \in {"upload", "drain"}
    /\ k \in op.todo
    /\ parts' = [parts EXCEPT ![k] = op.pass]
    /\ op' = [op EXCEPT !.todo = @ \ {k}]
    /\ UNCHANGED <<meta, runs, faulty, damaged>>

\* uploadPart fails: the writer is aborted, or Close reports an error although the
\* provider has published the part.  The run will not commit.
UploadFails(k) ==
    /\ op.phase \in {"upload", "drain"}
    /\ k \in op.todo
    /\ parts' \in {parts, [parts EXCEPT ![k] = op.pass]}
    /\ op' = [op EXCEPT !.todo = @ \ {k}, !.phase = "drain"]
    /\ faulty' = TRUE
    /\ UNCHANGED <<meta, runs, damaged>>

\* DeleteVersion up to its Write.
StartDelete(v) ==
    /\ op.kind = "none"
    /\ meta.exists
    /\ meta.versions[v] # NoTree
    /\ LET rest   == [meta EXCEPT !.versions[v] = NoTree]
           target == Prune(rest)
       IN  /\ ~ WalkFails(rest)
           /\ Begin("delete", "write", Absent, {}, target,
                    Dropped(meta, target))
    /\ UNCHANGED <<meta, parts, runs, faulty, damaged>>

\* GC up to its Write, which is skipped when nothing was pruned.
StartGC ==
    /\ op.kind = "none"
    /\ meta.exists
    /\ ~ WalkFails(meta)
    /\ Begin("gc", IF Prune(meta) = meta THEN "list" ELSE "write", Absent, {},
             Prune(meta), {})
    /\ UNCHANGED <<meta, parts, runs, faulty, damaged>>

ReadyToWriteEarly ==                        \* mutant: commit before the uploads end
    op.phase \in {"upload", "write"}

\* All parts of a backup are up, or the pruned metadata is ready.
ReadyToWrite == \/ op.phase = "upload" /\ op.todo = {}
                \/ op.phase = "write"

\* dest.Write(".tsync", ...): the commit point of every operation.
WriteMetadata ==
    /\ ReadyToWrite
    /\ meta' = op.target
    /\ op' = [op EXCEPT !.phase = IF op.kind = "gc" THEN "list" ELSE "delete"]
    /\ UNCHANGED <<parts, runs, faulty, damaged>>

\* The Write reports an error; it may have taken effect nevertheless (a lost reply).
WriteMetadataFails ==
    /\ ReadyToWrite
    /\ meta' \in {meta, op.target}
    /\ op' = Idle
    /\ faulty' = TRUE
    /\ UNCHANGED <<parts, runs, damaged>>

\* GC lists the storage: every part without a record in its metadata is an orphan.
ListParts ==
    /\ op.phase = "list"
    /\ op' = [op EXCEPT !.phase = "delete",
                        !.dels = {k \in Keys : parts[k] # Absent} \ Recorded(op.target)]
    /\ UNCHANGED <<meta, parts, runs, faulty, damaged>>

\* One best-effort Delete.
DeletePart(k) ==
    /\ op.phase = "delete"
    /\ k \in op.dels
    /\ parts' = [parts EXCEPT ![k] = Absent]
    /\ op' = [op EXCEPT !.dels = @ \ {k}]
    /\ UNCHANGED <<meta, runs, faulty, damaged>>

\* ... whose error is ignored.
DeletePartFails(k) ==
    /\ op.phase = "delete"
    /\ k \in op.dels
    /\ op' = [op EXCEPT !.dels = @ \ {k}, !.clean = FALSE]
    /\ faulty' = TRUE
    /\ UNCHANGED <<meta, parts, runs, damaged>>

\* The operation returns without an error.
Return ==
    /\ op.phase = "delete"
    /\ op.dels = {}
    /\ op' = Idle
    /\ UNCHANGED <<meta, parts, runs, faulty, damaged>>

\* The operation returns an error of its own (a changed source, a path collision, a
\* cancelled context, a failed List), or its process crashes.
Stop ==
    /\ op.kind # "none"
    /\ op' = Idle
    /\ faulty' = TRUE
    /\ UNCHANGED <<meta, parts, runs, damaged>>

\* External: a tree node in ".tsync" goes missing or no longer matches its hash.
Damage(h) ==
    /\ h \in meta.trees
    /\ meta' = [meta EXCEPT !.trees = @ \ {h}]
    /\ damaged' = TRUE
    /\ UNCHANGED <<parts, op, runs, faulty>>

Next ==
    \/ \E v \in VersionIDs, r \in Hashes, s \in BOOLEAN : StartBackup(v, r, s)
    \/ \E k \in Keys : UploadPart(k) \/ UploadFails(k)
    \/ \E v \in VersionIDs : StartDelete(v)
    \/ StartGC
    \/ WriteMetadata
    \/ WriteMetadataFails
    \/ ListParts
    \/ \E k \in Keys : DeletePart(k) \/ DeletePartFails(k)
    \/ Return
    \/ Stop
    \/ \E h \in Hashes : Damage(h)

Spec == Init /\ [][Next]_vars

-----------------------------------------------------------------------------
(* Properties. *)

\* Every variable holds a value of its kind, and a run never encrypts under the
\* empty password (GenerateZipCryptoPassword draws one before the workers start).
TypeOK ==
    /\ meta \in Metadata
    /\ parts \in [Keys -> Nat]
    /\ op \in Operation
    /\ runs \in Nat
    /\ faulty \in BOOLEAN
    /\ damaged \in BOOLEAN
    /\ op.phase \in {"upload", "drain"} => op.pass # Absent

\* Every record in the committed metadata, referenced or not, names a part that is
\* in storage and is encrypted under the record's password.  A later backup reuses
\* records without looking at storage (processFile), so unreferenced ones count too.
RecordsBacked == \A k \in Recorded(meta) : parts[k] = meta.files[k]

\* Every file of every committed version has a record: pruning by DeleteVersion, GC
\* or SingleVersionMode never drops a record a version still needs, not even when
\* ".tsync" has lost tree nodes and the walk cannot see what it needs.
ContentsRecorded == \A v \in Live(meta) : Content(meta.versions[v]) \subseteq Recorded(meta)

\* Every tree node of every committed version is in ".tsync", unless damage took one.
TreesComplete == ~ damaged => \A v \in Live(meta) : Nodes(meta.versions[v]) \subseteq meta.trees

\* Orphans come from failures only: while no call has failed and nothing crashed, a
\* store at rest holds exactly the parts its metadata records.
NoLeak == (op.kind = "none" /\ ~ faulty) =>
              \A k \in Keys : parts[k] # Absent <=> k \in Recorded(meta)

\* RunBackup without SingleVersionMode and GC leave every existing version as it was.
KeepsVersions ==
    [][op.kind \in {"backup", "gc"} =>
          \A v \in Live(meta) : meta'.versions[v] = meta.versions[v]]_vars

\* "Clients should not strip unknown fields when re-serializing a BackupMetadata they
\* didn't originate": what another client put into ".tsync" survives every rewrite.
UnknownFieldsKept == [][meta.extra => meta'.extra]_vars

\* A GC that returns without a failed Delete leaves no orphan of any earlier crash:
\* each part in storage belongs to a file of some version.
GCComplete ==
    [][(op.kind = "gc" /\ op.clean /\ Return) =>
          \A k \in Keys : parts[k] # Absent =>
              \E v \in Live(meta) : k \in Content(meta.versions[v])]_vars

\* The inductive strengthening of RecordsBacked and ContentsRecorded: the same facts
\* about the metadata an operation is about to write, and what keeps its uploads and
\* deletions away from the parts of records that are committed.
OpSafe ==
    /\ op.kind = "none" <=> op.phase = "idle"
    /\ op.phase \in {"upload", "drain"} => op.todo \cap Recorded(meta) = {}
    /\ op.phase = "upload" => \A k \in op.todo : op.target.files[k] = op.pass
    /\ op.phase \in {"upload", "write"} =>
          /\ \A k \in Recorded(op.target) \ op.todo : parts[k] = op.target.files[k]
          /\ \A v \in Live(op.target) :
                Content(op.target.versions[v]) \subseteq Recorded(op.target)
          /\ op.dels \cap Recorded(op.target) = {}
    /\ op.phase = "write" => op.todo = {}
    /\ op.phase = "list" => Recorded(op.target) = Recorded(meta)
    /\ op.phase = "delete" => op.dels \cap Recorded(meta) = {}

StoreInv == TypeOK /\ RecordsBacked /\ ContentsRecorded /\ OpSafe

\* A snapshot as a user sees it: its tree, and the files that can be recovered.
Snapshot(root, files) == <<root, files>>

Recoverable(v) == {k \in Content(meta.versions[v]) :
                      meta.files[k] # Absent /\ parts[k] = meta.files[k]}

Abs == INSTANCE VersionStore
         WITH Contents <- {Snapshot(r, Content(r)) : r \in Hashes},
              NoBackup <- NoTree,
              store <- [v \in VersionIDs |->
                          IF v \in Live(meta)
                          THEN Snapshot(meta.versions[v], Recoverable(v))
                          ELSE NoTree]

\* The store implements VersionStore: a version appears in one step (the
\* ".tsync" write) with all its files recoverable, keeps them, and goes in one step.  No
\* upload, failed write, part deletion, crash or retry shows between.
ImplementsVersionStore == Abs!Spec
=============================================================================
