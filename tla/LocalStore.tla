----------------------------- MODULE LocalStore -----------------------------
(***************************************************************************)
(* A store in LocalStorage (tsync/storage.go): objects are files, replaced *)
(* by localAtomicWriter (temporary file, fsync, rename, fsync of the       *)
(* directory), parts in shard directories below the root, ".tsync" in the  *)
(* root.  Backups, deletions and collections follow the order of calls of  *)
(* backup.go and client.go.  The process may die and the machine may       *)
(* crash: a crash keeps the directory changes that were fsynced and, of    *)
(* the others, a prefix on an ordered file system, any of them otherwise.  *)
(***************************************************************************)
EXTENDS Naturals, FiniteSets, FiniteSetsExt

CONSTANTS Parts,         \* file keys; each has a shard directory of its own
          MetaObject,    \* ".tsync"
          MaxRuns,       \* bound: backups and deletions in a behaviour
          MaxPending     \* bound: changes not yet on the medium when an operation starts

ASSUME PartsAssumption == IsFiniteSet(Parts) /\ MetaObject \notin Parts
ASSUME BoundsAssumption == MaxRuns \in Nat /\ MaxPending \in Nat

VARIABLES ordered,       \* the file system keeps the order of directory changes
          root,          \* the store's directory: "absent", "new" (made by the store, its entry
                         \* in the parent directory not fsynced) or "durable"
          now,           \* what is in the file system, as processes see it
          stable,        \* what of it is on the medium for certain
          pending,       \* directory changes since, by the time they were made
          runs,          \* backups and deletions so far; the nth encrypts under password n
          op,            \* the operation in progress
          writer,        \* the localAtomicWriter of each object
          syncOK         \* history: since the last crash a syncDir that worked followed every
                         \* rename

vars == <<ordered, root, now, stable, pending, runs, op, writer, syncOK>>

Objects == Parts \cup {MetaObject}

Absent == 0              \* password of a part or record that is not there
Torn == MaxRuns + 1      \* what is left of content that was not fsynced

\* A part holds the password it is encrypted under, ".tsync" that of every record.
NoRecords == [p \in Parts |-> Absent]
EmptyDisk == [parts |-> NoRecords, meta |-> NoRecords, shards |-> {}]
Named(meta) == {p \in Parts : meta[p] # Absent}

NoPending == [i \in {} |-> Absent]

Idle == [kind |-> "none", phase |-> "idle", target |-> NoRecords, todo |-> {}, drop |-> {}]

Init == /\ ordered \in BOOLEAN
        /\ root \in {"absent", "durable"}
        /\ now = EmptyDisk
        /\ stable = EmptyDisk
        /\ pending = NoPending
        /\ runs = 0
        /\ op = Idle
        /\ writer = [o \in Objects |-> "none"]
        /\ syncOK = TRUE

-----------------------------------------------------------------------------
(* The file system. *)

\* Directory changes: an entry of the root ("shard", "meta") or of p's shard ("part").
Change(what, p, value) == [what |-> what, part |-> p, value |-> value]

Changed(disk, c) ==
    CASE c.what = "shard" -> [disk EXCEPT !.shards = @ \cup {c.part}]
      [] c.what = "meta"  -> [disk EXCEPT !.meta = c.value]
      [] c.what = "part"  -> [disk EXCEPT !.parts[c.part] = c.value]

\* The change c is made, later than all others.
Made(c) == LET n == Max(DOMAIN pending \cup {0}) + 1
           IN  [i \in DOMAIN pending \cup {n} |-> IF i = n THEN c ELSE pending[i]]

\* The changes of one entry among those of the times in I, and what the last of them leaves.
Of(I, what, p) == {i \in I : pending[i].what = what /\ pending[i].part = p}
LastValue(I, before) == IF I = {} THEN before ELSE pending[Max(I)].value

\* The changes of the times in I are on the medium.
Kept(I) == [parts  |-> [p \in Parts |-> LastValue(Of(I, "part", p), stable.parts[p])],
            meta   |-> LastValue(Of(I, "meta", MetaObject), stable.meta),
            shards |-> stable.shards \cup {p \in Parts : Of(I, "shard", p) # {}}]

NoChanges(o) == {}                          \* mutant: syncDir does nothing

\* The changes of the directory that holds o.
ChangesBeside(o) ==
    {i \in DOMAIN pending : IF o = MetaObject THEN pending[i].what \in {"shard", "meta"}
                                              ELSE pending[i].what = "part" /\ pending[i].part = o}

\* What an fsync of that directory writes: an ordered file system writes what was before, too.
Written(o) == {i \in DOMAIN pending :
                   \/ i \in ChangesBeside(o)
                   \/ ordered /\ \E j \in ChangesBeside(o) : i <= j}

\* Without its directory a part is lost.
Found(disk) == [disk EXCEPT !.parts =
                    [p \in Parts |-> IF p \in disk.shards THEN disk.parts[p] ELSE Absent]]

\* What a crash may leave in the store's directory ...
Survivors == {Found(Kept(I)) : I \in {J \in SUBSET DOMAIN pending :
                                         ordered => \A i \in J, j \in DOMAIN pending :
                                                        j < i => j \in J}}

\* ... which is lost itself, with all that is in it, while its own entry is not durable.
Outcomes == Survivors \cup (IF root = "durable" THEN {} ELSE {EmptyDisk})

\* The entry of the store's directory after a directory below it, or it, was fsynced: an
\* ordered file system writes what was made before.
RootSynced == IF ordered THEN "durable" ELSE root

-----------------------------------------------------------------------------
(* Writing an object. *)

Value(o) == IF o = MetaObject THEN op.target ELSE op.target[o]

\* Content that was not fsynced may be anything once its rename is on the medium.
TornValue(o) == IF o = MetaObject THEN [p \in Parts |-> Torn] ELSE Torn

\* openAtomicWriter: MkdirAll makes the directories that are missing, the store's own too;
\* the temporary file is made.
OpenWriter(o) ==
    /\ writer[o] = "start"
    /\ writer' = [writer EXCEPT ![o] = "open"]
    /\ root' = IF root = "absent" THEN "new" ELSE root
    /\ IF o = MetaObject \/ o \in now.shards
       THEN UNCHANGED <<now, pending>>
       ELSE /\ now' = [now EXCEPT !.shards = @ \cup {o}]
            /\ pending' = Made(Change("shard", o, Absent))
    /\ UNCHANGED <<ordered, stable, runs, op, syncOK>>

UnsyncedState == "dirty"                    \* mutant: the file is not fsynced

\* What the file is after f.Sync.
SyncedState == "synced"

\* Everything is written and Close is under way: f.Sync.
SyncFile(o) ==
    /\ writer[o] = "open"
    /\ writer' = [writer EXCEPT ![o] = SyncedState]
    /\ UNCHANGED <<ordered, root, now, stable, pending, runs, op, syncOK>>

\* os.Rename
Rename(o) ==
    /\ writer[o] \in {"synced", "dirty"}
    /\ writer' = [writer EXCEPT ![o] = "renamed"]
    /\ LET c == IF o = MetaObject THEN Change("meta", o, Value(o)) ELSE Change("part", o, Value(o))
       IN  /\ now' = Changed(now, c)
           /\ pending' = Made(IF writer[o] = "synced" THEN c
                           ELSE [c EXCEPT !.value = TornValue(o)])
    /\ UNCHANGED <<ordered, root, stable, runs, op, syncOK>>

\* syncDir of the object's directory works ...
SyncDir(o) ==
    /\ writer[o] = "renamed"
    /\ writer' = [writer EXCEPT ![o] = "done"]
    /\ stable' = Kept(Written(o))
    /\ pending' = [i \in DOMAIN pending \ Written(o) |-> pending[i]]
    /\ root' = RootSynced
    /\ UNCHANGED <<ordered, now, runs, op, syncOK>>

\* ... or not, or has no effect on this platform; Close ignores that.
SyncDirFails(o) ==
    /\ writer[o] = "renamed"
    /\ writer' = [writer EXCEPT ![o] = "done"]
    /\ syncOK' = FALSE
    /\ UNCHANGED <<ordered, root, now, stable, pending, runs, op>>

\* Opening, writing, fsync, close or rename fails, or the context is cancelled: the
\* temporary file is removed by Close or Abort and the run fails.
WriteFails(o) ==
    /\ writer[o] \in {"start", "open", "synced"}
    /\ writer' = [writer EXCEPT ![o] = "failed"]
    /\ UNCHANGED <<ordered, root, now, stable, pending, runs, op, syncOK>>

-----------------------------------------------------------------------------
(* Operations. *)

Begin(kind, target, todo, drop) ==
    /\ op = Idle
    /\ Cardinality(DOMAIN pending) <= MaxPending
    /\ op' = [kind |-> kind, phase |-> IF kind = "gc" THEN "cleanup" ELSE "parts",
              target |-> target, todo |-> todo, drop |-> drop]
    /\ writer' = [o \in Objects |-> IF o \in todo THEN "start" ELSE "none"]

\* A backup of the files N: recorded ones are not looked at, the others are uploaded.
StartBackup(N, single) ==
    /\ runs < MaxRuns
    /\ runs' = runs + 1
    /\ Begin("backup",
             [p \in Parts |-> IF p \in N /\ now.meta[p] = Absent THEN runs + 1
                              ELSE IF single /\ p \notin N THEN Absent
                              ELSE now.meta[p]],
             N \ Named(now.meta),
             IF single THEN Named(now.meta) \ N ELSE {})
    /\ UNCHANGED <<ordered, root, now, stable, pending, syncOK>>

\* DeleteVersion, where only the files N are needed afterwards.
StartDelete(N) ==
    /\ runs < MaxRuns
    /\ runs' = runs + 1
    /\ Begin("delete", [p \in Parts |-> IF p \in N THEN now.meta[p] ELSE Absent],
             {}, Named(now.meta) \ N)
    /\ UNCHANGED <<ordered, root, now, stable, pending, syncOK>>

\* GC with nothing to prune; List shows the parts and no temporary file.
StartGC ==
    /\ Begin("gc", now.meta, {}, {p \in Parts : now.parts[p] # Absent} \ Named(now.meta))
    /\ UNCHANGED <<ordered, root, now, stable, pending, runs, syncOK>>

PartsStarted ==                             \* mutant: no waiting for the last Close
    \A p \in op.todo : writer[p] \in {"open", "synced", "renamed", "done"}

\* Every part's Close has returned nil.
PartsWritten == \A p \in op.todo : writer[p] = "done"

\* store.Write of ".tsync" begins.
WriteMetadata ==
    /\ op.phase = "parts"
    /\ PartsWritten
    /\ op' = [op EXCEPT !.phase = "meta"]
    /\ writer' = [writer EXCEPT ![MetaObject] = "start"]
    /\ UNCHANGED <<ordered, root, now, stable, pending, runs, syncOK>>

MetadataWritten ==
    /\ op.phase = "meta"
    /\ writer[MetaObject] = "done"
    /\ op' = [op EXCEPT !.phase = "cleanup"]
    /\ UNCHANGED <<ordered, root, now, stable, pending, runs, writer, syncOK>>

\* Delete: os.Remove, or nothing is there.
Delete(p) ==
    /\ op.phase = "cleanup"
    /\ p \in op.drop
    /\ op' = [op EXCEPT !.drop = @ \ {p}]
    /\ IF now.parts[p] = Absent
       THEN UNCHANGED <<now, pending>>
       ELSE /\ now' = [now EXCEPT !.parts[p] = Absent]
            /\ pending' = Made(Change("part", p, Absent))
    /\ UNCHANGED <<ordered, root, stable, runs, writer, syncOK>>

\* The error is ignored.
DeleteFails(p) ==
    /\ op.phase = "cleanup"
    /\ p \in op.drop
    /\ op' = [op EXCEPT !.drop = @ \ {p}]
    /\ UNCHANGED <<ordered, root, now, stable, pending, runs, writer, syncOK>>

Finished == [Idle EXCEPT !.kind = "ok"]

Return ==
    /\ op.phase = "cleanup" /\ op.drop = {}
    /\ op' = Finished
    /\ UNCHANGED <<ordered, root, now, stable, pending, runs, writer, syncOK>>

\* The next operation may start.
Rest ==
    /\ op = Finished
    /\ op' = Idle
    /\ UNCHANGED <<ordered, root, now, stable, pending, runs, writer, syncOK>>

\* A write has failed; the others have ended, and the operation returns the error.
ReturnError ==
    /\ op.phase \in {"parts", "meta"}
    /\ \E o \in Objects : writer[o] = "failed"
    /\ \A o \in Objects : writer[o] \in {"none", "done", "failed"}
    /\ op' = Idle
    /\ UNCHANGED <<ordered, root, now, stable, pending, runs, writer, syncOK>>

\* External: the process dies.  Its temporary files stay, but nothing reads them.
Die ==
    /\ op # Idle
    /\ op' = Idle
    /\ writer' = [o \in Objects |-> "none"]
    /\ syncOK' = (syncOK /\ \A o \in Objects : writer[o] # "renamed")
    /\ UNCHANGED <<ordered, root, now, stable, pending, runs>>

\* External: the machine crashes.
Crash ==
    /\ \/ /\ root # "absent"
          /\ now' \in Survivors
          /\ root' = "durable"
       \/ /\ root # "durable"
          /\ now' = EmptyDisk
          /\ root' = "absent"
    /\ stable' = now'
    /\ pending' = NoPending
    /\ op' = Idle
    /\ writer' = [o \in Objects |-> "none"]
    /\ syncOK' = TRUE
    /\ UNCHANGED <<ordered, runs>>

Next == \/ \E o \in Objects : \/ OpenWriter(o)
                              \/ SyncFile(o)
                              \/ Rename(o)
                              \/ SyncDir(o)
                              \/ SyncDirFails(o)
                              \/ WriteFails(o)
        \/ \E N \in SUBSET Parts, single \in BOOLEAN : StartBackup(N, single)
        \/ \E N \in SUBSET Named(now.meta) : StartDelete(N)
        \/ StartGC
        \/ WriteMetadata
        \/ MetadataWritten
        \/ \E p \in Parts : Delete(p)
        \/ \E p \in Parts : DeleteFails(p)
        \/ Return
        \/ Rest
        \/ ReturnError
        \/ Die
        \/ Crash

Spec == Init /\ [][Next]_vars

-----------------------------------------------------------------------------
(* Properties. *)

\* Every part that ".tsync" names is there, under the password of its record.
Consistent(disk) == \A p \in Named(disk.meta) : disk.parts[p] = disk.meta[p]

\* "Readers observe either the old or the new content, never a mix" of LocalStorage.Write
\* and OpenWriter: no object is ever torn, also after a crash.
WholeObjects == \A p \in Parts : now.parts[p] # Torn /\ now.meta[p] # Torn

\* On a file system that keeps the order of directory changes the store is consistent at
\* all times, whatever crashes and even where syncDir, whose errors Close ignores, fails.
NamedPartsThere == ordered => Consistent(now)

\* On any other file system a crash finds a consistent store where every syncDir worked,
\* except between the rename of ".tsync" and the fsync of the root, which is also what
\* makes new shard directories durable.
CrashConsistent ==
    ~ ordered /\ syncOK /\ writer[MetaObject] # "renamed" /\ Consistent(now) =>
        \A disk \in Outcomes : Consistent(disk)

\* When an operation has returned nil and every syncDir worked, no crash brings back an
\* older ".tsync" or takes away a part it names, except that a store whose directory
\* MkdirAll made is lost whole where the file system does not keep the order of changes:
\* nothing fsyncs the directory's entry in its parent.
SuccessIsDurable ==
    op = Finished /\ syncOK /\ (ordered \/ root # "new") =>
        \A disk \in Outcomes :
            /\ disk.meta = now.meta
            /\ \A p \in Named(now.meta) : disk.parts[p] = now.parts[p]
=============================================================================
