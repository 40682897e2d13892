# t-sync SDK: TLA+ models, checks and proofs

This directory models the Go SDK for t-sync (`tsync/`, `storage_clients/`): what a
backup store holds, the operations that change it, the goroutines inside them, how a
source is listed and read, and the protocol they speak with an object store. TLC checks
small instances of every model; TLAPS proves every safety invariant that a passing run
checks, for all values of the constants. What is only model-checked is liveness.

## 1. The system

A *store* is a set of objects behind the `Storage` interface: one metadata object
`.tsync` (versions, directory tree nodes, file records, public keys) and one *part*
per distinct file content, named by its key `<crc32>_<size>`. Every `RunBackup` draws
one ZipCrypto password; the parts it uploads are encrypted under it and their records
keep it, wrapped for the store's public key.

| Component | State | Operations | Talks to |
|---|---|---|---|
| Store metadata, `backup.go`, `client.go` | `.tsync`, parts | `RunBackup`, `DeleteVersion`, `GC`, queries | `Storage` |
| Backup engine, `backup.go` | task and result channels, `flights`, run context | `process`, `processFile`, `uploadOnce`, `uploadPart`, gathering, `runError` | source, `Storage` writer |
| Trees, `backup.go`, `client.go`, `restore.go` | nodes by hash | `buildAndHash`, `walkCollect`, `walkTree` | |
| Restore engine, `restore.go` | loaded metadata, temp files, worker pool | `RunRestore`, `restoreToDir`, `restoreToZip` | `Storage` readers, disk or ZIP |
| Object writer, `storage.go` | buffer, part number, upload ID, etags, sticky error | `Write`, `Close`, `Abort` | provider client |
| Local storage, `storage.go` | files, temp files | atomic writer, ranged reads, list, delete | file system |
| Object reads and listing, `storage.go` | page cursor | `ReadRange`, `StorageReaderAt`, `List` | provider client |
| Provider clients, `s3.go`, `oci.go`, `http.go` | none between requests | object, listing and multipart requests | network, retry layer |
| Retry layer, `retry.go`, `errors.go`, `headertimeout.go` | attempt, timers, contexts | `Do`, `IsRetryable`, `OpenWithHeaderTimeout` | |
| Sources, `source.go`, `zip_utils.go` | the entries listed | `ListEntries`, `OpenDecompressed`, `OpenRaw` | `Storage` |
| Cryptography, registry, disk space, generated code | none that outlives a call | | |

What is hard here:

* an operation is several storage calls, any of which may fail, take effect with a
  lost reply, or be the last one before a crash; there is no log and no lock;
* records are reused without looking at storage, so one record without its part
  poisons every later backup;
* pruning decides what to delete from what a walk over possibly damaged trees saw;
* inside a backup, workers share uploads, cancel one another and must neither commit
  a partial run nor hide the cause of a failure;
* a restore works from metadata that may be old;
* a source changes while it is listed, keyed and copied, and an archive is read through
  requests that break off;
* results arrive in any order, and maps are walked in any order, when a tree is built;
* version timestamps come from a clock, or from the caller;
* listings go page by page over a bucket that changes, against servers of three kinds;
* multipart uploads are retried after lost replies, and timers race responses.

What makes each part correct: the store never holds a version it cannot give back, in
full, and never leaks without a failure; a backup run commits all or nothing and ends; a
part holds the content its key names, and a tree the entries it was built from; versions
keep the order in which they were made; a restore finds what a kept version needs; a
listing misses nothing; an object is replaced whole or not at all; a retried call ends,
with a live body or an error. `PROJECT.json` lists each hazard at
its source line with the properties that would catch it.

## 2. Modules

| Module | Models | Abstracts |
|---|---|---|
| `VersionStore` | the promise: a map from version IDs to restorable snapshots, changed by `Backup`, `Replace` (single-version mode) and `Delete`, each in one step | everything else |
| `TsyncStore` | `.tsync`, parts and the operation in progress, between storage calls | keys, hashes and passwords are values; a tree is the fixed graph `Sub`, `Leaf`, since a node's hash determines its content |
| `TsyncTwoClients` | two `TsyncStore` operations interleaved on one store (`INSTANCE` twice, one `op` each) | |
| `TsyncRestore` | `RunRestore` beside `TsyncStore` | the order of workers: any order of reads |
| `VersionOrder` | version IDs, timestamps, preceding and latest versions | content |
| `BackupRun` | the goroutines of one `RunBackup`, channel by channel | a file's bytes; storage calls succeed or fail |
| `EntryPart` | what one worker does with one entry: keying, reading, writing the part, comparing with the key | a file is a sequence of cells; equal keys are equal contents |
| `TreeBuild` | gathering results, building the tree, hashing it, resolving it with `walkTree` | a node is its own hash |
| `ObjectListing` | `List` page by page for each client, on a bucket others change | keys are numbers in listing order |
| `ZipListing` | `ZipFileSource.ListEntries`: end records, zip64, central directory, ranges | an archive is a sequence of cells, one per record or piece of data |
| `BackupSteps` | one specification of these steps (`VersionOrder`, `EntryPart`, `TreeBuild`, `ObjectListing`, `ZipListing`); a behaviour takes one of them | |
| `RestoreDir` | the goroutines of `restoreToDir`, its files on disk, a crash | bytes: a file is the old one, the new one or damaged |
| `RestoreZip` | `restoreToZip` and the archive it leaves in the caller's writer | bytes: of each file nothing, some or all is written |
| `RunRestore` | `RunRestore` around both: refusals, the choice of output | selection of files |
| `LocalStore` | `LocalStorage` under the calls of backups, deletions and collections, with process death and machine crash | a part is the password it is encrypted under; a file system is what is on the medium and the directory changes since, by the time they were made |
| `ObjectWriter` | `objectStorageWriter`, the growth of its parts, the multipart protocol, retries, over any of the clients | data are numbered units |
| `RangedReads` | `ReadRange` of `LocalStorage` and, over each client, of `ObjectStorage`; `StorageReaderAt` | operators, used by `ZipListing` and `EntryPart` |
| `S3Client`, `OCIClient`, `HTTPClient` | what each request makes of a reply, which request follows a page, range headers | operators, used by `ObjectWriter`, `ObjectListing`, `RangedReads` |
| `StorageErrors` | the error contract of the clients, `IsRetryable` | an error is what `errors.Is` and `errors.As` tell apart |
| `RetryOpen` | `RetryPolicy.Do` around `OpenWithHeaderTimeout` | durations: a timer expires at any time |
| `TsyncStoreProofs`, `TsyncTwoClientsProofs`, `BackupRunProofs`, `RunRestoreProofs`, `ObjectWriterProofs`, `RetryOpenProofs`, `LocalStoreProofs`, `BackupStepsProofs` | theorems about the module of that name; `TsyncStoreProofs` also those about `TsyncRestore`, `BackupStepsProofs` also those about `VersionOrder` | |
| `MC*` | instances for TLC | |

### TsyncStore

`StartBackup`, `StartDelete`, `StartGC` stand for everything an operation does until
its first write to storage: load `.tsync`, check, and (for deletions and collections)
walk and prune. They compute `op.target`, the metadata to be written, from the copy
that was loaded, as the code does. `UploadPart` is one worker's `uploadPart`,
`WriteMetadata` the single write of `.tsync`, `ListParts` GC's listing, `DeletePart`
one best-effort delete. The failing twins (`UploadFails`, `WriteMetadataFails`,
`DeletePartFails`) allow for a call that took effect all the same. After a failed upload
the phase is `drain`: workers in flight may still upload, but nothing is committed.
`Stop` is any other error return, and a crash. `Damage` is external: a tree node is lost
from `.tsync` or no longer matches its hash, which is what `walkCollect` and `walkTree`
check for. `Reach(R, T)` is what a recursive walk from `R` visits when it can read the
nodes in `T`, defined as the least closed set so that it can be proved about.

Every backup is given a new password number, so "encrypted under another password" is
a difference of numbers. The metadata's timestamps, labels and public keys do not
affect which parts are needed and are left out; `extra` stands for what another client
put into `.tsync` that this one does not copy. IDs and timestamps are `VersionOrder`'s.

### BackupRun

One worker is one goroutine of the pool; its `pc` is where it is between two shared
accesses: `file` (in `processFile`), `wait` (in `uploadOnce`'s select), `upload`,
`fail` (an error, not yet reported with `cancel`), `send`, `exited` (the task channel was
empty, `wg.Done()` ran). `wg` is the wait group's count, `results` the result channel and
`closed` whether the closer goroutine has closed it (`CloseResults`); `RunBackup` goes on
when the channel is closed and empty. `cause` is `context.Cause(runCtx)`. Errors are told apart by origin: a failure of the run's own,
the caller's cancellation, or the echo of a cancelled `runCtx` in some call.
`TsyncStore` sees a whole `BackupRun` as its uploads and the condition `ReadyToWrite`;
`CommitComplete` is what justifies that condition.

### The steps around the workers

`EntryPart` follows `processFile` and `uploadPart` for an entry of each kind of source:
one that only knows a size, one that also knows a CRC, an entry of an archive (plain or
encrypted), and one handed over in compressed form. Between any two steps the owner may
rewrite the file in place or replace it; `handle` is what the open stream still sees. A
part whose content does not match its key is aborted, except where the bytes are copied
as they are: a raw or compressed part is not verified, and if the source changed after it
was listed the part may not be what its key says. `KeyedContent` states exactly that.

`TreeBuild` has one action per gathered result and per path added to the tree, so that
every order of channel and map is explored, then hashing and resolving, with and without
`SkipValidationErrors`, after nodes may have been lost. `buildAndHash` is a function on the
directories of the tree, and the recursion of `walkTree` the set of its calls at each depth,
up to `MaxDepth`, which no path exceeds. `TreeExact` compares the result with the source's
entries directly.

`VersionOrder` separates what `RunBackup` reads when it starts (`latestVersion`, the checks
of a custom ID and timestamp) from what it writes when it commits, with the clock set to
anything between. The history variable `orderly` says that each version was newer by
timestamp than those in the store at its commit. It can be false although every check
passes: a custom timestamp may lie up to an hour in the future
(`futureTimestampTolerance`), and a clock may be set back, so that a later version with
the clock's time is older by timestamp. `latestVersion` and `StoreMetadata.LatestVersion`
then keep naming the earlier one; `VersionsOrdered` promises the preceding and the latest
version only while the store is orderly.

`ZipListing` builds an archive from a layout (entries, order of the directory, leading
data, zip64 records, comment) and one of several flaws, and follows `ListEntries`
through reads that may break off early. `ObjectListing` runs each client's paging rule
against servers that give tokens, markers or neither, and against one that is `stuck`: it
ignores where to go on and repeats a page with its token, start or marker. The HTTP client
notices that the token or marker did not advance. The S3 and the OCI client make no such
check and go on for ever (`s3.go:238`, `oci.go:214`); `ListingEnds` excepts that case by
name (`FollowedForEver`). The HTTP client compares with the last token only, so a server
with a cycle of tokens, which is not modelled, would not be noticed either.
`ZipListing` takes it that the ZIP library finds the directory the code points it to: that
cutting off the comment (`zip_utils.go:200-206`) has this effect is not itself checked.

### Restores and LocalStore

`RestoreDir` follows `extractOne` through its stages: `check` (what is at the path),
`fetch` (password, part, header, temporary file), `copy`, `verify`, `sync`, `rename`;
`Skip` and `Error` are the two things a worker does with an error, the second deciding
whether the error is a cause or an echo of the cancellation. A crash may undo a rename
until the directory is fsynced, and always where the directory itself is new: the code
does not fsync a new directory's parent, so `ExtractDurable` excepts such files. A file that
was right when the restore began is taken to be durable. After a restore that failed it
need not be: the next one skips an identical file (`restore.go:446-449`) and does not sync
its directory on that file's account.

`RestoreZip` copies one file after the other and closes the archive at the end; an archive
without its central directory is not one. It passes on what a part gives without
comparing it with the key (the reader of the ZIP does), so what is promised is that the
archive holds all of every file, not that the bytes are right. `RunRestore` decides which
of the two runs; an output directory takes precedence.

In `LocalStore` each object has a writer that goes `start`, `open`, `synced`, `renamed`,
`done` (or `failed`). `pending` holds the changes of directories not known to be on the
medium (new shard directories, renames, removals), each at the time it was made. `SyncDir`
moves those of one directory to `stable`. A crash keeps `stable` and, of `pending`, the
changes up to some time if the file system is `ordered` (a journal that commits in order), or
any of them; of several that are kept for one directory entry the last counts (`Kept`). Two things follow from the
code and are worth knowing. A shard directory is made durable by the fsync of the root
that ends the next write of `.tsync`, not when it is created; so on a file system that is
not ordered there is a window, between the rename of `.tsync` and that fsync, in which a
crash may leave a `.tsync` that names lost parts (`CrashConsistent` says that it is the
only one). And since `Close` ignores errors of `syncDir`, all guarantees on such a file
system are conditional on its success (`syncOK`); on an ordered one they are not.

`root` is the entry of the store's own directory in its parent. `NewLocalStorage` does not
make that directory; the first write does, with `MkdirAll` (`storage.go:246`), and nothing
fsyncs the parent. So `root` is `durable` if the directory was there before (which is taken
to be so), else `absent` and then `new`; an ordered file system makes it durable with the
next fsync below it, another one whenever it likes. A crash while it is `new` may take away
the whole store, after a first backup that succeeded, too. What is left then is an empty
store, which `NamedPartsThere` and `CrashConsistent` allow; `SuccessIsDurable` excepts this
case by name. A user who makes the directory beforehand is not exposed to it.

### ObjectWriter and RetryOpen

`ObjectWriter` steps once per request attempt. The provider does or does not do what it is
asked, and gives a reply the client then classifies by its own rules (`S3Client` and the
others), so that a success without its datum, an error document with status 200, a lost
reply and a 404 each take the path they take in the code. The provider may drop an
unfinished upload (`Expire`); Complete then asks HEAD, the HTTP client only when the
answer is an error document with status 200. Parts grow as in `partSizeFor`: doublings at
fixed part numbers up to the limit. In `RetryOpen` the timer's callback is a process of
its own with two steps, `fired.Store(true)` and `cancel()`. With the real constants parts
reach 4 GiB by the last part number, so the cap at 5 GiB only matters in the scaled model.

`RetryOpen` composes two exported functions, `RetryPolicy.Do` and `OpenWithHeaderTimeout`,
in the way their comments prescribe for streaming reads. No client and no test of the
repository calls the second one: `GetObjectRange` of all three clients calls `Do` with an
attempt timeout of 0. What is shown of `OpenWithHeaderTimeout` concerns those who call it.

## 3. Runs

| Run | States | Shows |
|---|---|---|
| `store` | 100 864 | `TypeOK`, `RecordsBacked`, `ContentsRecorded`, `TreesComplete`, `NoLeak`, `KeepsVersions`, `GCComplete`; a restore beside the operations finds its parts (`KeptVersionReadable`); `TsyncStore` implements `VersionStore` |
| `two_clients` | 415 422 | with two clients `.tsync` is still always consistent in itself |
| `backup_steps` | 339 383 | `ListingFaithful`, `ListingEnds`, `ZipListingExact`, `KeyedContent`, `TreeExact`, `VersionsOrdered` |
| `backup_run` | 976 203 | `CommitComplete`, `UploadedOnce`, `ErrorsExplained`, `ClosedAfterWork`, `Terminates` |
| `restore_run` | 267 174 | `WholeFiles`, `ExtractDurable`, `NoTempLeft`, `CauseReported`, `ArchiveComplete` |
| `local_store` | 370 156 | `WholeObjects`, `NamedPartsThere`, `CrashConsistent`, `SuccessIsDurable` |
| `object_writer` | 7 601 | `AllOrNothing`, `ClosePublishes`, `PartsWithinLimit`, `NoOpenUpload`, `CallsReturn` |
| `retry_open` | 510 | `BodyAlive`, `NoLeakedBody`, `CancellationIsCallers`, `DoReturns` |
| `store_unknown_fields` | violation | `UnknownFieldsKept`: a backup drops another client's fields |
| `two_clients_loss` | violation | `AnyVersionReconstructible`: a record can lose its part |
| `object_writer_head` | violation | `SuccessfulCloseIsVisible`: an older object is taken for this upload's |
| `retry_open_nil` | violation | `BodyOrError`: neither a body nor an error |

The four violations are disagreements between the code and what its documents or
comments say; `PROJECT.json` quotes both sides under `findings`.

**Bounds.** `store` has two version IDs, three runs, two files and two tree nodes, one
below the other, each with a file: enough for a backup, a failed one and its retry, and a
deletion, for a snapshot that is part of another's, and for a restore that lasts through
two operations. `two_clients` has two runs: each client can have an operation under way
while the other completes one. `backup_steps` lists five keys in pages of two (three
requests, the last page full or not) with two changes meanwhile, and what a stuck server
repeats is recorded up to six objects (`MaxListed`), three pages; archives have up to two
entries and a tail of four cells, so that the end record, the zip64 records and the
directory fall inside or outside of it, with record counts modulo two; contents have up
to two cells; trees have up to four entries on five paths that share directories and
names and have at most three (`MaxDepth`), so that equal subtrees, a file above a file, and a
file and a directory of one name occur; and four versions are made under three IDs with a clock of three values and a
tolerance of one. `backup_run` has three workers, so that one uploads, one waits for that
upload and one fails, and four entries: two with equal content, one already recorded, one
directory. `restore_run` has two workers and two files, each absent, different or already
right, in an old or a new directory, under all four combinations of the options: one
worker's failure meets the other at every stage. `local_store` has two parts, made
symmetric, and three operations, so that a part is uploaded, deleted and uploaded again;
the store's directory is there or not; an operation starts with at most three changes pending, one more than an earlier
operation's deletions leave. `object_writer` writes up to thirteen units in at most four
parts that grow from one unit to a cap of three that is no power of two, which covers a
single put, a full and a short last part, the cap, and an object that is too large, with
three attempts per request. `retry_open` has limits of two and four, the proportion of
the default policy.

**Deadlock** is checked in `backup_steps`, `backup_run`, `restore_run`, `object_writer` and
`retry_open`, where an explicit step marks the end. The store runs switch it off: `MaxRuns`
bounds the number of operations, after which an idle store may have nothing left to do.

**Fairness.** `BackupRun`: each goroutine that can run is run eventually, and storage
and source calls return, so weak fairness of each worker, of the closer, of gathering and of
finishing. Requests carry timeouts, but reading the body of a streaming GET has none: that
it ends is an assumption about I/O. Cancelling is never required of the caller. `ObjectWriter`:
each attempt ends in a reply or an error, because of the attempt timeouts; the caller
need not call again. `BackupSteps`: weak fairness of the listing's own steps
(`ListFolder`), whose attempts end because of `MetadataAttemptTimeout`; nothing obliges
others to change the bucket. `RetryOpen`: the goroutine in `Do` runs and its requests
end; the timer and its callback are under no obligation. The store modules have no
fairness: nothing obliges a user to run an operation. `RestoreDir`, `RestoreZip`,
`LocalStore` and the other steps are checked for safety only.

Each property has a mutant: a small, plausible change of one modelled definition under
which TLC finds the property violated. They stand before the definition they replace.

## 4. Proofs

Every theorem holds for all values of the constants that satisfy the named assumptions:
sets of any size, any number of workers, attempts, parts and runs. Each rests on an
inductive invariant that was first checked by TLC on the run's instance, with one lemma
per action (or per group of actions with one argument) that shows it is kept.

### The store

`TsyncStoreProofs` proves `Spec => []StoreInv` for any version IDs, keys, tree nodes,
tree shapes and number of runs; the assumptions are `TreeAssumption` (`Sub` and `Leaf`
are functions of the right kind, and `NoTree` is neither a node nor a snapshot) and
`MaxRunsAssumption`. From it follow `TypeOK`, `RecordsBacked` and `ContentsRecorded`.

Neither `RecordsBacked` nor `ContentsRecorded` is inductive: the metadata an operation
is about to write is computed long before it is committed. `OpSafe` adds what must be
known of it meanwhile: its records have their parts except for those still to be
uploaded; every version in it has its records; what is still to be uploaded has no
committed record, so an upload replaces no part in use; and what is to be deleted has no
record in the metadata that will be, or has been, written. The argument about walks is
`WalkComplete`: if the walk over all versions finds every node it needs in `.tsync`,
then the set it visited is closed under all subdirectories, hence contains every node of
every version, and pruning to it (`PruneSafe`) keeps every record. This is why damage
cannot cause loss: the walk fails instead. `NewMetadataSafe` is the corresponding fact
for `RunBackup`. One lemma per action then shows that it preserves `StoreInv`.

A second invariant, `VersionsInv`, adds to `StoreInv` what the operation in progress will do to the
versions (`TargetKeeps`): the metadata it is about to write holds every node of each of
its versions, unless damage came in between, and its map of versions differs from the
committed one as `Changes` says of its kind, from the load of `.tsync` to its write. From
this follow `TreesComplete`, `KeepsVersions` and the refinement
`Spec => ImplementsVersionStore`: under `StoreInv` every file of every version is
recoverable, so the mapped store depends on the map of versions only (`MappedStore`), and
`ChangeImplements` turns each change into `Backup`, `Replace` or `Delete`.

A third one accounts for every part (`PartsInv`). While nothing has failed the
parts in storage and those still to be uploaded are the records of both metadata, old and
new, and what a rewrite drops is what it will delete (`LeakFree`); a collection keeps the
versions, records only what they need (`PruneNeeded`: a walk visits nodes of versions
only), and has yet to delete every part without a record (`GCSound`). `NoLeak` and
`GCComplete` follow, the second also after any number of failures and crashes.

The last section of `TsyncStoreProofs` proves `RestoreSpec => []KeptVersionReadable`. The key is
`RecordsStable`: while a version stays in the store no step changes the record of any
of its files. That follows from `StoreInv` alone: before a rewrite both the committed
record and the one to be written agree with the part. So the copy a restore loaded is
still the committed one (`CopyCurrent`), and committed records are backed.

`TsyncTwoClientsProofs` proves `ContentsRecorded` and `TreesComplete` for two clients.
`StoreInv` is of no use there, since its facts about parts are false (run
`two_clients_loss`). What survives is what does not look at storage: the committed
metadata is consistent in itself (`SharedInv`), and so is the metadata each client is
about to write (`OwnInv`). `ClientStep`, in `TsyncStoreProofs`, shows that a step of
either client keeps both, whoever wrote the `.tsync` it loaded, and never undoes the
history of damage, on which the other's `OwnInv` depends. The two instances of
`TsyncStoreProofs`, one per client, then give the theorem.

### Goroutines

`BackupRunProofs` proves all four invariants of `BackupRun` from `EntriesAssumption`:
entries and workers are finite sets of the right kind, and there is a worker if there is an
entry (`min(concurrency, len(entries))`). The invariant follows an entry: a worker sends a result without
an error only for an entry whose record will have its part (`WorkerOK`), and with one only
after the run's context has a cause; a key's flight starts with its one upload, never for
a recorded key, and ends well only if the part is up (`FlightOK`); and while the run has
no cause every entry is in the task channel, with a worker, in the result channel or
gathered (`Coverage`). That last one is what makes "all workers have ended and there is no
error" mean "all entries are gathered", so that a commit is complete. `ClosedAfterWork` rests
on what the wait group counts (`PoolInv`): `wg` is the number of workers that have not
exited (`Active`), a worker exits only when no task is left, and no task comes back. So a
count of zero means that all have exited, there was at least one if there was a task, and
nothing opens the pool again.

`RunRestoreProofs` proves the five invariants of the restores. In `restoreToDir` the
number of files is compared with a counter, so the invariant says what the counter counts:
there is a set of restored files of that cardinality, and every file is in one place only
(channel, worker, result, or that set) until an error (`CountInv`). `CauseInv` follows an error from the worker that
cancels the others to `firstErr`: it is always on its way, so the echoes it causes are
never what is reported. `TempInv` gives every temporary file an owner that will remove or
rename it. After a crash nothing of this holds and only what is on disk counts, which is
why the invariant has two parts. `RestoreZip` needs only that the files before the current
one are complete.

`RetryOpenProofs` proves the three invariants of `RetryOpen`, and as an action property
that a body that was handed out is never closed or cancelled by a later step, the timer's
callback included (`HandedOutForGood`). The invariant orders the two goroutines: the
callback runs only if `Stop` came too late, and while the request is open or being stopped
a cancelled attempt means that the callback has run.

### The object writer

`ObjectWriterProofs` proves `AllOrNothing`, `ClosePublishes`, `PartsWithinLimit` and
`NoOpenUpload`, for any part sizes, limits, object size and number of attempts, all three
clients and every reply. `DataInv` is the heart: the parts that Complete will name, joined,
followed by the buffer, are what was written. It was first stated without a condition, and
TLC refuted it: once the provider has dropped the upload, a server that answers a part with
an error document under status 200 is believed by `HTTPClient`'s `UploadPart`, so the part
counts as sent. The upload is gone for good then, so nothing incomplete is published, and
the invariant says so (`upload \in {"none", "open"}`). `SuccessIsReal` collects what the
three clients' rules have in common: what they take for a success has happened, unless the
upload was unknown. `ControlInv` says which request can be in progress when.

`Assemble` joins parts with `FlattenSeq`, and part sizes are a recursive function. The
library's induction theorems take a predicate as a parameter, which the provers cannot
instantiate; `Induction` states the principle for a set instead, from the well-foundedness
of the natural numbers, and that is enough for `FlattenType`, `FlattenAppend` and
`DoubledType`.

### Local files

`LocalStoreProofs` proves the four invariants of `LocalStore` for any finite set of parts and
any `MaxRuns` and `MaxPending`, on ordered and unordered file systems. None is inductive. The
invariant says who writes when (`PhaseInv`), what the metadata to be written owes to storage
(`TargetInv`, `WrittenInv`), and relates the three views of the disk:

* what processes see is what all changes make of the medium (`SeenInv`);
* on an ordered file system every disk a crash may throw the store back to is sound: it
  holds what its `.tsync` names, with the directories (`OrderInv`). A new change adds one such
  disk, the present one, and only the rename of `.tsync` and the deletion of parts could
  make that unsound; the order of calls in `RunBackup` and `DeleteVersion` is why they do not;
* where every `syncDir` worked nothing waits for the medium that a record in `.tsync` depends
  on, except between the rename of `.tsync` and the fsync of the root (`SyncInv`);
* a store whose directory is absent has nothing on the medium, and on an ordered file system
  neither has one whose directory is `new` (`RootInv`). The loss of the directory leaves
  the empty store, which is sound, and outside the case that `SuccessIsDurable` names it is
  one of the outcomes the other changes allow anyway (`LossIsEmpty`).

`SyncDir` needs the fact that keeping first the changes of one directory, or those up to a
time, and then some of the others is keeping their union; it holds because changes of one
directory entry are all in one directory, so the last of them is still the last.

### The steps of a backup

`BackupStepsProofs` proves the five invariants of `BackupSteps`. A behaviour takes one of the
five steps; each step has an invariant of its own, and the theorem assumes only
`StepsAssumption`: keys are a finite set of positive numbers, bounds and page sizes are
numbers, a path is a sequence of one to `MaxDepth` names.

* *Versions.* `VersionHistory` is proved for `VersionOrder` by itself, for any IDs, times,
  tolerance and number of backups (`OrderAssumption`), then `VersionsOrdered`, the same
  statement in `BackupSteps`. What a running backup found when it started still
  holds at its commit (`RunOK`), in an orderly store birth and timestamps agree
  (`OrderlyOK`), and, in place of an induction over finite sets, every set of versions in the
  store has a latest one.
* *Parts.* `KeyedContent`, for contents of any length: everything but a folder's file is keyed
  by what was listed (`KeyInv`); copying bytes as they are from a source that has not changed
  is on its way to what was listed (`CopyInv`); what is about to be committed was compared
  with its key (`ComparedInv`).
* *Listings.* `ListingFaithful`, for any keys, page size, attempts and number of changes: while
  a listing goes on it has all objects that stayed and are behind the cursor, in order, and
  nothing else that is there (`PlaceInv`). What "behind" means depends on the kind of server;
  `PageIs` says what a page is in terms of it.
* *Trees.* `TreeExact`, for any paths of up to `MaxDepth` names, keys and number of entries.
  What was gathered comes from the entries (`GatherInv`), the tree has the directories
  of what was added to it and no file where a directory is (`NodeInv`), and it is stored
  whole but for what was lost (`StoredInv`). That `BuildAndHash` is what it is meant to be is
  shown by induction over the depth below a directory, that the calls of `walkTree` reach
  exactly the directories above which nothing is lost by induction over the depth of the calls.
* *Archives.* `ZipListingExact`, for every length of the tail and every modulus of the record
  count, over the layouts and flaws of the model, a fixed set. The end record that is found is
  the archive's, not one in a comment; where the directory begins is what the archive says or,
  after a read that came short, the beginning of the file (`DirInv`), and from there every
  entry is out of place, so the listing fails. `ReadsArePrefixes` and `RangeRead` say
  what a ranged read can return over each storage.

### Only model-checked

* Liveness (`Terminates`, `CallsReturn`, `DoReturns`, `ListingEnds`): fairness is out of
  the prover's reach.
* The four violations: what they state is false.

## 5. Not modelled

* Credentials and authentication, regions and namespaces, `ListBuckets`, URL escaping;
  the client registry, a plain map that `init` functions fill before anything runs.
* Temporary files that a dead process leaves behind: nothing reads them, `List` hides
  them, and so `GC` does not remove them.
* The bytes of ZIP headers, compression, AES entries (refused by the code), ZipCrypto and
  NaCl box: that a part decrypts exactly under its password and that a key names its
  content are assumed. (A key is a CRC-32 and a size; two files that collide are one file
  to this program.)
* Concurrency between an attempt that was abandoned by timeout and its successor: a
  late `PutObject` or `DeleteObject` taking effect after the operation has ended.
* Validation of entry names in `walkTree` and the selection of files to restore: inputs.
* Queries other than the latest version and the resolution of a tree: they copy and sort
  what the metadata holds. Progress callbacks, disk space checks, backoff durations,
  generated code.

## 6. Plan

Done, in this order: `TsyncStore` with `VersionStore`, its proofs, `TsyncRestore` and
its proof, `TsyncTwoClients`, `BackupRun`, `ObjectWriter`, `RetryOpen`, `RestoreDir`,
`LocalStore`; then `RestoreZip` with `RunRestore`, the three clients with `StorageErrors`
and `RangedReads`, growing parts in `ObjectWriter`, `ObjectListing`, `ZipListing`,
`EntryPart`, `TreeBuild`, `VersionOrder` and its proof, and the remaining theorems about
`TsyncStore`. Then the proofs of `BackupRun`, `RunRestore`, `ObjectWriter`, `RetryOpen`
and `TsyncTwoClients`.

Last, `LocalStore` and `TreeBuild` were restated so that they can be reasoned about (changes
by time in place of a fold, recursive functions in place of RECURSIVE operators), and
`LocalStore` and all steps of `BackupSteps` were proved.

What is left: archives beyond the fixed layouts of `ZipListing` (more entries, longer
comments), and the items of section 5.
