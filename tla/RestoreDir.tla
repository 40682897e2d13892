----------------------------- MODULE RestoreDir -----------------------------
(***************************************************************************)
(* restoreToDir (tsync/restore.go): workers extract parts into temporary   *)
(* files beside their destinations, verify them, fsync and rename them;    *)
(* the first failure cancels the others; at the end the directories are    *)
(* fsynced.  The machine may crash at any time.                            *)
(***************************************************************************)
EXTENDS Naturals, Sequences, FiniteSets

CONSTANTS Paths,         \* the files to restore
          Workers,       \* the worker goroutines
          NoPath         \* the path of a worker that has none

ASSUME PathsAssumption == IsFiniteSet(Paths) /\ NoPath \notin Paths

VARIABLES noOverwrite,   \* opts.NoOverwrite
          skipErrors,    \* opts.SkipDecryptionErrors
          before,        \* history: what was at each path
          freshDir,      \* history: paths whose directory was not there
          disk,          \* what is at each path now
          flushed,       \* paths whose new content was fsynced before its rename
          temps,         \* paths with a temporary file beside them
          dirSynced,     \* the directories were fsynced after the renames
          skipped,       \* history: files passed over because of a bad part
          tasks,         \* taskChan
          worker,        \* the goroutines
          parent,        \* the caller's context is cancelled
          cancelled,     \* workerCancel was called
          results,       \* resultChan
          firstErr, done,\* gathered so far
          ret,           \* what restoreToDir returned
          crashed        \* the machine crashed

options == <<noOverwrite, skipErrors, before, freshDir>>
files == <<disk, flushed, temps, dirSynced>>
pool == <<tasks, worker, cancelled, results>>
vars == <<options, files, skipped, pool, parent, firstErr, done, ret, crashed>>

\* Content: of no file, of the file being restored ("same" if it was there before,
\* "new" if this run put it there), of another file, or damaged.
Contents == {"none", "same", "other", "new", "bad"}

\* Errors: "own" I/O, "bad" a part that does not decrypt or decode, "ctx" a cancelled
\* workerCtx.
Errors == {"none", "own", "bad", "ctx"}

Result == [path : Paths, err : Errors, cancelled : BOOLEAN]

Resting == [pc |-> "idle", path |-> NoPath, tmp |-> "none", synced |-> FALSE,
            err |-> "none", cancelled |-> FALSE]

Init == /\ noOverwrite \in BOOLEAN
        /\ skipErrors \in BOOLEAN
        /\ before \in [Paths -> {"none", "same", "other"}]
        /\ freshDir \in SUBSET {p \in Paths : before[p] = "none"}
        /\ disk = before
        /\ flushed = {}
        /\ temps = {}
        /\ dirSynced = FALSE
        /\ skipped = {}
        /\ tasks = Paths
        /\ worker = [w \in Workers |-> Resting]
        /\ parent = FALSE
        /\ cancelled = FALSE
        /\ results = <<>>
        /\ firstErr = "none"
        /\ done = 0
        /\ ret = [status |-> "running", err |-> "none"]
        /\ crashed = FALSE

\* workerCtx.Err() # nil
WorkerCtxDone == parent \/ cancelled

\* The worker goes on to pc; nobody else is affected.
Step(w, state) ==
    /\ worker' = [worker EXCEPT ![w] = state]
    /\ UNCHANGED <<options, files, skipped, tasks, cancelled, results, parent, firstErr,
                   done, ret, crashed>>

At(w, pc) == worker[w].pc = pc /\ ~ crashed

-----------------------------------------------------------------------------
(* Workers. *)

\* for t := range taskChan: a cancelled context becomes the result at once.
Take(w, p) ==
    /\ At(w, "idle")
    /\ p \in tasks
    /\ tasks' = tasks \ {p}
    /\ worker' = [worker EXCEPT
           ![w] = IF WorkerCtxDone
                  THEN [Resting EXCEPT !.pc = "send", !.path = p, !.err = "ctx", !.cancelled = TRUE]
                  ELSE [Resting EXCEPT !.pc = "check", !.path = p]]
    /\ UNCHANGED <<options, files, skipped, cancelled, results, parent, firstErr, done, ret, crashed>>

\* A file that must not be overwritten, or that is the one to restore.
Satisfied(p) == \/ noOverwrite /\ disk[p] # "none"
                \/ disk[p] = "same"

\* extractOne looks at what is there.
Check(w) ==
    /\ At(w, "check")
    /\ Step(w, [worker[w] EXCEPT !.pc = IF Satisfied(worker[w].path) THEN "send" ELSE "fetch"])

KeepTemp(p) == temps                        \* mutant: the temporary file is not removed

\* extractOne's deferred function; the removal itself is taken to succeed.
TempRemoved(p) == temps \ {p}

\* extractOne returns an error.
Failed(w, err) ==
    /\ worker' = [worker EXCEPT ![w].pc = "error", ![w].err = err]
    /\ temps' = TempRemoved(worker[w].path)
    /\ UNCHANGED <<options, disk, flushed, dirSynced, skipped, tasks, cancelled, results,
                   parent, firstErr, done, ret, crashed>>

\* An unsafe path or a missing record, then anything up to the temporary file, the
\* copying, the chmod and fsync, or the rename.
Fails(w, err) ==
    /\ worker[w].pc \in {"check", "fetch", "copy", "sync", "rename"} /\ ~ crashed
    /\ err = "ctx" => WorkerCtxDone /\ worker[w].pc \in {"fetch", "copy"}
    /\ err = "bad" => worker[w].pc \in {"fetch", "copy"}
    /\ Failed(w, err)

\* The part is open, its header is fine, and the temporary file is there.
Fetch(w) ==
    /\ At(w, "fetch")
    /\ temps' = temps \cup {worker[w].path}
    /\ worker' = [worker EXCEPT ![w].pc = "copy"]
    /\ UNCHANGED <<options, disk, flushed, dirSynced, skipped, tasks, cancelled, results,
                   parent, firstErr, done, ret, crashed>>

\* The part is decoded to its end: into what the record says, or something else.
Copy(w, content) ==
    /\ At(w, "copy")
    /\ Step(w, [worker[w] EXCEPT !.pc = "verify", !.tmp = content])

NotVerified(state) == TRUE                  \* mutant: sizes and CRC are not compared

\* Compressed size, size and CRC-32 are those of the record.
Verified(state) == state.tmp = "new"

Verify(w) ==
    /\ At(w, "verify")
    /\ IF Verified(worker[w]) THEN Step(w, [worker[w] EXCEPT !.pc = "sync"])
                              ELSE Failed(w, "bad")

\* tmpFile.Sync
Sync(w) ==
    /\ At(w, "sync")
    /\ Step(w, [worker[w] EXCEPT !.pc = "rename", !.synced = TRUE])

\* os.Rename
Rename(w) ==
    /\ At(w, "rename")
    /\ disk' = [disk EXCEPT ![worker[w].path] = worker[w].tmp]
    /\ flushed' = IF worker[w].synced THEN flushed \cup {worker[w].path} ELSE flushed
    /\ temps' = temps \ {worker[w].path}
    /\ worker' = [worker EXCEPT ![w].pc = "send"]
    /\ UNCHANGED <<options, dirSynced, skipped, tasks, cancelled, results, parent, firstErr,
                   done, ret, crashed>>

\* SkipDecryptionErrors turns a bad part into a success ...
Skip(w) ==
    /\ At(w, "error")
    /\ skipErrors /\ worker[w].err = "bad"
    /\ skipped' = skipped \cup {worker[w].path}
    /\ worker' = [worker EXCEPT ![w].pc = "send", ![w].err = "none"]
    /\ UNCHANGED <<options, files, tasks, cancelled, results, parent, firstErr, done, ret, crashed>>

AlwaysACause(err) == FALSE                  \* mutant: every error counts as a cause

\* The error only reflects the cancellation.
OnlyCancelled(err) == WorkerCtxDone /\ err = "ctx"

\* ... and any other error cancels the other workers.
Error(w) ==
    /\ At(w, "error")
    /\ ~ (skipErrors /\ worker[w].err = "bad")
    /\ cancelled' = TRUE
    /\ worker' = [worker EXCEPT ![w].pc = "send", ![w].cancelled = OnlyCancelled(worker[w].err)]
    /\ UNCHANGED <<options, files, skipped, tasks, results, parent, firstErr, done, ret, crashed>>

Send(w) ==
    /\ At(w, "send")
    /\ results' = Append(results, [path |-> worker[w].path, err |-> worker[w].err,
                                   cancelled |-> worker[w].cancelled])
    /\ worker' = [worker EXCEPT ![w] = Resting]
    /\ UNCHANGED <<options, files, skipped, tasks, cancelled, parent, firstErr, done, ret, crashed>>

-----------------------------------------------------------------------------
(* restoreToDir, its caller and the machine. *)

CancelParent ==
    /\ ~ parent
    /\ ret.status = "running" /\ ~ crashed
    /\ parent' = TRUE
    /\ UNCHANGED <<options, files, skipped, pool, firstErr, done, ret, crashed>>

\* One result is gathered; the first error that is a cause is kept.
Gather ==
    /\ ret.status = "running" /\ ~ crashed
    /\ results # <<>>
    /\ LET res == Head(results) IN
          IF res.err = "none"
          THEN done' = done + 1 /\ UNCHANGED firstErr
          ELSE /\ firstErr' = IF firstErr = "none" /\ ~ res.cancelled THEN res.err ELSE firstErr
               /\ UNCHANGED done
    /\ results' = Tail(results)
    /\ UNCHANGED <<options, files, skipped, tasks, worker, cancelled, parent, ret, crashed>>

\* resultChan is closed, because every worker has exited, and empty.
Drained == results = <<>> /\ tasks = {} /\ \A w \in Workers : worker[w].pc = "idle"

\* The checks after the loop, in their order.
Outcome == IF parent THEN [status |-> "incomplete", err |-> "ctx"]
           ELSE IF firstErr # "none" THEN [status |-> "failed", err |-> firstErr]
           ELSE IF done # Cardinality(Paths) THEN [status |-> "incomplete", err |-> "none"]
           ELSE [status |-> "flush", err |-> "none"]

Finish ==
    /\ ret.status = "running" /\ ~ crashed
    /\ Drained
    /\ ret' = Outcome
    /\ UNCHANGED <<options, files, skipped, pool, parent, firstErr, done, crashed>>

NoDirSync == dirSynced                      \* mutant: renames are not made durable

\* syncDir of every touched directory.
DirsSynced == TRUE

\* The empty directories are made and the touched ones fsynced ...
Flush ==
    /\ ret.status = "flush" /\ ~ crashed
    /\ dirSynced' = DirsSynced
    /\ ret' = [status |-> "ok", err |-> "none"]
    /\ UNCHANGED <<options, disk, flushed, temps, skipped, pool, parent, firstErr, done, crashed>>

\* ... or that fails.
FlushFails ==
    /\ ret.status = "flush" /\ ~ crashed
    /\ ret' = [status |-> "failed", err |-> "own"]
    /\ UNCHANGED <<options, files, skipped, pool, parent, firstErr, done, crashed>>

\* What may be at p after a crash: a rename that was not fsynced may be undone, as may
\* the entry of a new directory, which syncDir does not fsync in its parent; content
\* that was not fsynced may be lost.
Survivors(p) == IF disk[p] # "new" THEN {disk[p]}
                ELSE {"new"} \cup (IF dirSynced /\ p \notin freshDir THEN {} ELSE {before[p]})
                             \cup (IF p \in flushed THEN {} ELSE {"bad"})

\* External: the machine crashes.
Crash ==
    /\ ~ crashed
    /\ crashed' = TRUE
    /\ disk' \in {d \in [Paths -> Contents] : \A p \in Paths : d[p] \in Survivors(p)}
    /\ UNCHANGED <<options, flushed, temps, dirSynced, skipped, pool, parent, firstErr, done, ret>>

Ended ==
    /\ crashed \/ ret.status \in {"ok", "failed", "incomplete"}
    /\ UNCHANGED vars

WorkerStep(w) ==
    \/ \E p \in Paths : Take(w, p)
    \/ Check(w)
    \/ Fetch(w)
    \/ \E c \in {"new", "bad"} : Copy(w, c)
    \/ Verify(w)
    \/ Sync(w)
    \/ Rename(w)
    \/ \E err \in {"own", "bad", "ctx"} : Fails(w, err)
    \/ Skip(w)
    \/ Error(w)
    \/ Send(w)

Next == \/ \E w \in Workers : WorkerStep(w)
        \/ CancelParent
        \/ Gather
        \/ Finish
        \/ Flush
        \/ FlushFails
        \/ Crash
        \/ Ended

Spec == Init /\ [][Next]_vars

-----------------------------------------------------------------------------
(* Properties. *)

\* "failures never leave half-written corrupt files on disk": at every path is what was
\* there before or the whole restored file, also after a crash.
WholeFiles == \A p \in Paths : disk[p] \in {before[p], "new"}

\* What a successful restore leaves at p: the file, or one that must not be overwritten,
\* or whatever was there if the part is bad and bad parts may be skipped.
Restored(p) == \/ disk[p] \in {"new", "same"}
               \/ noOverwrite /\ disk[p] # "none"
               \/ skipErrors /\ p \in skipped

\* restoreToDir returns nil only when every file is restored, and a crash afterwards
\* undoes none of them, except in directories that this run created.
SuccessDurable == ret.status = "ok" =>
    \A p \in Paths : Restored(p) \/ (crashed /\ p \in freshDir)

\* When restoreToDir has returned no worker is still writing and no temporary file is
\* left, whatever failed.
NoTempLeft ==
    ret.status \in {"ok", "failed", "incomplete"} /\ ~ crashed =>
        temps = {} /\ \A w \in Workers : worker[w].pc = "idle"

\* A failed restore reports a cause, not the cancellation that one worker's failure
\* meant for the others; it reports an incomplete run only if the caller cancelled.
CauseReported == /\ ret.status = "failed" => ret.err \in {"own", "bad"}
                 /\ ret.status = "incomplete" => parent
=============================================================================
