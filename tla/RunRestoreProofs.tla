-------------------------- MODULE RunRestoreProofs --------------------------
(***************************************************************************)
(* Proofs about RunRestore, and about RestoreDir and RestoreZip in it, for *)
(* every finite set of files and every number of workers.                  *)
(***************************************************************************)
EXTENDS RunRestore, FiniteSetTheorems, TLAPS

-----------------------------------------------------------------------------
(* The invariant of restoreToDir. *)

PCs == {"idle", "check", "fetch", "copy", "verify", "sync", "rename", "error", "send"}

\* Between the creation of the temporary file and its removal or rename.
Copying == {"copy", "verify", "sync", "rename"}

Job == [pc : PCs, path : Paths \cup {NoPath}, tmp : {"none", "new", "bad"},
        synced : BOOLEAN, err : Errors, cancelled : BOOLEAN]

Statuses == {"running", "refused", "flush", "ok", "failed", "incomplete"}

TypeOK == /\ noOverwrite \in BOOLEAN
          /\ skipErrors \in BOOLEAN
          /\ before \in [Paths -> {"none", "same", "other"}]
          /\ freshDir \subseteq Paths
          /\ disk \in [Paths -> Contents]
          /\ flushed \subseteq Paths
          /\ temps \subseteq Paths
          /\ dirSynced \in BOOLEAN
          /\ skipped \subseteq Paths
          /\ tasks \subseteq Paths
          /\ worker \in [Workers -> Job]
          /\ parent \in BOOLEAN
          /\ cancelled \in BOOLEAN
          /\ results \in Seq(Result)
          /\ firstErr \in {"none", "own", "bad"}
          /\ done \in Nat
          /\ ret \in [status : Statuses, err : Errors]
          /\ crashed \in BOOLEAN

\* A worker renames only a verified, fsynced file; it reports success only for a file
\* that is restored, and "ctx" as a cause of its own never.
JobOK(w) ==
    /\ worker[w].pc # "idle" => worker[w].path \in Paths
    /\ worker[w].pc \in {"check", "fetch"} \cup Copying => worker[w].err = "none"
    /\ worker[w].pc \in {"sync", "rename"} => worker[w].tmp = "new"
    /\ worker[w].pc = "rename" => worker[w].synced
    /\ worker[w].pc = "error" => worker[w].err # "none"
    /\ worker[w].err = "ctx" => WorkerCtxDone
    /\ worker[w].pc = "send" /\ worker[w].err = "none" => Restored(worker[w].path)
    /\ worker[w].pc = "send" /\ worker[w].err # "none" => WorkerCtxDone
    /\ worker[w].pc = "send" /\ ~ worker[w].cancelled => worker[w].err # "ctx"

ResultOK(r) == /\ r.err = "none" => Restored(r.path)
               /\ r.err # "none" => WorkerCtxDone
               /\ ~ r.cancelled => r.err # "ctx"

\* A temporary file belongs to a worker that will remove or rename it.
TempInv == \A p \in temps : \E w \in Workers : worker[w].pc \in Copying /\ worker[w].path = p

\* What a rename puts in place was fsynced.
FlushInv == \A p \in Paths : disk[p] = "new" => p \in flushed

\* One worker's failure cancels the others, and is on its way to restoreToDir.
CauseInv == WorkerCtxDone =>
    \/ parent
    \/ firstErr # "none"
    \/ \E w \in Workers : /\ worker[w].pc = "send" /\ worker[w].err # "none"
                          /\ ~ worker[w].cancelled
    \/ \E i \in 1..Len(results) : results[i].err # "none" /\ ~ results[i].cancelled

\* Every file is in one place: in the channel, with one worker, in one result, or in G,
\* the files counted as done.  One is in none of them only after an error.
InOnePlace(G) ==
    /\ \A p \in G : p \notin tasks /\ Restored(p)
    /\ \A w \in Workers : worker[w].pc # "idle" => worker[w].path \notin tasks \cup G
    /\ \A v, w \in Workers : v # w /\ worker[v].pc # "idle" /\ worker[w].pc # "idle"
                                => worker[v].path # worker[w].path
    /\ \A i \in 1..Len(results) :
          /\ results[i].path \notin tasks \cup G
          /\ \A w \in Workers : worker[w].pc # "idle" => worker[w].path # results[i].path
    /\ \A i, j \in 1..Len(results) : i # j => results[i].path # results[j].path
    /\ ~ WorkerCtxDone => \A p \in Paths :
          \/ p \in tasks \cup G
          \/ \E w \in Workers : worker[w].pc # "idle" /\ worker[w].path = p
          \/ \E i \in 1..Len(results) : results[i].path = p

CountInv == \E G \in SUBSET Paths : done = Cardinality(G) /\ InOnePlace(G)

\* What has been decided when restoreToDir leaves its loop.
RetInv == /\ ret.status \in {"flush", "ok", "failed", "incomplete"} => Drained
          /\ ret.status \in {"flush", "ok"} => \A p \in Paths : Restored(p)
          /\ ret.status = "ok" => dirSynced

LiveInv == /\ \A w \in Workers : JobOK(w)
           /\ \A i \in 1..Len(results) : ResultOK(results[i])
           /\ TempInv
           /\ FlushInv
           /\ CauseInv
           /\ CountInv
           /\ RetInv

\* After a crash only what is on disk, and what was promised about it, counts.
DirInv == /\ TypeOK
          /\ WholeFiles
          /\ CauseReported
          /\ SuccessDurable
          /\ ~ crashed => LiveInv

-----------------------------------------------------------------------------
(* restoreToDir. *)

\* restoreToDir starts in its invariant, whatever was at the paths.
LEMMA InitInv == Init => DirInv
<1> SUFFICES ASSUME Init
             PROVE  DirInv
  OBVIOUS
<1>1. /\ dirSynced \in BOOLEAN /\ parent \in BOOLEAN /\ cancelled \in BOOLEAN
      /\ crashed \in BOOLEAN /\ ~ crashed /\ ~ parent /\ ~ cancelled
  BY DEF Init
<1>2. worker \in [Workers -> Job]
  <2>1. Resting \in Job
    BY DEF Resting, Job, PCs, Errors
  <2> QED
    BY <2>1 DEF Init
<1>3. results \in Seq(Result) /\ Len(results) = 0 /\ 1..Len(results) = {} /\ done \in Nat
  BY DEF Init
<1>4. ret \in [status : Statuses, err : Errors] /\ ret.status = "running"
  BY DEF Init, Statuses, Errors
<1>5. disk \in [Paths -> Contents] /\ before \in [Paths -> {"none", "same", "other"}]
  BY DEF Init, Contents
<1>6. TypeOK
  BY <1>1, <1>2, <1>3, <1>4, <1>5 DEF Init, TypeOK
<1>7. WholeFiles /\ CauseReported /\ SuccessDurable
  BY <1>4 DEF Init, WholeFiles, CauseReported, SuccessDurable
<1>8. \A w \in Workers : worker[w].pc = "idle" /\ worker[w].err = "none"
  BY DEF Init, Resting
<1>9. \A w \in Workers : JobOK(w)
  BY <1>8 DEF JobOK, Copying
<1>10. TempInv /\ FlushInv /\ CauseInv
  BY <1>1, <1>5 DEF Init, TempInv, FlushInv, CauseInv, WorkerCtxDone
<1>11. CountInv
  <2>1. InOnePlace({})
    BY <1>3, <1>8 DEF Init, InOnePlace
  <2>2. done = Cardinality({})
    BY FS_EmptySet DEF Init
  <2> QED
    BY <2>1, <2>2 DEF CountInv
<1>12. RetInv
  BY <1>4 DEF RetInv
<1> QED
  BY <1>3, <1>6, <1>7, <1>9, <1>10, <1>11, <1>12 DEF DirInv, LiveInv

\* A file that is restored stays so, and a cancelled context stays cancelled.
Onward == /\ \A p \in Paths : Restored(p) => Restored(p)'
          /\ WorkerCtxDone => WorkerCtxDone'

\* What holds of a worker that does not move is not disturbed by those that do.
LEMMA OtherWorkers ==
    ASSUME NEW w, JobOK(w), worker'[w] = worker[w], Onward
    PROVE  JobOK(w)'
<1>1. worker[w].pc = "send" => worker[w].path \in Paths
  BY DEF JobOK
<1> QED
  BY <1>1 DEF JobOK, Onward

\* A worker goes from one step of extractOne to the next with its file.
LEMMA WorkerMoves ==
    ASSUME DirInv, ~ crashed, NEW w \in Workers, NEW j \in Job,
           worker[w].pc \notin {"idle", "send"}, j.pc # "idle", j.path = worker[w].path,
           worker' = [worker EXCEPT ![w] = j],
           UNCHANGED <<options, dirSynced, tasks, results, parent, firstErr, done, ret,
                       crashed>>,
           disk' \in [Paths -> Contents], flushed' \subseteq Paths, temps' \subseteq Paths,
           skipped' \subseteq Paths, cancelled' \in BOOLEAN,
           Onward, WholeFiles', FlushInv', JobOK(w)',
           \A p \in temps' : \/ p \in temps /\ p # j.path
                             \/ p = j.path /\ j.pc \in Copying,
           WorkerCtxDone' => \/ WorkerCtxDone
                             \/ j.pc = "send" /\ j.err # "none" /\ ~ j.cancelled
    PROVE  DirInv'
<1>0. /\ TypeOK /\ CauseReported /\ SuccessDurable
      /\ \A v \in Workers : JobOK(v)
      /\ \A i \in 1..Len(results) : ResultOK(results[i])
      /\ TempInv /\ CauseInv /\ CountInv /\ RetInv
      /\ UNCHANGED <<noOverwrite, skipErrors, before, freshDir>>
  BY DEF DirInv, LiveInv, options
<1>1. /\ worker' \in [Workers -> Job]
      /\ worker'[w] = j
      /\ \A v \in Workers : v # w => worker'[v] = worker[v]
  BY <1>0 DEF TypeOK
<1>2. TypeOK'
  BY <1>0, <1>1 DEF TypeOK
<1>3. ret.status \in {"running", "refused"} /\ ret'.status \in {"running", "refused"}
  BY <1>0 DEF RetInv, Drained, TypeOK, Statuses
<1>4. CauseReported' /\ SuccessDurable' /\ RetInv'
  BY <1>3 DEF CauseReported, SuccessDurable, RetInv
<1>5. \A v \in Workers : JobOK(v)'
  BY <1>0, <1>1, OtherWorkers
<1>6. ASSUME NEW i \in 1..Len(results')
      PROVE  ResultOK(results[i])'
  <2>1. ResultOK(results[i]) /\ results[i] \in Result
    BY <1>0 DEF TypeOK
  <2>2. results[i].path \in Paths
    BY <2>1 DEF Result
  <2> QED
    BY <2>1, <2>2 DEF ResultOK, Onward
<1>7. TempInv'
  BY <1>0, <1>1 DEF TempInv
<1>8. CauseInv'
  <2> SUFFICES ASSUME WorkerCtxDone'
               PROVE  CauseInv'
    BY DEF CauseInv
  <2>1. CASE WorkerCtxDone
    <3>1. ASSUME NEW v \in Workers, worker[v].pc = "send"
          PROVE  worker'[v] = worker[v]
      BY <1>1, <3>1
    <3> QED
      BY <2>1, <3>1, <1>0 DEF CauseInv
  <2>2. CASE j.pc = "send" /\ j.err # "none" /\ ~ j.cancelled
    BY <2>2, <1>1 DEF CauseInv
  <2> QED
    BY <2>1, <2>2
<1>9. CountInv'
  <2>1. PICK G \in SUBSET Paths : done = Cardinality(G) /\ InOnePlace(G)
    BY <1>0 DEF CountInv
  <2>2. \A v \in Workers : /\ worker'[v].pc # "idle" <=> worker[v].pc # "idle"
                           /\ worker'[v].path = worker[v].path
    BY <1>1
  <2>3. InOnePlace(G)'
    BY <2>1, <2>2, <1>2 DEF InOnePlace, Onward
  <2> QED
    BY <2>1, <2>3 DEF CountInv
<1> QED
  BY <1>2, <1>4, <1>5, <1>6, <1>7, <1>8, <1>9 DEF DirInv, LiveInv

\* A worker that is not copying has no temporary file, nor has another for its file.
LEMMA NoTempOf ==
    ASSUME DirInv, ~ crashed, NEW w \in Workers, worker[w].pc \notin Copying,
           worker[w].pc # "idle"
    PROVE  worker[w].path \notin temps
<1>1. PICK G \in SUBSET Paths : InOnePlace(G)
  BY DEF DirInv, LiveInv, CountInv
<1> QED
  BY <1>1 DEF DirInv, LiveInv, TempInv, InOnePlace, Copying

\* A step of a worker that changes no file.
LEMMA QuietStep ==
    ASSUME DirInv, ~ crashed, NEW w \in Workers, NEW j \in Job, Step(w, j),
           worker[w].pc \notin {"idle", "send"}, j.pc # "idle", j.path = worker[w].path,
           worker[w].pc \in Copying => j.pc \in Copying,
           j.pc \in {"fetch"} \cup Copying => j.err = "none",
           j.pc \in {"sync", "rename"} => j.tmp = "new",
           j.pc = "rename" => j.synced,
           j.pc \notin {"check", "error"}, j.err = "none",
           j.pc = "send" => Restored(j.path)
    PROVE  DirInv'
<1>0. /\ TypeOK /\ WholeFiles /\ FlushInv /\ JobOK(w)
      /\ worker' = [worker EXCEPT ![w] = j]
      /\ UNCHANGED <<options, noOverwrite, skipErrors, before, freshDir, disk, flushed,
                     temps, dirSynced, skipped, tasks, cancelled, results, parent,
                     firstErr, done, ret, crashed>>
  BY DEF DirInv, LiveInv, Step, options, files
<1>1. Onward /\ WholeFiles' /\ FlushInv' /\ (WorkerCtxDone' => WorkerCtxDone)
  BY <1>0 DEF Onward, Restored, WorkerCtxDone, WholeFiles, FlushInv
<1>2. worker'[w] = j
  BY <1>0 DEF TypeOK
<1>3. JobOK(w)'
  BY <1>0, <1>1, <1>2 DEF JobOK, Onward
<1>4. \A p \in temps' : \/ p \in temps /\ p # j.path
                        \/ p = j.path /\ j.pc \in Copying
  BY <1>0, NoTempOf
<1>5. /\ disk' \in [Paths -> Contents] /\ flushed' \subseteq Paths /\ temps' \subseteq Paths
      /\ skipped' \subseteq Paths /\ cancelled' \in BOOLEAN
  BY <1>0 DEF TypeOK
<1> QED
  BY <1>0, <1>1, <1>3, <1>4, <1>5, WorkerMoves

\* extractOne looks at the destination, decodes the part, and fsyncs what is verified.
LEMMA QuietSteps ==
    ASSUME DirInv, ~ crashed, NEW w \in Workers,
           \/ Check(w) \/ Sync(w)
           \/ \E c \in {"new", "bad"} : Copy(w, c)
           \/ Verify(w) /\ Verified(worker[w])
    PROVE  DirInv'
<1>0. TypeOK /\ JobOK(w) /\ worker[w] \in Job
  BY DEF DirInv, LiveInv, TypeOK
<1> USE DEF PCs, Copying
<1>1. CASE Check(w)
  <2> DEFINE j == [worker[w] EXCEPT !.pc = IF Satisfied(worker[w].path) THEN "send"
                                                                         ELSE "fetch"]
  <2>1. /\ j \in Job /\ j.path = worker[w].path /\ j.err = worker[w].err
        /\ j.pc = IF Satisfied(worker[w].path) THEN "send" ELSE "fetch"
    BY <1>0 DEF Job
  <2>2. Step(w, j) /\ worker[w].pc = "check"
    BY <1>1 DEF Check, At
  <2> HIDE DEF j
  <2>3. j.pc = "send" => Restored(j.path)
    BY <2>1 DEF Satisfied, Restored
  <2>4. j.err = "none"
    BY <2>1, <2>2, <1>0 DEF JobOK
  <2> QED
    BY <2>1, <2>2, <2>3, <2>4, QuietStep
<1>2. CASE Sync(w)
  <2> DEFINE k == [worker[w] EXCEPT !.pc = "rename"]
             j == [k EXCEPT !.synced = TRUE]
  <2>1. /\ k \in Job /\ k.path = worker[w].path /\ k.err = worker[w].err
        /\ k.pc = "rename" /\ k.tmp = worker[w].tmp
    BY <1>0 DEF Job
  <2>2. Step(w, j) /\ worker[w].pc = "sync"
    BY <1>2 DEF Sync, At
  <2> HIDE DEF k
  <2>3. /\ j \in Job /\ j.path = k.path /\ j.err = k.err
        /\ j.pc = "rename" /\ j.tmp = k.tmp /\ j.synced
    BY <2>1 DEF Job
  <2> HIDE DEF j
  <2>4. j.err = "none" /\ j.tmp = "new"
    BY <2>1, <2>2, <2>3, <1>0 DEF JobOK
  <2> QED
    BY <2>1, <2>2, <2>3, <2>4, QuietStep
<1>3. ASSUME NEW c \in {"new", "bad"}, Copy(w, c)
      PROVE  DirInv'
  <2> DEFINE k == [worker[w] EXCEPT !.pc = "verify"]
             j == [k EXCEPT !.tmp = c]
  <2>1. /\ k \in Job /\ k.path = worker[w].path /\ k.err = worker[w].err
        /\ k.pc = "verify"
    BY <1>0 DEF Job
  <2>2. Step(w, j) /\ worker[w].pc = "copy"
    BY <1>3 DEF Copy, At
  <2> HIDE DEF k
  <2>3. j \in Job /\ j.path = k.path /\ j.err = k.err /\ j.pc = "verify"
    BY <2>1 DEF Job
  <2> HIDE DEF j
  <2>4. j.err = "none"
    BY <2>1, <2>2, <2>3, <1>0 DEF JobOK
  <2> QED
    BY <2>1, <2>2, <2>3, <2>4, QuietStep
<1>4. CASE Verify(w) /\ Verified(worker[w])
  <2> DEFINE j == [worker[w] EXCEPT !.pc = "sync"]
  <2>1. /\ j \in Job /\ j.path = worker[w].path /\ j.err = worker[w].err
        /\ j.pc = "sync" /\ j.tmp = worker[w].tmp
    BY <1>0 DEF Job
  <2>2. Step(w, j) /\ worker[w].pc = "verify"
    BY <1>4 DEF Verify, At
  <2> HIDE DEF j
  <2>3. j.tmp = "new" /\ j.err = "none"
    BY <2>1, <2>2, <1>0, <1>4 DEF Verified, JobOK
  <2> QED
    BY <2>1, <2>2, <2>3, QuietStep
<1> QED
  BY <1>1, <1>2, <1>3, <1>4

\* extractOne returns an error: its temporary file is gone before anyone hears of it.
LEMMA FailedStep ==
    ASSUME DirInv, ~ crashed, NEW w \in Workers,
           \/ \E err \in {"own", "bad", "ctx"} : Fails(w, err)
           \/ Verify(w) /\ ~ Verified(worker[w])
    PROVE  DirInv'
<1>0. TypeOK /\ WholeFiles /\ FlushInv /\ JobOK(w) /\ worker[w] \in Job
  BY DEF DirInv, LiveInv, TypeOK
<1>1. PICK err \in {"own", "bad", "ctx"} :
         /\ Failed(w, err)
         /\ err = "ctx" => WorkerCtxDone
         /\ worker[w].pc \in {"check", "fetch", "copy", "verify", "sync", "rename"}
  BY DEF Fails, Verify, At
<1> DEFINE k == [worker[w] EXCEPT !.pc = "error"]
           j == [k EXCEPT !.err = err]
<1>2. worker' = [worker EXCEPT ![w] = j]
  BY <1>0, <1>1 DEF Failed, TypeOK, Job
<1>3. k \in Job /\ k.path = worker[w].path /\ k.pc = "error"
  BY <1>0 DEF Job, PCs
<1> HIDE DEF k
<1>4. j \in Job /\ j.path = worker[w].path /\ j.pc = "error" /\ j.err = err
  BY <1>3 DEF Job, Errors
<1> HIDE DEF j
<1>5. /\ temps' = temps \ {worker[w].path}
      /\ UNCHANGED <<options, noOverwrite, skipErrors, before, freshDir, disk, flushed,
                     dirSynced, skipped, tasks, cancelled, results, parent, firstErr,
                     done, ret, crashed>>
  BY <1>1 DEF Failed, TempRemoved, options
<1>6. Onward /\ WholeFiles' /\ FlushInv' /\ (WorkerCtxDone' => WorkerCtxDone)
  BY <1>0, <1>5 DEF Onward, Restored, WorkerCtxDone, WholeFiles, FlushInv
<1>7. worker'[w] = j
  BY <1>0, <1>2 DEF TypeOK
<1>8. JobOK(w)'
  BY <1>0, <1>1, <1>4, <1>6, <1>7 DEF JobOK, Onward, Copying
<1>9. /\ disk' \in [Paths -> Contents] /\ flushed' \subseteq Paths /\ temps' \subseteq Paths
      /\ skipped' \subseteq Paths /\ cancelled' \in BOOLEAN
      /\ \A p \in temps' : p \in temps /\ p # j.path
  BY <1>0, <1>4, <1>5 DEF TypeOK
<1> QED
  BY <1>1, <1>2, <1>4, <1>5, <1>6, <1>8, <1>9, WorkerMoves

\* The temporary file is created.
LEMMA FetchStep ==
    ASSUME DirInv, ~ crashed, NEW w \in Workers, Fetch(w)
    PROVE  DirInv'
<1>0. TypeOK /\ WholeFiles /\ FlushInv /\ JobOK(w) /\ worker[w] \in Job
  BY DEF DirInv, LiveInv, TypeOK
<1> DEFINE j == [worker[w] EXCEPT !.pc = "copy"]
<1>1. worker' = [worker EXCEPT ![w] = j] /\ worker[w].pc = "fetch"
  BY <1>0 DEF Fetch, At, TypeOK, Job
<1>2. j \in Job /\ j.path = worker[w].path /\ j.pc = "copy" /\ j.err = worker[w].err
  BY <1>0 DEF Job, PCs
<1> HIDE DEF j
<1>3. /\ temps' = temps \cup {worker[w].path}
      /\ UNCHANGED <<options, noOverwrite, skipErrors, before, freshDir, disk, flushed,
                     dirSynced, skipped, tasks, cancelled, results, parent, firstErr,
                     done, ret, crashed>>
  BY DEF Fetch, options
<1>4. Onward /\ WholeFiles' /\ FlushInv' /\ (WorkerCtxDone' => WorkerCtxDone)
  BY <1>0, <1>3 DEF Onward, Restored, WorkerCtxDone, WholeFiles, FlushInv
<1>5. worker'[w] = j
  BY <1>0, <1>1 DEF TypeOK
<1>6. JobOK(w)'
  BY <1>0, <1>1, <1>2, <1>4, <1>5 DEF JobOK, Onward, Copying
<1>7. /\ disk' \in [Paths -> Contents] /\ flushed' \subseteq Paths /\ temps' \subseteq Paths
      /\ skipped' \subseteq Paths /\ cancelled' \in BOOLEAN
  BY <1>0, <1>1, <1>3 DEF TypeOK, JobOK
<1>8. \A p \in temps' : \/ p \in temps /\ p # j.path
                        \/ p = j.path /\ j.pc \in Copying
  BY <1>2, <1>3 DEF Copying
<1> QED
  BY <1>1, <1>2, <1>3, <1>4, <1>6, <1>7, <1>8, WorkerMoves

\* The verified, fsynced file takes its place: the file is restored from here on.
LEMMA RenameStep ==
    ASSUME DirInv, ~ crashed, NEW w \in Workers, Rename(w)
    PROVE  DirInv'
<1>0. TypeOK /\ WholeFiles /\ FlushInv /\ JobOK(w) /\ worker[w] \in Job
  BY DEF DirInv, LiveInv, TypeOK
<1> DEFINE j == [worker[w] EXCEPT !.pc = "send"]
           q == worker[w].path
<1>1. worker' = [worker EXCEPT ![w] = j] /\ worker[w].pc = "rename"
  BY <1>0 DEF Rename, At, TypeOK, Job
<1>2. j \in Job /\ j.path = q /\ j.pc = "send" /\ j.err = worker[w].err
  BY <1>0 DEF Job, PCs
<1>3. q \in Paths /\ worker[w].tmp = "new" /\ worker[w].synced /\ worker[w].err = "none"
  BY <1>0, <1>1 DEF JobOK, Copying
<1> HIDE DEF j
<1>4. /\ temps' = temps \ {q}
      /\ disk' = [disk EXCEPT ![q] = "new"]
      /\ flushed' = flushed \cup {q}
      /\ UNCHANGED <<options, noOverwrite, skipErrors, before, freshDir,
                     dirSynced, skipped, tasks, cancelled, results, parent, firstErr,
                     done, ret, crashed>>
  BY <1>3 DEF Rename, options
<1>5. /\ disk' \in [Paths -> Contents] /\ flushed' \subseteq Paths /\ temps' \subseteq Paths
      /\ skipped' \subseteq Paths /\ cancelled' \in BOOLEAN
      /\ disk'[q] = "new"
      /\ \A p \in Paths : p # q => disk'[p] = disk[p]
  BY <1>0, <1>3, <1>4 DEF TypeOK, Contents
<1>6. Onward /\ (WorkerCtxDone' => WorkerCtxDone)
  <2>1. ASSUME NEW p \in Paths, Restored(p)
        PROVE  Restored(p)'
    <3>1. CASE p = q
      BY <3>1, <1>5 DEF Restored
    <3>2. CASE p # q
      BY <3>2, <2>1, <1>4, <1>5 DEF Restored
    <3> QED
      BY <3>1, <3>2
  <2> QED
    BY <2>1, <1>4 DEF Onward, WorkerCtxDone
<1>7. WholeFiles' /\ FlushInv'
  BY <1>0, <1>4, <1>5 DEF WholeFiles, FlushInv
<1>8. worker'[w] = j
  BY <1>0, <1>1 DEF TypeOK
<1>9. JobOK(w)'
  <2>1. Restored(worker[w].path)'
    BY <1>2, <1>5, <1>8 DEF Restored
  <2> QED
    BY <2>1, <1>2, <1>3, <1>8 DEF JobOK, Copying
<1> QED
  BY <1>1, <1>2, <1>4, <1>5, <1>6, <1>7, <1>9, WorkerMoves

\* A bad part is passed over if that was asked for; any other error cancels the workers.
LEMMA ErrorSteps ==
    ASSUME DirInv, ~ crashed, NEW w \in Workers, Skip(w) \/ Error(w)
    PROVE  DirInv'
<1>0. TypeOK /\ WholeFiles /\ FlushInv /\ JobOK(w) /\ worker[w] \in Job
  BY DEF DirInv, LiveInv, TypeOK
<1>1. /\ worker[w].pc = "error" /\ worker[w].path \in Paths /\ worker[w].err # "none"
      /\ worker[w].path \notin temps
  BY <1>0, NoTempOf DEF Skip, Error, At, JobOK, Copying
<1>2. UNCHANGED <<options, noOverwrite, skipErrors, before, freshDir, disk, flushed,
                  temps, dirSynced, tasks, results, parent, firstErr, done, ret, crashed>>
  BY DEF Skip, Error, options, files
<1> DEFINE k == [worker[w] EXCEPT !.pc = "send"]
<1>3. k \in Job /\ k.path = worker[w].path /\ k.pc = "send" /\ k.err = worker[w].err
  BY <1>0 DEF Job, PCs
<1>4. WholeFiles' /\ FlushInv'
  BY <1>0, <1>2 DEF WholeFiles, FlushInv
<1>5. CASE Skip(w)
  <2> DEFINE j == [k EXCEPT !.err = "none"]
  <2>1. worker' = [worker EXCEPT ![w] = j]
    BY <1>0, <1>5 DEF Skip, TypeOK, Job
  <2> HIDE DEF k
  <2>2. j \in Job /\ j.path = worker[w].path /\ j.pc = "send" /\ j.err = "none"
    BY <1>3 DEF Job, Errors
  <2> HIDE DEF j
  <2>3. skipped' = skipped \cup {worker[w].path} /\ cancelled' = cancelled /\ skipErrors
    BY <1>5 DEF Skip
  <2>4. /\ Onward
        /\ WorkerCtxDone' => WorkerCtxDone
    BY <1>2, <2>3 DEF Onward, Restored, WorkerCtxDone
  <2>5. worker'[w] = j /\ Restored(worker[w].path)'
    <3>1. worker'[w] = j
      BY <1>0, <2>1 DEF TypeOK
    <3>2. worker'[w].path \in skipped' /\ skipErrors'
      BY <3>1, <1>2, <2>2, <2>3
    <3> QED
      BY <3>1, <3>2 DEF Restored
  <2>6. JobOK(w)'
    BY <1>1, <2>2, <2>4, <2>5 DEF JobOK, Copying
  <2>7. /\ disk' \in [Paths -> Contents] /\ flushed' \subseteq Paths /\ temps' \subseteq Paths
        /\ skipped' \subseteq Paths /\ cancelled' \in BOOLEAN
    BY <1>0, <1>1, <1>2, <2>3 DEF TypeOK
  <2>8. \A p \in temps' : p \in temps /\ p # j.path
    BY <1>1, <1>2, <2>2
  <2> QED
    BY <1>1, <1>2, <1>4, <2>1, <2>2, <2>4, <2>6, <2>7, <2>8, WorkerMoves
<1>6. CASE Error(w)
  <2> DEFINE c == OnlyCancelled(worker[w].err)
             j == [k EXCEPT !.cancelled = c]
  <2>1. worker' = [worker EXCEPT ![w] = j]
    BY <1>0, <1>6 DEF Error, TypeOK, Job
  <2>2. c \in BOOLEAN /\ (c <=> WorkerCtxDone /\ worker[w].err = "ctx")
    BY DEF OnlyCancelled
  <2> HIDE DEF k, c
  <2>3. j \in Job /\ j.path = k.path /\ j.pc = k.pc /\ j.err = k.err /\ j.cancelled = c
    BY <1>3, <2>2 DEF Job
  <2> HIDE DEF j
  <2>4. skipped' = skipped /\ cancelled' \in BOOLEAN /\ cancelled'
    BY <1>6 DEF Error
  <2>5. Onward /\ WorkerCtxDone'
    BY <1>2, <2>4 DEF Onward, Restored, WorkerCtxDone
  <2>6. worker'[w] = j
    BY <1>0, <2>1 DEF TypeOK
  <2>7. j.err = "ctx" => WorkerCtxDone
    BY <1>0, <1>3, <2>3 DEF JobOK
  <2>8. ~ j.cancelled => j.err # "ctx"
    BY <1>3, <2>2, <2>3, <2>7
  <2>9. JobOK(w)'
    BY <1>1, <1>3, <2>3, <2>5, <2>6, <2>8 DEF JobOK, Copying
  <2>10. WorkerCtxDone \/ (j.pc = "send" /\ j.err # "none" /\ ~ j.cancelled)
    BY <1>1, <1>3, <2>2, <2>3
  <2>11. /\ disk' \in [Paths -> Contents] /\ flushed' \subseteq Paths /\ temps' \subseteq Paths
         /\ skipped' \subseteq Paths
    BY <1>0, <1>2, <2>4 DEF TypeOK
  <2>12. \A p \in temps' : p \in temps /\ p # j.path
    BY <1>1, <1>2, <1>3, <2>3
  <2> QED
    BY <1>1, <1>2, <1>3, <1>4, <2>1, <2>3, <2>4, <2>5, <2>9, <2>10, <2>11, <2>12, WorkerMoves
<1> QED
  BY <1>5, <1>6

\* A worker takes a file from the channel.
LEMMA TakeStep ==
    ASSUME DirInv, ~ crashed, NEW w \in Workers, NEW q \in Paths, Take(w, q)
    PROVE  DirInv'
<1>0. /\ TypeOK /\ WholeFiles /\ CauseReported /\ SuccessDurable
      /\ \A v \in Workers : JobOK(v)
      /\ \A i \in 1..Len(results) : ResultOK(results[i])
      /\ TempInv /\ FlushInv /\ CauseInv /\ CountInv /\ RetInv
      /\ worker[w].pc = "idle" /\ q \in tasks
      /\ tasks' = tasks \ {q}
      /\ UNCHANGED <<noOverwrite, skipErrors, before, freshDir, disk, flushed, temps,
                     dirSynced, skipped, cancelled, results, parent, firstErr, done, ret,
                     crashed>>
  BY DEF DirInv, LiveInv, Take, At, options, files
<1> DEFINE j == IF WorkerCtxDone
                THEN [Resting EXCEPT !.pc = "send", !.path = q, !.err = "ctx",
                                     !.cancelled = TRUE]
                ELSE [Resting EXCEPT !.pc = "check", !.path = q]
<1>1. worker' = [worker EXCEPT ![w] = j]
  BY DEF Take
<1>2. /\ j \in Job /\ j.path = q
      /\ \/ WorkerCtxDone /\ j.pc = "send" /\ j.err = "ctx" /\ j.cancelled
         \/ j.pc = "check" /\ j.err = "none"
  <2>1. CASE WorkerCtxDone
    <3>1. j = [pc |-> "send", path |-> q, tmp |-> "none", synced |-> FALSE,
               err |-> "ctx", cancelled |-> TRUE]
      BY <2>1 DEF Resting
    <3> QED
      BY <2>1, <3>1 DEF Job, PCs, Errors
  <2>2. CASE ~ WorkerCtxDone
    <3>1. j = [pc |-> "check", path |-> q, tmp |-> "none", synced |-> FALSE,
               err |-> "none", cancelled |-> FALSE]
      BY <2>2 DEF Resting
    <3> QED
      BY <3>1 DEF Job, PCs, Errors
  <2> QED
    BY <2>1, <2>2
<1> HIDE DEF j
<1>3. /\ worker' \in [Workers -> Job]
      /\ worker'[w] = j
      /\ \A v \in Workers : v # w => worker'[v] = worker[v]
  BY <1>0, <1>1, <1>2 DEF TypeOK
<1>4. TypeOK'
  BY <1>0, <1>3 DEF TypeOK
<1>5. Onward /\ (WorkerCtxDone' <=> WorkerCtxDone) /\ \A p \in Paths : Restored(p)' <=> Restored(p)
  BY <1>0 DEF Onward, WorkerCtxDone, Restored
<1>6. ret.status \in {"running", "refused"} /\ ret'.status \in {"running", "refused"}
  BY <1>0 DEF RetInv, Drained, TypeOK, Statuses
<1>7. CauseReported' /\ SuccessDurable' /\ RetInv' /\ WholeFiles' /\ FlushInv'
  BY <1>0, <1>6 DEF CauseReported, SuccessDurable, RetInv, WholeFiles, FlushInv
<1>8. JobOK(w)'
  BY <1>2, <1>3, <1>5 DEF JobOK, Copying
<1>9. \A v \in Workers : JobOK(v)'
  BY <1>0, <1>3, <1>5, <1>8, OtherWorkers
<1>10. ASSUME NEW i \in 1..Len(results')
       PROVE  ResultOK(results[i])'
  BY <1>0 DEF ResultOK, WorkerCtxDone, Restored
<1>11. TempInv'
  BY <1>0, <1>3 DEF TempInv, Copying
<1>12. CauseInv'
  BY <1>0, <1>3, <1>5 DEF CauseInv
<1>13. CountInv'
  <2>1. PICK G \in SUBSET Paths : done = Cardinality(G) /\ InOnePlace(G)
    BY <1>0 DEF CountInv
  <2>2. InOnePlace(G)'
    <3>1. \A p \in G : p \notin tasks' /\ Restored(p)'
      BY <2>1, <1>0, <1>5 DEF InOnePlace
    <3>2. q \notin G /\ \A v \in Workers : worker[v].pc # "idle" => worker[v].path # q
      BY <2>1, <1>0 DEF InOnePlace
    <3>3. \A v \in Workers : worker'[v].pc # "idle" => worker'[v].path \notin tasks' \cup G
      BY <2>1, <3>2, <1>0, <1>2, <1>3 DEF InOnePlace
    <3>4. \A u, v \in Workers : u # v /\ worker'[u].pc # "idle" /\ worker'[v].pc # "idle"
                                  => worker'[u].path # worker'[v].path
      BY <2>1, <3>2, <1>2, <1>3 DEF InOnePlace
    <3>5. \A i \in 1..Len(results) :
             /\ results[i].path \notin tasks' \cup G
             /\ \A v \in Workers : worker'[v].pc # "idle" => worker'[v].path # results[i].path
      BY <2>1, <1>0, <1>2, <1>3 DEF InOnePlace
    <3>6. ASSUME ~ WorkerCtxDone, NEW p \in Paths
          PROVE  \/ p \in tasks' \cup G
                 \/ \E v \in Workers : worker'[v].pc # "idle" /\ worker'[v].path = p
                 \/ \E i \in 1..Len(results) : results[i].path = p
      <4>1. CASE p = q
        BY <4>1, <1>2, <1>3
      <4>2. CASE p # q
        BY <4>2, <3>6, <2>1, <1>0, <1>3 DEF InOnePlace
      <4> QED
        BY <4>1, <4>2
    <3> QED
      BY <2>1, <3>1, <3>3, <3>4, <3>5, <3>6, <1>0, <1>5 DEF InOnePlace
  <2> QED
    BY <2>1, <2>2, <1>0 DEF CountInv
<1> QED
  BY <1>4, <1>7, <1>9, <1>10, <1>11, <1>12, <1>13 DEF DirInv, LiveInv

\* A worker sends its result and rests.
LEMMA SendStep ==
    ASSUME DirInv, ~ crashed, NEW w \in Workers, Send(w)
    PROVE  DirInv'
<1> DEFINE r == [path |-> worker[w].path, err |-> worker[w].err,
                 cancelled |-> worker[w].cancelled]
<1>0. /\ TypeOK /\ WholeFiles /\ CauseReported /\ SuccessDurable
      /\ \A v \in Workers : JobOK(v)
      /\ \A i \in 1..Len(results) : ResultOK(results[i])
      /\ TempInv /\ FlushInv /\ CauseInv /\ CountInv /\ RetInv
      /\ worker[w].pc = "send"
      /\ results' = Append(results, r)
      /\ worker' = [worker EXCEPT ![w] = Resting]
      /\ UNCHANGED <<noOverwrite, skipErrors, before, freshDir, disk, flushed, temps,
                     dirSynced, skipped, tasks, cancelled, parent, firstErr, done, ret,
                     crashed>>
  BY DEF DirInv, LiveInv, Send, At, options, files
<1>1. /\ r \in Result /\ r.path = worker[w].path /\ r.err = worker[w].err
      /\ r.cancelled = worker[w].cancelled
  BY <1>0 DEF Result, TypeOK, Job, JobOK
<1> HIDE DEF r
<1>2. ResultOK(r)
  BY <1>0, <1>1 DEF ResultOK, JobOK
<1>3. /\ results' \in Seq(Result)
      /\ Len(results) \in Nat
      /\ Len(results') = Len(results) + 1
      /\ \A i \in 1..Len(results) : results'[i] = results[i]
      /\ results'[Len(results')] = r
  BY <1>0, <1>1 DEF TypeOK
<1>4. /\ worker' \in [Workers -> Job]
      /\ worker'[w].pc = "idle" /\ worker'[w].err = "none"
      /\ \A v \in Workers : v # w => worker'[v] = worker[v]
  <2>1. Resting \in Job /\ Resting.pc = "idle" /\ Resting.err = "none"
    BY DEF Resting, Job, PCs, Errors
  <2> QED
    BY <2>1, <1>0 DEF TypeOK
<1>5. TypeOK'
  BY <1>0, <1>3, <1>4 DEF TypeOK
<1>6. Onward /\ (WorkerCtxDone' <=> WorkerCtxDone) /\ \A p \in Paths : Restored(p)' <=> Restored(p)
  BY <1>0 DEF Onward, WorkerCtxDone, Restored
<1>7. ret.status \in {"running", "refused"} /\ ret'.status \in {"running", "refused"}
  BY <1>0 DEF RetInv, Drained, TypeOK, Statuses
<1>8. CauseReported' /\ SuccessDurable' /\ RetInv' /\ WholeFiles' /\ FlushInv'
  BY <1>0, <1>7 DEF CauseReported, SuccessDurable, RetInv, WholeFiles, FlushInv
<1>9. JobOK(w)'
  BY <1>4 DEF JobOK, Copying
<1>10. \A v \in Workers : JobOK(v)'
  BY <1>0, <1>4, <1>6, <1>9, OtherWorkers
<1>11. ASSUME NEW i \in 1..Len(results')
       PROVE  ResultOK(results[i])'
  <2>1. ResultOK(results'[i])
    BY <1>0, <1>2, <1>3
  <2> QED
    BY <2>1, <1>0 DEF ResultOK, WorkerCtxDone, Restored
<1>12. TempInv'
  BY <1>0, <1>4 DEF TempInv, Copying
<1>13. CauseInv'
  <2> SUFFICES ASSUME WorkerCtxDone
               PROVE  CauseInv'
    BY <1>6 DEF CauseInv
  <2>1. CASE worker[w].err # "none" /\ ~ worker[w].cancelled
    <3>1. /\ Len(results') \in 1..Len(results')
          /\ results'[Len(results')].err # "none" /\ ~ results'[Len(results')].cancelled
      BY <2>1, <1>1, <1>3
    <3> QED
      BY <3>1 DEF CauseInv
  <2>2. CASE ~ (worker[w].err # "none" /\ ~ worker[w].cancelled)
    <3>1. ASSUME NEW v \in Workers, worker[v].pc = "send", worker[v].err # "none",
                 ~ worker[v].cancelled
          PROVE  worker'[v] = worker[v]
      BY <2>2, <3>1, <1>4
    <3>2. ASSUME NEW i \in 1..Len(results), results[i].err # "none", ~ results[i].cancelled
          PROVE  \E k \in 1..Len(results') : results'[k].err # "none" /\ ~ results'[k].cancelled
      <4>1. i \in 1..Len(results') /\ results'[i] = results[i]
        BY <1>3
      <4> QED
        BY <4>1, <3>2
    <3> QED
      BY <1>0, <3>1, <3>2 DEF CauseInv
  <2> QED
    BY <2>1, <2>2
<1>14. CountInv'
  <2>1. PICK G \in SUBSET Paths : done = Cardinality(G) /\ InOnePlace(G)
    BY <1>0 DEF CountInv
  <2>2. InOnePlace(G)'
    <3>1. \A p \in G : p \notin tasks /\ Restored(p)'
      BY <2>1, <1>6 DEF InOnePlace
    <3>2. ASSUME NEW v \in Workers, worker'[v].pc # "idle"
          PROVE  v # w /\ worker'[v] = worker[v]
      BY <3>2, <1>4
    <3>3. \A v \in Workers : worker'[v].pc # "idle" => worker'[v].path \notin tasks \cup G
      BY <2>1, <3>2 DEF InOnePlace
    <3>4. \A u, v \in Workers : u # v /\ worker'[u].pc # "idle" /\ worker'[v].pc # "idle"
                                  => worker'[u].path # worker'[v].path
      BY <2>1, <3>2 DEF InOnePlace
    <3>5. ASSUME NEW i \in 1..Len(results')
          PROVE  /\ results'[i].path \notin tasks \cup G
                 /\ \A v \in Workers : worker'[v].pc # "idle" => worker'[v].path # results'[i].path
      <4>1. CASE i \in 1..Len(results)
        BY <4>1, <2>1, <3>2, <1>3 DEF InOnePlace
      <4>2. CASE i = Len(results')
        BY <4>2, <2>1, <3>2, <1>0, <1>1, <1>3 DEF InOnePlace
      <4> QED
        BY <4>1, <4>2, <1>3
    <3>6. ASSUME NEW i \in 1..Len(results'), NEW k \in 1..Len(results'), i # k
          PROVE  results'[i].path # results'[k].path
      <4>1. CASE i \in 1..Len(results) /\ k \in 1..Len(results)
        BY <4>1, <3>6, <2>1, <1>3 DEF InOnePlace
      <4>2. CASE i = Len(results') /\ k \in 1..Len(results)
        BY <4>2, <2>1, <1>0, <1>1, <1>3 DEF InOnePlace
      <4>3. CASE k = Len(results') /\ i \in 1..Len(results)
        BY <4>3, <2>1, <1>0, <1>1, <1>3 DEF InOnePlace
      <4> QED
        BY <4>1, <4>2, <4>3, <3>6, <1>3
    <3>7. ASSUME ~ WorkerCtxDone, NEW p \in Paths
          PROVE  \/ p \in tasks \cup G
                 \/ \E v \in Workers : worker'[v].pc # "idle" /\ worker'[v].path = p
                 \/ \E i \in 1..Len(results') : results'[i].path = p
      <4>1. CASE p = worker[w].path
        <5>1. Len(results') \in 1..Len(results') /\ results'[Len(results')].path = p
          BY <4>1, <1>1, <1>3
        <5> QED
          BY <5>1
      <4>2. ASSUME NEW v \in Workers, worker[v].pc # "idle", worker[v].path = p,
                   p # worker[w].path
            PROVE  worker'[v] = worker[v]
        BY <4>2, <1>4
      <4>3. ASSUME NEW i \in 1..Len(results), results[i].path = p
            PROVE  i \in 1..Len(results') /\ results'[i].path = p
        BY <4>3, <1>3
      <4> QED
        BY <4>1, <4>2, <4>3, <3>7, <2>1 DEF InOnePlace
    <3> QED
      BY <3>1, <3>3, <3>4, <3>5, <3>6, <3>7, <1>0, <1>6 DEF InOnePlace
  <2> QED
    BY <2>1, <2>2, <1>0 DEF CountInv
<1> QED
  BY <1>5, <1>8, <1>10, <1>11, <1>12, <1>13, <1>14 DEF DirInv, LiveInv

\* restoreToDir gathers a result: one more file is done, or the first cause is kept.
LEMMA GatherStep ==
    ASSUME DirInv, ~ crashed, Gather
    PROVE  DirInv'
<1> DEFINE r == Head(results)
<1>0. /\ TypeOK /\ WholeFiles /\ CauseReported /\ SuccessDurable
      /\ \A v \in Workers : JobOK(v)
      /\ \A i \in 1..Len(results) : ResultOK(results[i])
      /\ TempInv /\ FlushInv /\ CauseInv /\ CountInv /\ RetInv
      /\ ret.status = "running"
      /\ results # <<>>
      /\ results' = Tail(results)
      /\ UNCHANGED <<noOverwrite, skipErrors, before, freshDir, disk, flushed, temps,
                     dirSynced, skipped, tasks, worker, cancelled, parent, ret, crashed>>
  BY DEF DirInv, LiveInv, Gather, options, files
<1>1. /\ r \in Result
      /\ r = results[1]
      /\ Len(results) \in Nat \ {0}
      /\ results' \in Seq(Result)
      /\ Len(results') = Len(results) - 1
      /\ \A i \in 1..Len(results') : results'[i] = results[i + 1]
  BY <1>0 DEF TypeOK
<1>2. ResultOK(r)
  BY <1>0, <1>1
<1>3. IF r.err = "none"
      THEN done' = done + 1 /\ firstErr' = firstErr
      ELSE /\ firstErr' = IF firstErr = "none" /\ ~ r.cancelled THEN r.err ELSE firstErr
           /\ done' = done
  BY DEF Gather
<1> HIDE DEF r
<1>4. firstErr' \in {"none", "own", "bad"} /\ done' \in Nat
  BY <1>0, <1>1, <1>2, <1>3 DEF TypeOK, ResultOK, Result, Errors
<1>5. TypeOK'
  BY <1>0, <1>1, <1>4 DEF TypeOK
<1>6. Onward /\ (WorkerCtxDone' <=> WorkerCtxDone) /\ \A p \in Paths : Restored(p)' <=> Restored(p)
  BY <1>0 DEF Onward, WorkerCtxDone, Restored
<1>7. /\ CauseReported' /\ SuccessDurable' /\ RetInv' /\ WholeFiles' /\ FlushInv' /\ TempInv'
      /\ ret'.status = "running"
  BY <1>0 DEF CauseReported, SuccessDurable, RetInv, WholeFiles, FlushInv, TempInv
<1>8. \A v \in Workers : JobOK(v)'
  BY <1>0, <1>6, OtherWorkers
<1>9. ASSUME NEW i \in 1..Len(results')
      PROVE  ResultOK(results[i])'
  <2>1. i + 1 \in 1..Len(results)
    BY <1>1
  <2>2. ResultOK(results[i + 1])
    BY <1>0, <2>1
  <2> QED
    BY <2>2, <1>0, <1>1 DEF ResultOK, WorkerCtxDone, Restored
<1>10. ASSUME NEW i \in 1..Len(results), i # 1
       PROVE  \E k \in 1..Len(results') : results'[k] = results[i]
  <2>1. i - 1 \in 1..Len(results') /\ (i - 1) + 1 = i
    BY <1>1, <1>10
  <2>2. results'[i - 1] = results[i]
    BY <1>1, <2>1
  <2> QED
    BY <2>1, <2>2
<1>11. CauseInv'
  <2> SUFFICES ASSUME WorkerCtxDone
               PROVE  CauseInv'
    BY <1>6 DEF CauseInv
  <2>1. CASE r.err # "none" /\ ~ r.cancelled
    BY <2>1, <1>0, <1>3 DEF CauseInv, TypeOK
  <2>2. CASE ~ (r.err # "none" /\ ~ r.cancelled)
    <3>1. ASSUME NEW i \in 1..Len(results), results[i].err # "none", ~ results[i].cancelled
          PROVE  \E k \in 1..Len(results') : results'[k].err # "none" /\ ~ results'[k].cancelled
      BY <2>2, <3>1, <1>1, <1>10
    <3>2. firstErr # "none" => firstErr' # "none"
      BY <1>3
    <3> QED
      BY <3>1, <3>2, <1>0 DEF CauseInv
  <2> QED
    BY <2>1, <2>2
<1>12. CountInv'
  <2>1. PICK G \in SUBSET Paths : done = Cardinality(G) /\ InOnePlace(G)
    BY <1>0 DEF CountInv
  <2>0. PICK H : H = IF r.err = "none" THEN G \cup {r.path} ELSE G
    OBVIOUS
  <2>2. r.path \in Paths /\ 1 \in 1..Len(results)
    BY <1>1 DEF Result
  <2>3. r.path \notin G /\ r.path \notin tasks
    BY <2>1, <2>2, <1>1 DEF InOnePlace
  <2>4. H \in SUBSET Paths /\ done' = Cardinality(H)
    <3>1. IsFiniteSet(G)
      BY <2>1, FS_Subset, PathsAssumption
    <3> QED
      BY <2>0, <2>1, <2>2, <2>3, <3>1, <1>3, FS_AddElement
  <2>5. InOnePlace(H)'
    <3>1. \A p \in H : p \notin tasks /\ Restored(p)'
      BY <2>0, <2>1, <2>2, <2>3, <1>2, <1>6 DEF InOnePlace, ResultOK
    <3>2. \A v \in Workers : worker[v].pc # "idle" => worker[v].path \notin tasks \cup H
      BY <2>0, <2>1, <2>2, <1>1 DEF InOnePlace
    <3>3. ASSUME NEW i \in 1..Len(results')
          PROVE  /\ results'[i].path \notin tasks \cup H
                 /\ \A v \in Workers : worker[v].pc # "idle" => worker[v].path # results'[i].path
      <4>1. i + 1 \in 1..Len(results) /\ i + 1 # 1 /\ results'[i] = results[i + 1]
        BY <1>1
      <4>2. /\ results[i + 1].path # r.path /\ results[i + 1].path \notin tasks \cup G
            /\ \A v \in Workers : worker[v].pc # "idle" => worker[v].path # results[i + 1].path
        BY <4>1, <2>1, <2>2, <1>1 DEF InOnePlace
      <4> QED
        BY <4>1, <4>2, <2>0
    <3>4. ASSUME NEW i \in 1..Len(results'), NEW k \in 1..Len(results'), i # k
          PROVE  results'[i].path # results'[k].path
      <4>1. /\ i + 1 \in 1..Len(results) /\ results'[i] = results[i + 1]
            /\ k + 1 \in 1..Len(results) /\ results'[k] = results[k + 1] /\ i + 1 # k + 1
        BY <1>1, <3>4
      <4> QED
        BY <4>1, <2>1 DEF InOnePlace
    <3>5. ASSUME ~ WorkerCtxDone, NEW p \in Paths
          PROVE  \/ p \in tasks \cup H
                 \/ \E v \in Workers : worker[v].pc # "idle" /\ worker[v].path = p
                 \/ \E i \in 1..Len(results') : results'[i].path = p
      <4>1. r.err = "none"
        BY <3>5, <1>2 DEF ResultOK
      <4>2. ASSUME NEW i \in 1..Len(results), results[i].path = p
            PROVE  p \in H \/ \E k \in 1..Len(results') : results'[k].path = p
        BY <4>1, <4>2, <1>1, <1>10, <2>0
      <4> QED
        BY <4>2, <3>5, <2>1, <2>0 DEF InOnePlace
    <3> QED
      BY <2>1, <3>1, <3>2, <3>3, <3>4, <3>5, <1>0, <1>6 DEF InOnePlace
  <2> QED
    BY <2>4, <2>5 DEF CountInv
<1> QED
  BY <1>5, <1>7, <1>8, <1>9, <1>11, <1>12 DEF DirInv, LiveInv

\* When the loop ends without a cancellation and without a cause, every file is done: the
\* count check never decides, and every file is restored.
LEMMA AllDone ==
    ASSUME DirInv, ~ crashed, Drained, ~ parent, firstErr = "none"
    PROVE  done = Cardinality(Paths) /\ \A p \in Paths : Restored(p)
<1>1. 1..Len(results) = {} /\ tasks = {} /\ \A w \in Workers : worker[w].pc = "idle"
  BY DEF Drained
<1>2. ~ WorkerCtxDone
  BY <1>1 DEF DirInv, LiveInv, CauseInv
<1>3. PICK G \in SUBSET Paths : done = Cardinality(G) /\ InOnePlace(G)
  BY DEF DirInv, LiveInv, CountInv
<1>4. G = Paths
  BY <1>1, <1>2, <1>3 DEF InOnePlace
<1> QED
  BY <1>3, <1>4 DEF InOnePlace

\* restoreToDir decides, then makes the renames durable or fails to.
LEMMA EndSteps ==
    ASSUME DirInv, ~ crashed, Finish \/ Flush \/ FlushFails \/ CancelParent
    PROVE  DirInv'
<1>0. /\ TypeOK /\ WholeFiles /\ CauseReported /\ SuccessDurable
      /\ \A v \in Workers : JobOK(v)
      /\ \A i \in 1..Len(results) : ResultOK(results[i])
      /\ TempInv /\ FlushInv /\ CauseInv /\ CountInv /\ RetInv
      /\ UNCHANGED <<noOverwrite, skipErrors, before, freshDir, disk, flushed, temps,
                     skipped, tasks, worker, cancelled, results, firstErr, done, crashed>>
  BY DEF DirInv, LiveInv, Finish, Flush, FlushFails, CancelParent, options, files, pool
<1>1. /\ parent' \in BOOLEAN /\ dirSynced' \in BOOLEAN
      /\ parent => parent'
      /\ parent' # parent => ret'= ret /\ ret.status = "running"
  <2>1. CASE CancelParent
    BY <2>1, <1>0 DEF CancelParent, files, TypeOK
  <2>2. CASE Finish \/ FlushFails
    BY <2>2, <1>0 DEF Finish, FlushFails, files, TypeOK
  <2>3. CASE Flush
    BY <2>3, <1>0 DEF Flush, DirsSynced, TypeOK
  <2> QED
    BY <2>1, <2>2, <2>3
<1>2. /\ ret' \in [status : Statuses, err : Errors]
      /\ ret'.status \in {"flush", "ok", "failed", "incomplete"} => Drained
      /\ ret'.status \in {"flush", "ok"} => \A p \in Paths : Restored(p)
      /\ ret'.status = "ok" => dirSynced'
      /\ ret'.status = "failed" => ret'.err \in {"own", "bad"}
      /\ ret'.status = "incomplete" => parent'
  <2> USE DEF Statuses, Errors
  <2>1. CASE CancelParent
    <3>1. ret' = ret /\ ret.status = "running"
      BY <2>1 DEF CancelParent
    <3> QED
      BY <3>1, <1>0 DEF TypeOK
  <2>2. CASE Finish
    <3>1. ret' = Outcome /\ Drained /\ parent' = parent
      BY <2>2 DEF Finish
    <3>2. CASE parent
      <4>1. ret' = [status |-> "incomplete", err |-> "ctx"]
        BY <3>1, <3>2 DEF Outcome
      <4> QED
        BY <4>1, <3>1, <3>2
    <3>3. CASE ~ parent /\ firstErr # "none"
      <4>1. ret' = [status |-> "failed", err |-> firstErr] /\ firstErr \in {"own", "bad"}
        BY <3>1, <3>3, <1>0 DEF Outcome, TypeOK
      <4> QED
        BY <4>1, <3>1
    <3>4. CASE ~ parent /\ firstErr = "none"
      <4>1. done = Cardinality(Paths) /\ \A p \in Paths : Restored(p)
        BY <3>1, <3>4, AllDone
      <4>2. ret' = [status |-> "flush", err |-> "none"]
        BY <3>1, <3>4, <4>1 DEF Outcome
      <4> QED
        BY <3>1, <4>1, <4>2
    <3> QED
      BY <3>2, <3>3, <3>4
  <2>3. CASE Flush
    <3>1. ret' = [status |-> "ok", err |-> "none"] /\ ret.status = "flush" /\ dirSynced'
      BY <2>3 DEF Flush, DirsSynced
    <3> QED
      BY <3>1, <1>0 DEF RetInv
  <2>4. CASE FlushFails
    <3>1. ret' = [status |-> "failed", err |-> "own"] /\ ret.status = "flush"
      BY <2>4 DEF FlushFails
    <3> QED
      BY <3>1, <1>0 DEF RetInv
  <2> QED
    BY <2>1, <2>2, <2>3, <2>4
<1>3. TypeOK'
  BY <1>0, <1>1, <1>2 DEF TypeOK
<1>4. Onward /\ \A p \in Paths : Restored(p)' <=> Restored(p)
  BY <1>0, <1>1 DEF Onward, WorkerCtxDone, Restored
<1>5. WholeFiles' /\ FlushInv' /\ TempInv' /\ CauseReported'
  BY <1>0, <1>2 DEF WholeFiles, FlushInv, TempInv, CauseReported
<1>6. SuccessDurable' /\ RetInv'
  <2>1. Drained' <=> Drained
    BY <1>0 DEF Drained
  <2> QED
    BY <2>1, <1>2, <1>4 DEF SuccessDurable, RetInv
<1>7. \A v \in Workers : JobOK(v)'
  BY <1>0, <1>4, OtherWorkers
<1>8. ASSUME NEW i \in 1..Len(results')
      PROVE  ResultOK(results[i])'
  <2>1. ResultOK(results[i]) /\ results[i] \in Result
    BY <1>0 DEF TypeOK
  <2>2. results[i].path \in Paths
    BY <2>1 DEF Result
  <2> QED
    BY <2>1, <2>2, <1>0, <1>4 DEF ResultOK, Onward
<1>9. CauseInv'
  BY <1>0, <1>1 DEF CauseInv, WorkerCtxDone
<1>10. CountInv'
  <2>1. PICK G \in SUBSET Paths : done = Cardinality(G) /\ InOnePlace(G)
    BY <1>0 DEF CountInv
  <2>2. InOnePlace(G)'
    BY <2>1, <1>0, <1>4 DEF InOnePlace, Onward
  <2> QED
    BY <2>1, <2>2, <1>0 DEF CountInv
<1> QED
  BY <1>3, <1>5, <1>6, <1>7, <1>8, <1>9, <1>10 DEF DirInv, LiveInv

\* A crash takes back what was not fsynced, never what a returned restore has promised.
LEMMA CrashStep ==
    ASSUME DirInv, Crash
    PROVE  DirInv'
<1>0. /\ TypeOK /\ WholeFiles /\ CauseReported /\ FlushInv /\ RetInv
      /\ UNCHANGED <<noOverwrite, skipErrors, before, freshDir, flushed, temps, dirSynced,
                     skipped, tasks, worker, cancelled, results, parent, firstErr, done,
                     ret>>
      /\ disk' \in [Paths -> Contents]
      /\ \A p \in Paths : disk'[p] \in Survivors(p)
  BY DEF DirInv, LiveInv, Crash, options, pool
<1>1. crashed' \in BOOLEAN /\ crashed'
  BY DEF Crash
<1>2. TypeOK'
  BY <1>0, <1>1 DEF TypeOK
<1>3. \A p \in Paths : \/ disk'[p] = disk[p]
                       \/ disk[p] = "new" /\ disk'[p] = before[p] /\ (dirSynced => p \in freshDir)
  BY <1>0 DEF Survivors, FlushInv
<1>4. WholeFiles' /\ CauseReported'
  BY <1>0, <1>3 DEF WholeFiles, CauseReported
<1>5. SuccessDurable'
  <2> SUFFICES ASSUME ret.status = "ok", NEW p \in Paths, p \notin freshDir
               PROVE  Restored(p)'
    BY <1>0, <1>1 DEF SuccessDurable
  <2>1. Restored(p) /\ disk'[p] = disk[p]
    BY <1>0, <1>3 DEF RetInv
  <2> QED
    BY <2>1, <1>0 DEF Restored
<1> QED
  BY <1>1, <1>2, <1>4, <1>5 DEF DirInv

\* Nothing of the invariant depends on anything but the variables.
LEMMA Stutter ==
    ASSUME DirInv, UNCHANGED vars
    PROVE  DirInv'
<1> USE DEF vars, options, files, pool
<1>1. TypeOK' /\ WholeFiles' /\ CauseReported' /\ SuccessDurable'
  BY DEF DirInv, TypeOK, WholeFiles, CauseReported, SuccessDurable, Restored
<1>2. ~ crashed => (\A w \in Workers : JobOK(w)) /\ TempInv /\ FlushInv /\ CauseInv /\ RetInv
  BY DEF DirInv, LiveInv
<1>3. ~ crashed => \A w \in Workers : JobOK(w)'
  BY <1>2 DEF JobOK, WorkerCtxDone, Restored
<1>4. ~ crashed => \A i \in 1..Len(results') : ResultOK(results[i])'
  BY DEF DirInv, LiveInv, ResultOK, WorkerCtxDone, Restored
<1>5. ~ crashed => TempInv' /\ FlushInv' /\ CauseInv'
  BY <1>2 DEF TempInv, FlushInv, CauseInv, WorkerCtxDone
<1>6. ~ crashed => RetInv'
  BY <1>2 DEF RetInv, Drained, Restored
<1>7. ~ crashed => CountInv'
  <2> SUFFICES ASSUME ~ crashed
               PROVE  CountInv'
    OBVIOUS
  <2>1. PICK G \in SUBSET Paths : done = Cardinality(G) /\ InOnePlace(G)
    BY DEF DirInv, LiveInv, CountInv
  <2>2. InOnePlace(G)'
    BY <2>1 DEF InOnePlace, WorkerCtxDone, Restored
  <2> QED
    BY <2>1, <2>2 DEF CountInv
<1> QED
  BY <1>1, <1>3, <1>4, <1>5, <1>6, <1>7 DEF DirInv, LiveInv

\* Every step of the workers, of restoreToDir, of its caller and of the machine keeps the
\* invariant of restoreToDir.
LEMMA DirStep == DirInv /\ [Next]_vars => DirInv'
<1> SUFFICES ASSUME DirInv, [Next]_vars
             PROVE  DirInv'
  OBVIOUS
<1>1. ASSUME NEW w \in Workers, WorkerStep(w)
      PROVE  DirInv'
  <2>1. ~ crashed
    BY <1>1 DEF WorkerStep, Take, Check, Fetch, Copy, Verify, Sync, Rename, Fails, Skip,
                Error, Send, At
  <2> QED
    BY <2>1, <1>1, TakeStep, QuietSteps, FetchStep, RenameStep, FailedStep, ErrorSteps,
       SendStep DEF WorkerStep
<1>2. CASE Finish \/ Flush \/ FlushFails \/ CancelParent
  BY <1>2, EndSteps DEF Finish, Flush, FlushFails, CancelParent
<1>3. CASE Gather
  BY <1>3, GatherStep DEF Gather
<1> QED
  BY <1>1, <1>2, <1>3, CrashStep, Stutter DEF Next, Ended

-----------------------------------------------------------------------------
(* restoreToZip, and RunRestore around both. *)

\* The files restoreToZip has not finished with.
Pending == IF at = "next" THEN left ELSE left \cup {file}

\* While restoreToZip runs, what it is done with is in the output in full or was passed
\* over, the rest is not there at all, and there is no central directory.
ZipRunning ==
    /\ ~ closed
    /\ done = Cardinality(Paths \ Pending)
    /\ at # "next" => file \in Paths /\ file \notin left
    /\ \A p \in Pending : written[p] = "none" /\ p \notin skipped
    /\ \A p \in Paths \ Pending : written[p] = IF p \in skipped THEN "none" ELSE "all"

ZipInv == /\ left \subseteq Paths
          /\ at \in {"next", "open", "copy"}
          /\ written \in [Paths -> {"none", "some", "all"}]
          /\ closed \in BOOLEAN
          /\ Zip!Running => ZipRunning
          /\ Zip!ArchiveComplete

\* No worker was started and no temporary file made.
DirUnused == temps = {} /\ \A w \in Workers : worker[w].pc = "idle"

RunInv == /\ mode \in {"none", "dir", "zip"}
          /\ mode # "zip" => DirInv /\ Zip!Start
          /\ mode = "zip" => TypeOK /\ WholeFiles /\ CauseReported /\ ZipInv
          /\ mode # "dir" => DirUnused
          /\ mode = "none" => done = 0 /\ skipped = {}

\* The state an archive is started in: every file is still to come.
LEMMA ZipStarts ==
    ASSUME Zip!Start, done = 0, skipped = {}, ret.status = "running"
    PROVE  ZipInv
<1>1. /\ left = Paths /\ at = "next" /\ closed \in BOOLEAN /\ ~ closed
      /\ written \in [Paths -> {"none", "some", "all"}]
      /\ \A p \in Paths : written[p] = "none"
  BY DEF Zip!Start
<1>2. Paths \ Pending = {} /\ Pending = Paths
  BY <1>1 DEF Pending
<1>3. done = Cardinality(Paths \ Pending)
  BY <1>2, FS_EmptySet
<1> QED
  BY <1>1, <1>2, <1>3 DEF ZipInv, ZipRunning, Zip!ArchiveComplete

\* What restoreToZip decides: it fails with a cause of its own and calls itself incomplete
\* only after a cancellation; the destination of restoreToDir is not touched.
LEMMA ZipVerdict ==
    ASSUME TypeOK, CauseReported, ZipInv, Zip!Running, Zip!Next,
           UNCHANGED <<noOverwrite, before, freshDir, files, pool, firstErr, crashed>>,
           done' \in Nat, skipped' \subseteq Paths
    PROVE  TypeOK' /\ CauseReported'
<1>0. UNCHANGED <<skipErrors, parent, noOverwrite, before, freshDir, disk, flushed, temps,
                  dirSynced, tasks, worker, cancelled, results, firstErr, crashed>>
  BY DEF Zip!Next, Zip!Cancelled, Zip!TakeFile, Zip!Opened, Zip!Copied, Zip!SkipFile,
         Zip!CopyFails, Zip!CloseArchive, Zip!CloseFails, files, pool
<1>1. \/ ret' = ret
      \/ ret' = [status |-> "ok", err |-> "none"]
      \/ parent /\ ret' = [status |-> "incomplete", err |-> "ctx"]
      \/ \E err \in {"own", "bad"} : ret' = [status |-> "failed", err |-> err]
  BY DEF Zip!Next, Zip!Cancelled, Zip!TakeFile, Zip!Opened, Zip!Copied, Zip!SkipFile,
         Zip!CopyFails, Zip!CloseArchive, Zip!CloseFails, Zip!Returns
<1>2. ret' \in [status : Statuses, err : Errors] /\ CauseReported'
  BY <1>0, <1>1 DEF TypeOK, CauseReported, Statuses, Errors
<1>3. TypeOK'
  BY <1>0, <1>2 DEF TypeOK
<1> QED
  BY <1>2, <1>3

\* One file less to come: one more is done.
LEMMA OneMoreDone ==
    ASSUME NEW L \in SUBSET Paths, NEW f \in Paths \ L
    PROVE  /\ Cardinality(Paths \ L) = Cardinality(Paths \ (L \cup {f})) + 1
           /\ Cardinality(Paths \ L) \in Nat
           /\ Cardinality(Paths \ (L \cup {f})) \in Nat
<1> DEFINE S == Paths \ (L \cup {f})
<1>1. IsFiniteSet(S) /\ f \notin S /\ Paths \ L = S \cup {f}
  BY FS_Subset, PathsAssumption
<1>2. Cardinality(S) \in Nat /\ Cardinality(S \cup {f}) = Cardinality(S) + 1
  BY <1>1, FS_AddElement, FS_CardinalityType
<1>3. Cardinality(Paths \ L) = Cardinality(S \cup {f})
  BY <1>1
<1> HIDE DEF S
<1>4. Cardinality(Paths \ L) = Cardinality(S) + 1 /\ Cardinality(S) \in Nat
  BY <1>2, <1>3
<1> QED
  BY <1>4 DEF S

\* Every step of restoreToZip keeps its invariant.
LEMMA ZipStep ==
    ASSUME TypeOK, CauseReported, ZipInv, Zip!Next
    PROVE  ZipInv' /\ done' \in Nat /\ skipped' \subseteq Paths
<1>0. ZipRunning /\ Zip!Running
  BY DEF ZipInv, Zip!Next, Zip!Cancelled, Zip!TakeFile, Zip!Opened, Zip!Copied,
         Zip!SkipFile, Zip!CopyFails, Zip!CloseArchive, Zip!CloseFails
<1>1. /\ left \subseteq Paths /\ at \in {"next", "open", "copy"}
      /\ written \in [Paths -> {"none", "some", "all"}]
      /\ done \in Nat /\ skipped \subseteq Paths /\ Pending \subseteq Paths
      /\ ~ closed /\ closed \in BOOLEAN
  BY <1>0 DEF ZipInv, TypeOK, ZipRunning, Pending
<1>2. CASE Zip!Cancelled
  <2>1. ret' = [status |-> "incomplete", err |-> "ctx"] /\ UNCHANGED <<skipped, done, own>>
    BY <1>2 DEF Zip!Cancelled, Zip!Returns, Zip!own, own
  <2>2. ret'.status = "incomplete" /\ UNCHANGED <<left, file, at, written, closed>>
    BY <2>1 DEF own
  <2> QED
    BY <1>1, <2>1, <2>2 DEF ZipInv, Zip!Running, Zip!ArchiveComplete
<1>3. ASSUME NEW p \in Paths, Zip!TakeFile(p)
      PROVE  ZipInv' /\ done' \in Nat /\ skipped' \subseteq Paths
  <2>1. /\ at = "next" /\ p \in left /\ left' = left \ {p} /\ file' = p /\ at' = "open"
        /\ UNCHANGED <<skipped, done, ret, written, closed>>
    BY <1>3 DEF Zip!TakeFile
  <2>2. Pending' = Pending /\ Pending = left
    BY <2>1, <1>1 DEF Pending
  <2>3. ZipRunning'
    BY <2>1, <2>2, <1>0, <1>1 DEF ZipRunning
  <2> QED
    BY <2>1, <2>3, <1>0, <1>1 DEF ZipInv, Zip!Running, Zip!ArchiveComplete
<1>4. CASE Zip!Opened
  <2>1. at = "open" /\ at' = "copy" /\ UNCHANGED <<skipped, done, ret, left, file, written, closed>>
    BY <1>4 DEF Zip!Opened
  <2>2. Pending' = Pending
    BY <2>1 DEF Pending
  <2>3. ZipRunning'
    BY <2>1, <2>2, <1>0 DEF ZipRunning
  <2> QED
    BY <2>1, <2>3, <1>0, <1>1 DEF ZipInv, Zip!Running, Zip!ArchiveComplete
<1>5. ASSUME Zip!Copied \/ \E err \in {"own", "bad", "ctx"} : Zip!SkipFile(err)
      PROVE  ZipInv' /\ done' \in Nat /\ skipped' \subseteq Paths
  <2>1. /\ at \in {"open", "copy"} /\ at' = "next" /\ done' = done + 1
        /\ UNCHANGED <<ret, left, file, closed>>
        /\ \/ skipped' = skipped /\ written' = [written EXCEPT ![file] = "all"]
           \/ skipped' = skipped \cup {file} /\ written' = [written EXCEPT ![file] = "none"]
    BY <1>5 DEF Zip!Copied, Zip!SkipFile, Zip!Skippable, Zip!Remains
  <2>2. file \in Paths \ left /\ Pending = left \cup {file} /\ Pending' = left
    BY <2>1, <1>0 DEF Pending, ZipRunning
  <2>3. done' = Cardinality(Paths \ left) /\ done' \in Nat
    BY <2>1, <2>2, <1>0, <1>1, OneMoreDone DEF ZipRunning
  <2>4. /\ written' \in [Paths -> {"none", "some", "all"}]
        /\ \A p \in Paths : p # file => /\ written'[p] = written[p]
                                        /\ p \in skipped' <=> p \in skipped
        /\ written'[file] = IF file \in skipped' THEN "none" ELSE "all"
    <3>1. file \notin skipped
      BY <2>2, <1>0 DEF ZipRunning
    <3> QED
      BY <3>1, <2>1, <2>2, <1>1
  <2>5. ZipRunning'
    BY <2>1, <2>2, <2>3, <2>4, <1>0, <1>1 DEF ZipRunning
  <2> QED
    BY <2>1, <2>2, <2>3, <2>4, <2>5, <1>0, <1>1 DEF ZipInv, Zip!Running, Zip!ArchiveComplete
<1>6. ASSUME NEW err \in {"own", "bad", "ctx"}, Zip!CopyFails(err)
      PROVE  ZipInv' /\ done' \in Nat /\ skipped' \subseteq Paths
  <2>1. /\ \E x \in {"none", "some"} : written' = [written EXCEPT ![file] = x]
        /\ UNCHANGED <<skipped, done, left, file, at, closed>>
        /\ ret'.status \in {"incomplete", "failed"}
    <3>1. written' = [written EXCEPT ![file] = Zip!Remains] /\ Zip!Remains \in {"none", "some"}
      BY <1>6 DEF Zip!CopyFails, Zip!Remains
    <3>2. \/ ret' = [status |-> "incomplete", err |-> "ctx"]
          \/ ret' = [status |-> "failed", err |-> err]
      BY <1>6 DEF Zip!CopyFails, Zip!Returns
    <3>3. ret'.status \in {"incomplete", "failed"}
      BY <3>2
    <3>4. UNCHANGED <<skipped, done, left, file, at, closed>>
      BY <1>6 DEF Zip!CopyFails
    <3> QED
      BY <3>1, <3>3, <3>4
  <2>2. written' \in [Paths -> {"none", "some", "all"}]
    BY <2>1, <1>1
  <2> QED
    BY <2>1, <2>2, <1>1 DEF ZipInv, Zip!Running, Zip!ArchiveComplete
<1>7. CASE Zip!CloseArchive \/ Zip!CloseFails
  <2>1. /\ at = "next" /\ left = {} /\ closed' \in BOOLEAN
        /\ UNCHANGED <<skipped, done, left, file, at, written>>
        /\ ret'.status \in {"ok", "failed"} /\ (ret'.status = "ok" => closed')
    <3>1. CASE Zip!CloseArchive
      BY <3>1 DEF Zip!CloseArchive, Zip!Returns
    <3>2. CASE Zip!CloseFails
      BY <3>2 DEF Zip!CloseFails, Zip!Returns
    <3> QED
      BY <1>7, <3>1, <3>2
  <2>2. Pending = {} /\ Paths \ Pending = Paths
    BY <2>1 DEF Pending
  <2>3. /\ done = Cardinality(Paths)
        /\ \A p \in Paths : written[p] = IF p \in skipped THEN "none" ELSE "all"
    BY <2>2, <1>0 DEF ZipRunning
  <2>4. Zip!Cardinality(Paths) = Cardinality(Paths)
    BY DEF Cardinality, Zip!Cardinality
  <2> QED
    BY <2>1, <2>3, <2>4, <1>1 DEF ZipInv, Zip!Running, Zip!ArchiveComplete
<1> QED
  BY <1>2, <1>3, <1>4, <1>5, <1>6, <1>7 DEF Zip!Next

\* RunRestore refuses before anything is written.
LEMMA RefuseStep ==
    ASSUME DirInv, ~ crashed, NEW err \in {"own", "ctx"}, Refuse(err)
    PROVE  DirInv'
<1>0. /\ TypeOK /\ WholeFiles /\ CauseReported /\ SuccessDurable
      /\ \A v \in Workers : JobOK(v)
      /\ \A i \in 1..Len(results) : ResultOK(results[i])
      /\ TempInv /\ FlushInv /\ CauseInv /\ CountInv /\ RetInv
      /\ UNCHANGED <<noOverwrite, skipErrors, before, freshDir, disk, flushed, temps,
                     dirSynced, skipped, tasks, worker, cancelled, results, parent,
                     firstErr, done, crashed>>
      /\ ret' = [status |-> "refused", err |-> err]
  BY DEF DirInv, LiveInv, Refuse, options, files, pool
<1>1. ret' \in [status : Statuses, err : Errors] /\ ret'.status = "refused"
  BY <1>0 DEF Statuses, Errors
<1>2. TypeOK'
  BY <1>0, <1>1 DEF TypeOK
<1>3. WholeFiles' /\ CauseReported' /\ SuccessDurable' /\ RetInv'
  BY <1>0, <1>1 DEF WholeFiles, CauseReported, SuccessDurable, RetInv
<1>4. TempInv' /\ FlushInv' /\ CauseInv'
  BY <1>0 DEF TempInv, FlushInv, CauseInv, WorkerCtxDone
<1>5. Onward
  BY <1>0 DEF Onward, WorkerCtxDone, Restored
<1>6. \A v \in Workers : JobOK(v)'
  BY <1>0, <1>5, OtherWorkers
<1>7. \A i \in 1..Len(results') : ResultOK(results[i])'
  BY <1>0 DEF ResultOK, WorkerCtxDone, Restored
<1>8. CountInv'
  <2>1. PICK G \in SUBSET Paths : done = Cardinality(G) /\ InOnePlace(G)
    BY <1>0 DEF CountInv
  <2>2. InOnePlace(G)'
    BY <2>1, <1>0 DEF InOnePlace, WorkerCtxDone, Restored
  <2> QED
    BY <2>1, <2>2, <1>0 DEF CountInv
<1> QED
  BY <1>2, <1>3, <1>4, <1>6, <1>7, <1>8 DEF DirInv, LiveInv

\* RunRestore starts in its invariant.
LEMMA RunInitInv == RunInit => RunInv
<1> SUFFICES ASSUME RunInit
             PROVE  RunInv
  OBVIOUS
<1>1. Init /\ Zip!Start /\ mode = "none"
  BY DEF RunInit
<1>2. DirInv
  BY <1>1, InitInv
<1>3. DirUnused /\ done = 0 /\ skipped = {}
  BY <1>1 DEF Init, DirUnused, Resting
<1> QED
  BY <1>1, <1>2, <1>3 DEF RunInv

\* Every step of RunRestore keeps it, whichever output is chosen.
LEMMA RunStepInv == RunInv /\ [RunNext]_runVars => RunInv'
<1> SUFFICES ASSUME RunInv, [RunNext]_runVars
             PROVE  RunInv'
  OBVIOUS
<1> USE DEF RunInv
<1>1. ASSUME UNCHANGED <<vars, own>>
      PROVE  /\ DirInv => DirInv'
             /\ Zip!Start => Zip!Start'
             /\ TypeOK /\ WholeFiles /\ CauseReported /\ ZipInv
                   => TypeOK' /\ WholeFiles' /\ CauseReported' /\ ZipInv'
             /\ DirUnused => DirUnused'
             /\ UNCHANGED <<done, skipped>>
  <2>1. DirInv => DirInv'
    BY <1>1, Stutter
  <2> USE <1>1 DEF vars, options, files, pool, own
  <2>2. Zip!Start => Zip!Start'
    BY DEF Zip!Start
  <2>3. TypeOK => TypeOK'
    BY DEF TypeOK
  <2>4. WholeFiles /\ CauseReported => WholeFiles' /\ CauseReported'
    BY DEF WholeFiles, CauseReported
  <2>5. ZipInv => ZipInv'
    BY DEF ZipInv, Zip!Running, ZipRunning, Pending, Zip!ArchiveComplete
  <2>6. (DirUnused => DirUnused') /\ UNCHANGED <<done, skipped>>
    BY DEF DirUnused
  <2> QED
    BY <2>1, <2>2, <2>3, <2>4, <2>5, <2>6
<1>2. ASSUME NEW m \in {"dir", "zip"}, Begin(m)
      PROVE  RunInv'
  <2>1. /\ mode = "none" /\ ret.status = "running" /\ mode' = m
        /\ UNCHANGED <<vars, own>>
    BY <1>2 DEF Begin, Idle
  <2>2. DirInv /\ Zip!Start /\ TypeOK /\ WholeFiles /\ CauseReported /\ ZipInv
    BY <2>1, ZipStarts DEF DirInv
  <2> QED
    BY <1>1, <2>1, <2>2
<1>3. ASSUME NEW err \in {"own", "ctx"}, Refuse(err)
      PROVE  RunInv'
  <2>1. mode = "none" /\ mode' = "none" /\ ~ crashed
        /\ UNCHANGED <<temps, worker, done, skipped, own>>
    BY <1>3 DEF Refuse, files, pool
  <2>2. DirInv' /\ Zip!Start' /\ DirUnused'
    BY <2>1, <1>3, RefuseStep DEF Zip!Start, DirUnused, own
  <2> QED
    BY <2>1, <2>2
<1>4. CASE mode = "none" /\ CancelParent /\ UNCHANGED <<mode, own>>
  <2>1. UNCHANGED <<temps, worker, done, skipped>> /\ ~ crashed
    BY <1>4 DEF CancelParent, files, pool
  <2>2. DirInv' /\ Zip!Start' /\ DirUnused'
    BY <2>1, <1>4, EndSteps DEF Zip!Start, DirUnused, own
  <2> QED
    BY <2>1, <2>2, <1>4
<1>5. CASE ToDir
  <2>1. DirInv' /\ Zip!Start' /\ mode = "dir" /\ mode' = "dir"
    BY <1>5, DirStep DEF ToDir, Zip!Start, own
  <2> QED
    BY <2>1
<1>6. CASE mode = "zip" /\ Zip!Next /\ UNCHANGED mode
           /\ UNCHANGED <<noOverwrite, before, freshDir, files, pool, firstErr, crashed>>
  <2>1. TypeOK /\ WholeFiles /\ CauseReported /\ ZipInv /\ DirUnused
    BY <1>6
  <2>2. ZipInv' /\ done' \in Nat /\ skipped' \subseteq Paths
    BY <1>6, <2>1, ZipStep
  <2>3. Zip!Running
    BY <1>6 DEF Zip!Next, Zip!Cancelled, Zip!TakeFile, Zip!Opened, Zip!Copied,
         Zip!SkipFile, Zip!CopyFails, Zip!CloseArchive, Zip!CloseFails
  <2>4. TypeOK' /\ CauseReported'
    BY <1>6, <2>1, <2>2, <2>3, ZipVerdict
  <2>5. WholeFiles' /\ DirUnused'
    BY <1>6, <2>1 DEF WholeFiles, DirUnused, files, pool
  <2> QED
    BY <1>6, <2>2, <2>4, <2>5
<1>7. CASE mode = "zip" /\ CancelParent /\ UNCHANGED <<mode, own>>
  <2>1. TypeOK /\ WholeFiles /\ CauseReported /\ ZipInv /\ DirUnused
    BY <1>7
  <2>2. /\ UNCHANGED <<noOverwrite, skipErrors, before, freshDir, disk, flushed, temps,
                       dirSynced, skipped, tasks, worker, cancelled, results, firstErr,
                       done, ret, crashed, left, file, at, written, closed>>
        /\ ret.status = "running"
    BY <1>7 DEF CancelParent, options, files, pool, own
  <2>3. parent' \in BOOLEAN
    BY <1>7 DEF CancelParent
  <2>4. TypeOK'
    BY <2>1, <2>2, <2>3 DEF TypeOK
  <2>5. WholeFiles' /\ CauseReported' /\ DirUnused'
    BY <2>1, <2>2 DEF WholeFiles, CauseReported, DirUnused
  <2>6. ZipInv'
    BY <2>1, <2>2 DEF ZipInv, Zip!Running, ZipRunning, Pending, Zip!ArchiveComplete
  <2> QED
    BY <1>7, <2>4, <2>5, <2>6
<1>8. CASE Refused \/ (mode = "zip" /\ Ended /\ UNCHANGED <<mode, own>>)
           \/ UNCHANGED runVars
  <2>1. UNCHANGED <<vars, own>> /\ UNCHANGED mode
    BY <1>8 DEF Refused, Idle, Ended, runVars
  <2> QED
    BY <1>1, <2>1
<1> QED
  BY <1>2, <1>3, <1>4, <1>5, <1>6, <1>7, <1>8 DEF RunNext, ToZip

\* The invariant holds throughout every restore.
LEMMA Invariance == RunSpec => []RunInv
BY RunInitInv, RunStepInv, PTL DEF RunSpec

-----------------------------------------------------------------------------

\* At every path is what was there before or the whole restored file: not while workers
\* write, not after one failed, not after a crash is there anything else.
THEOREM WholeFilesHolds == RunSpec => []WholeFiles
<1>1. RunInv => WholeFiles
  BY DEF RunInv, DirInv
<1> QED
  BY <1>1, Invariance, PTL

\* A restore into a directory that returned nil has restored every file, and a crash takes
\* none of them back, except below directories the restore created.
THEOREM ExtractDurableHolds == RunSpec => []ExtractDurable
<1>1. RunInv => ExtractDurable
  BY DEF RunInv, DirInv, ExtractDurable
<1> QED
  BY <1>1, Invariance, PTL

\* A restore that has returned leaves no temporary file and no worker behind.
THEOREM NoTempLeftHolds == RunSpec => []NoTempLeft
<1>1. RunInv => NoTempLeft
  <2> SUFFICES ASSUME RunInv, ret.status \in {"ok", "failed", "incomplete"}, ~ crashed,
                      mode = "dir"
               PROVE  temps = {} /\ \A w \in Workers : worker[w].pc = "idle"
    BY DEF RunInv, DirUnused, NoTempLeft
  <2>1. TempInv /\ Drained
    BY DEF RunInv, DirInv, LiveInv, RetInv
  <2> QED
    BY <2>1 DEF TempInv, Drained, Copying
<1> QED
  BY <1>1, Invariance, PTL

\* A failed restore reports a cause, an incomplete one was cancelled by its caller: what
\* the other workers make of the first failure never hides it.
THEOREM CauseReportedHolds == RunSpec => []CauseReported
<1>1. RunInv => CauseReported
  BY DEF RunInv, DirInv
<1> QED
  BY <1>1, Invariance, PTL

\* An archive with a central directory is complete, and success means such an archive.
THEOREM ArchiveCompleteHolds == RunSpec => []ArchiveComplete
<1>1. RunInv => ArchiveComplete
  BY DEF RunInv, ZipInv, ArchiveComplete
<1> QED
  BY <1>1, Invariance, PTL
=============================================================================
