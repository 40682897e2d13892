------------------------------ MODULE BackupRun -----------------------------
(***************************************************************************)
(* The worker pool inside one RunBackup call (tsync/backup.go): workers    *)
(* take entries from a channel, share one upload per file key, report one  *)
(* result per entry, and cancel the run's context on the first failure;    *)
(* one goroutine waits for the workers' end and closes the result channel; *)
(* RunBackup gathers the results and decides whether ".tsync" is written.  *)
(* TsyncStore sees this whole module as its UploadPart, UploadFails and    *)
(* the condition ReadyToWrite.                                             *)
(***************************************************************************)
EXTENDS Naturals, Sequences, FiniteSets

CONSTANTS Entries,       \* the source entries left after filtering
          Workers,       \* the worker goroutines
          Keys,          \* file keys
          Existing,      \* keys with a record in the loaded metadata
          KeyOf,         \* KeyOf[e]: the key of entry e, or Directory
          Directory,     \* "key" of a directory entry
          NoEntry        \* the entry of a worker that has none

ASSUME EntriesAssumption == /\ IsFiniteSet(Entries)
                            /\ IsFiniteSet(Workers)
                            /\ Entries # {} => Workers # {}
                            /\ Existing \subseteq Keys
                            /\ KeyOf \in [Entries -> Keys \cup {Directory}]
                            /\ Directory \notin Keys
                            /\ NoEntry \notin Entries

VARIABLES tasks,         \* taskChan: entries nobody has taken
          worker,        \* worker[w]: where the goroutine is, and on what
          flight,        \* flights[k]: the upload of k that this run shares
          uploaded,      \* keys whose part this run has committed to storage
          attempts,      \* history: attempts[k] counts uploadPart calls
          parent,        \* the caller's context is cancelled
          cause,         \* context.Cause(runCtx)
          results,       \* resultChan: results not gathered yet
          wg,            \* the WaitGroup's counter
          closed,        \* resultChan is closed
          firstErr, got, \* gathered so far: first error; entries recorded
          ret            \* what RunBackup returns from here

vars == <<tasks, worker, flight, uploaded, attempts, parent, cause, results,
          wg, closed, firstErr, got, ret>>

\* resultChan and the WaitGroup that decides when it is closed.
channel == <<results, wg, closed>>

\* Errors: "none"; "own" is a failure of the run's own work, "parent" the cancellation by
\* the caller, "ctx" what a storage or source call returns because runCtx was cancelled.

\* A worker between two entries.
Resting == [pc |-> "idle", entry |-> NoEntry, err |-> "none"]

AddedBeforeLast == Cardinality(Workers) - 1 \* mutant: wg.Add(concurrency - 1)

\* wg.Add(concurrency), before any worker is started.
Added == Cardinality(Workers)

Init == /\ tasks = Entries
        /\ worker = [w \in Workers |-> Resting]
        /\ flight = [k \in Keys |-> "none"]
        /\ uploaded = {}
        /\ attempts = [k \in Keys |-> 0]
        /\ parent = FALSE
        /\ cause = "none"
        /\ results = <<>>
        /\ wg = Added
        /\ closed = FALSE
        /\ firstErr = "none"
        /\ got = {}
        /\ ret = [status |-> "running", err |-> "none"]

KeyAt(w) == KeyOf[worker[w].entry]

Goto(w, pc, err) == worker' = [worker EXCEPT ![w].pc = pc, ![w].err = err]

CancelLast(c, e) == e                       \* mutant: the last cause wins

\* The context's CancelCauseFunc: the first cause wins.
Cancelled(c, e) == IF c = "none" THEN e ELSE c

-----------------------------------------------------------------------------
(* Workers. *)

\* What process makes of an entry first: the cause of a cancellation becomes the
\* entry's error, a directory is a result at once, a file is left to processFile.
Begun(e) == [pc    |-> IF cause # "none" \/ KeyOf[e] = Directory THEN "send" ELSE "file",
             entry |-> e,
             err   |-> cause]

\* for entry := range taskChan { ... process(...)
Take(w, e) ==
    /\ worker[w].pc = "idle"
    /\ e \in tasks
    /\ tasks' = tasks \ {e}
    /\ worker' = [worker EXCEPT ![w] = Begun(e)]
    /\ UNCHANGED <<flight, uploaded, attempts, parent, cause, channel, firstErr, got, ret>>

\* processFile: the key has a record in the loaded metadata.
Reuse(w) ==
    /\ worker[w].pc = "file"
    /\ KeyAt(w) \in Existing
    /\ Goto(w, "send", "none")
    /\ UNCHANGED <<tasks, flight, uploaded, attempts, parent, cause, channel, firstErr, got, ret>>

\* processFile cannot open or read the source to compute the key.
ReadFails(w, err) ==
    /\ worker[w].pc = "file"
    /\ err = "ctx" => cause # "none"
    /\ Goto(w, "fail", err)
    /\ UNCHANGED <<tasks, flight, uploaded, attempts, parent, cause, channel, firstErr, got, ret>>

NeverInFlight(k) == FALSE                   \* mutant: flights are not looked up

\* uploadOnce: some worker has already started the upload of k.
InFlight(k) == flight[k] # "none"

\* uploadOnce under r.mu: the first worker on a key uploads ...
Claim(w) ==
    /\ worker[w].pc = "file"
    /\ KeyAt(w) \in Keys \ Existing
    /\ ~ InFlight(KeyAt(w))
    /\ flight' = [flight EXCEPT ![KeyAt(w)] = "open"]
    /\ attempts' = [attempts EXCEPT ![KeyAt(w)] = @ + 1]
    /\ Goto(w, "upload", "none")
    /\ UNCHANGED <<tasks, uploaded, parent, cause, channel, firstErr, got, ret>>

\* ... and the others wait for it.
Join(w) ==
    /\ worker[w].pc = "file"
    /\ KeyAt(w) \in Keys \ Existing
    /\ InFlight(KeyAt(w))
    /\ Goto(w, "wait", "none")
    /\ UNCHANGED <<tasks, flight, uploaded, attempts, parent, cause, channel, firstErr, got, ret>>

\* select: the flight has ended.
FlightDone(w) ==
    /\ worker[w].pc = "wait"
    /\ flight[KeyAt(w)] \notin {"none", "open"}
    /\ IF flight[KeyAt(w)] = "ok" THEN Goto(w, "send", "none")
                                  ELSE Goto(w, "fail", flight[KeyAt(w)])
    /\ UNCHANGED <<tasks, flight, uploaded, attempts, parent, cause, channel, firstErr, got, ret>>

\* select: the context is done.
WaitCancelled(w) ==
    /\ worker[w].pc = "wait"
    /\ cause # "none"
    /\ Goto(w, "fail", cause)
    /\ UNCHANGED <<tasks, flight, uploaded, attempts, parent, cause, channel, firstErr, got, ret>>

LeaveOpen(outcome) == "open"                \* mutant: close(fl.done) is forgotten

\* What the flight holds once uploadPart has returned and fl.done is closed.
Landed(outcome) == outcome

\* uploadPart returns, the part committed.
UploadOK(w) ==
    /\ worker[w].pc = "upload"
    /\ uploaded' = uploaded \cup {KeyAt(w)}
    /\ flight' = [flight EXCEPT ![KeyAt(w)] = Landed("ok")]
    /\ Goto(w, "send", "none")
    /\ UNCHANGED <<tasks, attempts, parent, cause, channel, firstErr, got, ret>>

\* uploadPart returns an error: its own, or the effect of a cancelled context.
UploadFails(w, err) ==
    /\ worker[w].pc = "upload"
    /\ err = "ctx" => cause # "none"
    /\ flight' = [flight EXCEPT ![KeyAt(w)] = Landed(err)]
    /\ Goto(w, "fail", err)
    /\ UNCHANGED <<tasks, uploaded, attempts, parent, cause, channel, firstErr, got, ret>>

\* process records the root cause before it returns the result.
Fail(w) ==
    /\ worker[w].pc = "fail"
    /\ cause' = Cancelled(cause, worker[w].err)
    /\ Goto(w, "send", worker[w].err)
    /\ UNCHANGED <<tasks, flight, uploaded, attempts, parent, channel, firstErr, got, ret>>

\* resultChan <- result, which blocks while the channel is full.
Send(w) ==
    /\ worker[w].pc = "send"
    /\ Len(results) < Cardinality(Entries)
    /\ results' = Append(results, [entry |-> worker[w].entry, err |-> worker[w].err])
    /\ worker' = [worker EXCEPT ![w] = Resting]
    /\ UNCHANGED <<tasks, flight, uploaded, attempts, parent, cause, wg, closed, firstErr,
                   got, ret>>

\* range finds taskChan closed and empty: the goroutine ends, with wg.Done.
Exit(w) ==
    /\ worker[w].pc = "idle"
    /\ tasks = {}
    /\ Goto(w, "exited", "none")
    /\ wg' = wg - 1
    /\ UNCHANGED <<tasks, flight, uploaded, attempts, parent, cause, results, closed, firstErr,
                   got, ret>>

-----------------------------------------------------------------------------
(* RunBackup and its caller. *)

\* The caller cancels its context; runCtx is a child of it.
CancelParent ==
    /\ ~ parent
    /\ ret.status = "running"
    /\ parent' = TRUE
    /\ cause' = Cancelled(cause, "parent")
    /\ UNCHANGED <<tasks, worker, flight, uploaded, attempts, channel, firstErr, got, ret>>

\* wg.Wait(); close(resultChan)
CloseResults ==
    /\ wg = 0
    /\ ~ closed
    /\ closed' = TRUE
    /\ UNCHANGED <<tasks, worker, flight, uploaded, attempts, parent, cause, results, wg,
                   firstErr, got, ret>>

\* One result is gathered; after the first error the rest are only drained.
Gather ==
    /\ ret.status = "running"
    /\ results # <<>>
    /\ LET res == Head(results) IN
          IF res.err # "none"
          THEN /\ firstErr' = IF firstErr = "none" THEN res.err ELSE firstErr
               /\ cause' = IF firstErr = "none" THEN Cancelled(cause, res.err) ELSE cause
               /\ UNCHANGED got
          ELSE /\ got' = IF firstErr = "none" THEN got \cup {res.entry} ELSE got
               /\ UNCHANGED <<firstErr, cause>>
    /\ results' = Tail(results)
    /\ UNCHANGED <<tasks, worker, flight, uploaded, attempts, parent, wg, closed, ret>>

\* for res := range resultChan ends: the channel is closed and empty.
Drained == closed /\ results = <<>>

RunErrorOfCaller ==                         \* mutant: only the caller's context counts
    IF parent THEN [status |-> "incomplete", err |-> cause]
              ELSE [status |-> "commit", err |-> "none"]

\* runError: the cause of the cancellation, else the first error, else a count check.
RunError ==
    LET err == IF cause # "none" THEN cause ELSE firstErr
    IN  IF err # "none"
        THEN [status |-> IF parent THEN "incomplete" ELSE "failed", err |-> err]
        ELSE IF Cardinality(got) # Cardinality(Entries)
             THEN [status |-> "incomplete", err |-> "none"]
             ELSE [status |-> "commit", err |-> "none"]

Finish ==
    /\ ret.status = "running"
    /\ Drained
    /\ ret' = RunError
    /\ UNCHANGED <<tasks, worker, flight, uploaded, attempts, parent, cause, channel, firstErr,
                   got>>

\* RunBackup has returned (or gone on to write ".tsync").
Returned ==
    /\ ret.status # "running"
    /\ UNCHANGED vars

WorkerStep(w) ==
    \/ \E e \in Entries : Take(w, e)
    \/ Reuse(w)
    \/ \E err \in {"own", "ctx"} : ReadFails(w, err) \/ UploadFails(w, err)
    \/ Claim(w)
    \/ Join(w)
    \/ FlightDone(w)
    \/ WaitCancelled(w)
    \/ UploadOK(w)
    \/ Fail(w)
    \/ Send(w)
    \/ Exit(w)

Next == \/ \E w \in Workers : WorkerStep(w)
        \/ CancelParent
        \/ CloseResults
        \/ Gather
        \/ Finish
        \/ Returned

\* Goroutines are scheduled fairly and every storage or source call returns; nothing
\* obliges the caller to cancel.
Fairness == /\ \A w \in Workers : WF_vars(WorkerStep(w))
            /\ WF_vars(CloseResults)
            /\ WF_vars(Gather)
            /\ WF_vars(Finish)

Spec == Init /\ [][Next]_vars /\ Fairness

-----------------------------------------------------------------------------
(* Properties. *)

\* RunBackup goes on to write ".tsync" only if every entry was processed and every
\* file it will record has a part: one recorded before, or one this run committed.
CommitComplete ==
    ret.status = "commit" =>
        /\ got = Entries
        /\ \A e \in Entries : KeyOf[e] = Directory \/ KeyOf[e] \in Existing \cup uploaded

\* Two workers on files with the same content never upload the part twice, and a part
\* that has a record is not uploaded at all: the record and the part could disagree on
\* the password of the run.
UploadedOnce == \A k \in Keys : attempts[k] <= IF k \in Existing THEN 0 ELSE 1

\* A failed run reports what went wrong, not the cancellation that followed it, and
\* says ErrIncompleteRun only if its caller cancelled it.
ErrorsExplained == /\ ret.status = "failed" => ret.err = "own"
                   /\ ret.status = "incomplete" => parent

\* resultChan is closed, and RunBackup returns and closes the source, only when every
\* worker has ended and no entry is left: a result is never sent on the closed channel,
\* and no worker reads the source or writes to storage after the return.
ClosedAfterWork ==
    closed \/ ret.status # "running" => /\ tasks = {}
                                        /\ \A w \in Workers : worker[w].pc = "exited"

\* No worker waits forever, for another's upload or otherwise: the run ends.
Terminates == <>(ret.status # "running")
=============================================================================
