--------------------------- MODULE BackupRunProofs --------------------------
(***************************************************************************)
(* Proofs about BackupRun for every finite set of entries, every number of *)
(* workers, and every way in which the entries share file keys.            *)
(***************************************************************************)
EXTENDS BackupRun, FiniteSetTheorems, TLAPS

PCs == {"idle", "file", "upload", "wait", "fail", "send", "exited"}
RunErrs == {"none", "own", "parent", "ctx"}
Job == [pc : PCs, entry : Entries \cup {NoEntry}, err : RunErrs]
Result == [entry : Entries, err : RunErrs]

TypeOK == /\ tasks \subseteq Entries
          /\ worker \in [Workers -> Job]
          /\ flight \in [Keys -> {"none", "open", "ok", "own", "ctx"}]
          /\ uploaded \subseteq Keys
          /\ attempts \in [Keys -> Nat]
          /\ parent \in BOOLEAN
          /\ cause \in {"none", "own", "parent"}
          /\ results \in Seq(Result)
          /\ closed \in BOOLEAN
          /\ firstErr \in RunErrs
          /\ got \subseteq Entries
          /\ ret \in [status : {"running", "commit", "failed", "incomplete"}, err : RunErrs]

\* The entry can be recorded: what its record will point to is in storage.
Settled(e) == KeyOf[e] = Directory \/ KeyOf[e] \in Existing \cup uploaded

\* What holds of a worker wherever it is: it sends a result without an error only for a
\* settled entry, and with an error only after the run's context has a cause.
WorkerOK(w) ==
    /\ worker[w].pc \notin {"idle", "exited"} => worker[w].entry \in Entries
    /\ worker[w].pc \in {"idle", "file", "upload", "wait", "exited"} => worker[w].err = "none"
    /\ worker[w].pc \in {"file", "upload", "wait"} => KeyAt(w) \in Keys
    /\ worker[w].pc \in {"upload", "wait"} => flight[KeyAt(w)] # "none"
    /\ worker[w].pc = "fail" => worker[w].err # "none"
    /\ worker[w].pc = "send" /\ worker[w].err = "none" => Settled(worker[w].entry)
    /\ worker[w].pc = "send" /\ worker[w].err # "none" => cause # "none"
    /\ worker[w].err \in {"ctx", "parent"} => cause # "none"
    /\ worker[w].pc = "exited" => tasks = {}

\* A key's flight starts with its only upload, never for a recorded key.
FlightOK(k) == /\ attempts[k] = IF flight[k] = "none" THEN 0 ELSE 1
               /\ flight[k] # "none" => k \notin Existing
               /\ flight[k] = "ok" => k \in uploaded
               /\ flight[k] = "ctx" => cause # "none"

ResultOK(r) == IF r.err = "none" THEN Settled(r.entry) ELSE cause # "none"

\* What is gathered, and where the run's error comes from.
GatherInv == /\ \A i \in 1..Len(results) : ResultOK(results[i])
             /\ \A e \in got : Settled(e)
             /\ firstErr # "none" => cause # "none"
             /\ cause = "parent" => parent

\* As long as nothing has gone wrong, no entry is lost between the channels.
Accounted(e) == \/ e \in tasks
                \/ \E w \in Workers : worker[w].pc \notin {"idle", "exited"} /\ worker[w].entry = e
                \/ \E i \in 1..Len(results) : results[i].entry = e
                \/ e \in got

Coverage == cause = "none" => \A e \in Entries : Accounted(e)

\* The workers that wg still counts.
Active == {w \in Workers : worker[w].pc # "exited"}

\* The counter is that of the workers that have not ended, and resultChan is closed only
\* when there is none.
PoolInv == /\ wg = Cardinality(Active)
           /\ closed => Active = {}

\* RunBackup has returned only after everything was drained.
RetInv == /\ ret.status # "running" => Drained
          /\ ret.status = "commit" => got = Entries
          /\ ErrorsExplained

IInv == /\ TypeOK
        /\ \A w \in Workers : WorkerOK(w)
        /\ \A k \in Keys : FlightOK(k)
        /\ GatherInv
        /\ Coverage
        /\ PoolInv
        /\ RetInv

-----------------------------------------------------------------------------

\* RunBackup starts its workers in the invariant.
LEMMA InitInv == Init => IInv
<1> SUFFICES ASSUME Init
             PROVE  IInv
  OBVIOUS
<1>1. worker \in [Workers -> Job]
  BY DEF Init, Resting, Job, PCs, RunErrs
<1>2. parent \in BOOLEAN
  BY DEF Init
<1>3. attempts \in [Keys -> Nat]
  BY DEF Init
<1>4. results \in Seq(Result) /\ Len(results) = 0
  BY DEF Init
<1>5. TypeOK
  BY <1>1, <1>2, <1>3, <1>4 DEF Init, TypeOK, RunErrs
<1>6. ASSUME NEW w \in Workers
      PROVE  WorkerOK(w)
  BY <1>6 DEF Init, WorkerOK, Resting
<1>7. ASSUME NEW k \in Keys
      PROVE  FlightOK(k)
  BY <1>7 DEF Init, FlightOK
<1>8. GatherInv
  BY <1>4 DEF Init, GatherInv
<1>9. Coverage /\ RetInv
  BY DEF Init, Coverage, Accounted, RetInv, ErrorsExplained
<1>10. Active = Workers
  BY DEF Init, Active, Resting
<1>11. PoolInv
  BY <1>10 DEF Init, PoolInv, Added
<1> QED
  BY <1>5, <1>6, <1>7, <1>8, <1>9, <1>11 DEF IInv

\* The goroutine w goes on; no other moves.
LEMMA GotoJob ==
    ASSUME TypeOK, NEW w \in Workers, NEW p \in PCs, NEW x \in RunErrs, Goto(w, p, x)
    PROVE  /\ worker' \in [Workers -> Job]
           /\ worker'[w].pc = p
           /\ worker'[w].err = x
           /\ worker'[w].entry = worker[w].entry
           /\ \A v \in Workers : v # w => worker'[v] = worker[v]
<1>1. worker \in [Workers -> Job] /\ worker[w] \in Job
  BY DEF TypeOK
<1>2. worker' = [worker EXCEPT ![w] = [[worker[w] EXCEPT !.pc = p] EXCEPT !.err = x]]
  BY <1>1 DEF Goto, Job
<1> DEFINE j == [worker[w] EXCEPT !.pc = p]
           i == [j EXCEPT !.err = x]
<1>3. j \in Job /\ j.pc = p /\ j.entry = worker[w].entry
  BY <1>1 DEF Job
<1> HIDE DEF j
<1>4. i \in Job /\ i.pc = p /\ i.entry = worker[w].entry /\ i.err = x
  BY <1>3 DEF Job
<1>5. worker' = [worker EXCEPT ![w] = i]
  BY <1>2 DEF j
<1> HIDE DEF i
<1> QED
  BY <1>1, <1>4, <1>5

\* A worker other than the one that moves is where it was; parts stay uploaded, flights
\* stay started, and a cancelled context stays cancelled.
Onward == /\ uploaded \subseteq uploaded'
          /\ tasks' \subseteq tasks
          /\ cause # "none" => cause' # "none"
          /\ \A k \in Keys : flight[k] # "none" => flight'[k] # "none"

\* What holds of a worker that does not move is not disturbed by those that do.
LEMMA OtherWorkers ==
    ASSUME NEW w, WorkerOK(w), worker'[w] = worker[w], Onward
    PROVE  WorkerOK(w)'
BY DEF WorkerOK, Onward, KeyAt, Settled

\* Nor is what has been gathered.
LEMMA GatheredStays ==
    ASSUME GatherInv, Onward, UNCHANGED <<results, got, firstErr>>,
           cause' = "parent" => parent'
    PROVE  GatherInv'
BY DEF GatherInv, ResultOK, Settled, Onward

\* No worker ends: the counter is still that of the others.
LEMMA PoolStays ==
    ASSUME PoolInv, UNCHANGED <<wg, closed>>,
           \A w \in Workers : worker'[w].pc = "exited" <=> worker[w].pc = "exited"
    PROVE  PoolInv'
<1>1. Active' = Active
  BY DEF Active
<1> QED
  BY <1>1 DEF PoolInv

\* Once resultChan is closed, nobody is left to send on it and nothing to be taken.
LEMMA ClosedMeansDone ==
    ASSUME IInv, closed
    PROVE  tasks = {} /\ \A w \in Workers : worker[w].pc = "exited"
<1>1. \A w \in Workers : worker[w].pc = "exited"
  BY DEF IInv, PoolInv, Active
<1>2. CASE Workers # {}
  BY <1>1, <1>2 DEF IInv, WorkerOK
<1>3. CASE Workers = {}
  BY <1>3, EntriesAssumption DEF IInv, TypeOK
<1> QED
  BY <1>1, <1>2, <1>3

\* A worker at an entry moves on with it: what is left to show is the worker's own part
\* and that of the flights.
LEMMA WorkerMoves ==
    ASSUME IInv, NEW w \in Workers, NEW p \in PCs \ {"idle", "exited"}, NEW x \in RunErrs,
           worker[w].pc \notin {"idle", "exited"}, Goto(w, p, x), Onward,
           UNCHANGED <<tasks, parent, channel, firstErr, got, ret>>,
           flight' \in [Keys -> {"none", "open", "ok", "own", "ctx"}],
           uploaded' \subseteq Keys, attempts' \in [Keys -> Nat],
           cause' \in {"none", "own", cause},
           WorkerOK(w)', \A k \in Keys : FlightOK(k)'
    PROVE  IInv'
<1>0. TypeOK /\ GatherInv /\ Coverage /\ PoolInv /\ RetInv /\ \A v \in Workers : WorkerOK(v)
  BY DEF IInv
<1>1. /\ worker' \in [Workers -> Job]
      /\ worker'[w].pc = p
      /\ worker'[w].entry = worker[w].entry
      /\ \A v \in Workers : v # w => worker'[v] = worker[v]
  BY <1>0, GotoJob
<1>2. TypeOK'
  BY <1>0, <1>1 DEF TypeOK, channel
<1>3. \A v \in Workers : WorkerOK(v)'
  BY <1>0, <1>1, OtherWorkers
<1>4. GatherInv'
  BY <1>0, GatheredStays DEF GatherInv, channel
<1>5. Coverage'
  <2> SUFFICES ASSUME cause' = "none", NEW e \in Entries
               PROVE  Accounted(e)'
    BY DEF Coverage
  <2>1. Accounted(e)
    BY <1>0 DEF Coverage, Onward
  <2>2. ASSUME NEW v \in Workers, worker[v].pc \notin {"idle", "exited"}, worker[v].entry = e
        PROVE  worker'[v].pc \notin {"idle", "exited"} /\ worker'[v].entry = e
    BY <1>1, <2>2
  <2> QED
    BY <2>1, <2>2 DEF Accounted, channel
<1>6. RetInv'
  BY <1>0 DEF RetInv, Drained, ErrorsExplained, channel
<1>7. PoolInv'
  <2>1. worker'[w].pc # "exited" /\ worker[w].pc # "exited"
    BY <1>1
  <2> QED
    BY <2>1, <1>0, <1>1, PoolStays DEF channel
<1> QED
  BY <1>2, <1>3, <1>4, <1>5, <1>6, <1>7 DEF IInv

\* The steps of a worker that read the source, look up the key or wait for a flight.
LEMMA FileSteps ==
    ASSUME IInv, NEW w \in Workers,
           \/ Reuse(w) \/ Join(w) \/ FlightDone(w) \/ WaitCancelled(w)
           \/ \E err \in {"own", "ctx"} : ReadFails(w, err)
    PROVE  IInv'
<1>0. /\ TypeOK
      /\ WorkerOK(w)
      /\ \A k \in Keys : FlightOK(k)
      /\ UNCHANGED <<tasks, flight, uploaded, attempts, parent, cause, channel, firstErr,
                     got, ret>>
  BY DEF IInv, Reuse, Join, FlightDone, WaitCancelled, ReadFails
<1>1. Onward /\ \A k \in Keys : FlightOK(k)'
  BY <1>0 DEF Onward, FlightOK
<1>2. /\ worker[w].pc \in {"file", "wait"}
      /\ worker[w].entry \in Entries
      /\ KeyAt(w) \in Keys
      /\ flight[KeyAt(w)] \in {"none", "open", "ok", "own", "ctx"}
  BY <1>0 DEF WorkerOK, Reuse, Join, FlightDone, WaitCancelled, ReadFails, TypeOK
<1>3. PICK p \in PCs \ {"idle", "exited"}, x \in RunErrs :
         /\ Goto(w, p, x)
         /\ \/ p = "send" /\ x = "none" /\ Settled(worker[w].entry)
            \/ p = "wait" /\ x = "none" /\ flight[KeyAt(w)] # "none"
            \/ p = "fail" /\ x # "none" /\ (x \in {"ctx", "parent"} => cause # "none")
  <2>1. CASE Reuse(w)
    BY <2>1 DEF Reuse, Settled, KeyAt, PCs, RunErrs
  <2>2. CASE Join(w)
    BY <2>2 DEF Join, InFlight, PCs, RunErrs
  <2>3. CASE FlightDone(w)
    <3>1. CASE flight[KeyAt(w)] = "ok"
      BY <2>3, <3>1, <1>0, <1>2 DEF FlightDone, FlightOK, Settled, KeyAt, PCs, RunErrs
    <3>2. CASE flight[KeyAt(w)] \in {"own", "ctx"}
      BY <2>3, <3>2, <1>0, <1>2 DEF FlightDone, FlightOK, PCs, RunErrs
    <3> QED
      BY <3>1, <3>2, <2>3, <1>2 DEF FlightDone
  <2>4. CASE WaitCancelled(w)
    BY <2>4, <1>0 DEF WaitCancelled, TypeOK, PCs, RunErrs
  <2>5. ASSUME NEW err \in {"own", "ctx"}, ReadFails(w, err)
        PROVE  Goto(w, "fail", err) /\ (err = "ctx" => cause # "none")
    BY <2>5 DEF ReadFails
  <2> QED
    BY <2>1, <2>2, <2>3, <2>4, <2>5 DEF PCs, RunErrs
<1>4. /\ worker'[w].pc = p /\ worker'[w].err = x
      /\ worker'[w].entry = worker[w].entry
  BY <1>0, <1>3, GotoJob
<1>5. WorkerOK(w)'
  BY <1>0, <1>2, <1>3, <1>4 DEF WorkerOK, KeyAt, Settled
<1> QED
  BY <1>0, <1>1, <1>2, <1>3, <1>5, WorkerMoves DEF TypeOK

\* uploadOnce starts the flight of a key and counts the upload.
LEMMA ClaimStep ==
    ASSUME IInv, NEW w \in Workers, Claim(w)
    PROVE  IInv'
<1>0. /\ TypeOK
      /\ WorkerOK(w)
      /\ \A k \in Keys : FlightOK(k)
      /\ worker[w].pc = "file"
      /\ worker[w].entry \in Entries
      /\ KeyAt(w) \in Keys \ Existing
      /\ flight[KeyAt(w)] = "none"
      /\ Goto(w, "upload", "none")
      /\ UNCHANGED <<tasks, uploaded, parent, cause, channel, firstErr, got, ret>>
  BY DEF IInv, Claim, InFlight, WorkerOK
<1>1. /\ flight' = [flight EXCEPT ![KeyAt(w)] = "open"]
      /\ attempts' = [attempts EXCEPT ![KeyAt(w)] = @ + 1]
  BY DEF Claim
<1>2. /\ flight' \in [Keys -> {"none", "open", "ok", "own", "ctx"}]
      /\ attempts' \in [Keys -> Nat]
  BY <1>0, <1>1 DEF TypeOK
<1>3. Onward
  BY <1>0, <1>1 DEF Onward, TypeOK
<1>4. ASSUME NEW k \in Keys
      PROVE  FlightOK(k)'
  BY <1>0, <1>1, <1>4 DEF FlightOK, TypeOK
<1>5. /\ worker'[w].pc = "upload" /\ worker'[w].err = "none"
      /\ worker'[w].entry = worker[w].entry
  BY <1>0, GotoJob DEF PCs, RunErrs
<1>6. WorkerOK(w)'
  BY <1>0, <1>1, <1>5 DEF WorkerOK, KeyAt, TypeOK
<1> QED
  BY <1>0, <1>2, <1>3, <1>4, <1>6, WorkerMoves DEF TypeOK, PCs, RunErrs

\* uploadPart returns and the flight ends, for the waiters too.
LEMMA UploadSteps ==
    ASSUME IInv, NEW w \in Workers,
           UploadOK(w) \/ \E err \in {"own", "ctx"} : UploadFails(w, err)
    PROVE  IInv'
<1>0. /\ TypeOK
      /\ WorkerOK(w)
      /\ \A k \in Keys : FlightOK(k)
      /\ worker[w].pc = "upload"
      /\ worker[w].entry \in Entries
      /\ KeyAt(w) \in Keys
      /\ flight[KeyAt(w)] # "none"
      /\ UNCHANGED <<tasks, attempts, parent, cause, channel, firstErr, got, ret>>
  BY DEF IInv, UploadOK, UploadFails, WorkerOK
<1>1. PICK outcome \in {"ok", "own", "ctx"} :
         /\ flight' = [flight EXCEPT ![KeyAt(w)] = outcome]
         /\ uploaded' = IF outcome = "ok" THEN uploaded \cup {KeyAt(w)} ELSE uploaded
         /\ IF outcome = "ok" THEN Goto(w, "send", "none") ELSE Goto(w, "fail", outcome)
         /\ outcome = "ctx" => cause # "none"
  BY DEF UploadOK, UploadFails, Landed
<1>2. flight' \in [Keys -> {"none", "open", "ok", "own", "ctx"}]
  BY <1>0, <1>1 DEF TypeOK
<1>3. Onward /\ uploaded' \subseteq Keys
  BY <1>0, <1>1 DEF Onward, TypeOK
<1>4. ASSUME NEW k \in Keys
      PROVE  FlightOK(k)'
  <2>1. FlightOK(k)
    BY <1>0
  <2>2. CASE k = KeyAt(w)
    <3>1. flight'[k] = outcome /\ flight[k] # "none" /\ (outcome = "ok" => k \in uploaded')
      BY <2>2, <1>0, <1>1 DEF TypeOK
    <3> QED
      BY <2>1, <3>1, <1>0, <1>1 DEF FlightOK
  <2>3. CASE k # KeyAt(w)
    <3>1. flight'[k] = flight[k]
      BY <2>3, <1>0, <1>1 DEF TypeOK
    <3> QED
      BY <2>1, <3>1, <1>0, <1>3 DEF FlightOK, Onward
  <2> QED
    BY <2>2, <2>3
<1>5. PICK p \in {"send", "fail"}, x \in RunErrs :
         /\ Goto(w, p, x)
         /\ IF p = "send" THEN x = "none" /\ KeyAt(w) \in uploaded'
                          ELSE x = outcome /\ outcome # "ok"
  <2>1. CASE outcome = "ok"
    BY <1>1, <2>1 DEF RunErrs
  <2>2. CASE outcome # "ok"
    BY <1>1, <2>2 DEF RunErrs
  <2> QED
    BY <2>1, <2>2
<1>6. /\ worker'[w].pc = p /\ worker'[w].err = x
      /\ worker'[w].entry = worker[w].entry
  BY <1>0, <1>5, GotoJob DEF PCs
<1>7. WorkerOK(w)'
  BY <1>0, <1>1, <1>5, <1>6 DEF WorkerOK, KeyAt, Settled
<1> QED
  BY <1>0, <1>2, <1>3, <1>4, <1>5, <1>7, WorkerMoves DEF TypeOK, PCs

\* The first failure becomes the cause of the run's context; later ones do not.
LEMMA FailStep ==
    ASSUME IInv, NEW w \in Workers, Fail(w)
    PROVE  IInv'
<1>0. /\ TypeOK
      /\ WorkerOK(w)
      /\ \A k \in Keys : FlightOK(k)
      /\ worker[w].pc = "fail"
      /\ worker[w].entry \in Entries
      /\ worker[w].err \in RunErrs \ {"none"}
      /\ Goto(w, "send", worker[w].err)
      /\ UNCHANGED <<tasks, flight, uploaded, attempts, parent, channel, firstErr, got, ret>>
  BY DEF IInv, Fail, WorkerOK, TypeOK, Job
<1>1. cause' \in {"own", cause} /\ cause' # "none"
  BY <1>0 DEF Fail, Cancelled, WorkerOK, RunErrs
<1>2. Onward /\ \A k \in Keys : FlightOK(k)'
  BY <1>0, <1>1 DEF Onward, FlightOK
<1>3. /\ worker'[w].pc = "send" /\ worker'[w].err = worker[w].err
      /\ worker'[w].entry = worker[w].entry
  BY <1>0, GotoJob DEF PCs
<1>4. WorkerOK(w)'
  BY <1>0, <1>1, <1>3 DEF WorkerOK
<1> QED
  BY <1>0, <1>1, <1>2, <1>4, WorkerMoves DEF TypeOK, PCs

\* A worker takes an entry from the channel; while nothing has failed it has it from then on.
LEMMA TakeStep ==
    ASSUME IInv, NEW w \in Workers, NEW e \in Entries, Take(w, e)
    PROVE  IInv'
<1>0. /\ TypeOK /\ GatherInv /\ Coverage /\ PoolInv /\ RetInv
      /\ \A v \in Workers : WorkerOK(v)
      /\ \A k \in Keys : FlightOK(k)
      /\ worker[w].pc = "idle"
      /\ e \in tasks
      /\ tasks' = tasks \ {e}
      /\ worker' = [worker EXCEPT ![w] = Begun(e)]
      /\ UNCHANGED <<flight, uploaded, attempts, parent, cause, channel, firstErr, got, ret>>
  BY DEF IInv, Take
<1>1. /\ Begun(e) \in Job
      /\ Begun(e).pc \in {"send", "file"}
      /\ Begun(e).entry = e
      /\ Begun(e).err = cause
      /\ Begun(e).pc = "file" <=> cause = "none" /\ KeyOf[e] # Directory
  BY <1>0 DEF Begun, Job, PCs, RunErrs, TypeOK
<1>2. /\ worker' \in [Workers -> Job]
      /\ worker'[w] = Begun(e)
      /\ \A v \in Workers : v # w => worker'[v] = worker[v]
  BY <1>0, <1>1 DEF TypeOK
<1>3. TypeOK'
  BY <1>0, <1>2 DEF TypeOK, channel
<1>4. Onward
  BY <1>0 DEF Onward
<1>5. WorkerOK(w)'
  <2>1. KeyOf[e] \in Keys \cup {Directory}
    BY EntriesAssumption
  <2> QED
    BY <1>0, <1>1, <1>2, <2>1 DEF WorkerOK, KeyAt, Settled
<1>6. \A v \in Workers : WorkerOK(v)'
  BY <1>0, <1>2, <1>4, <1>5, OtherWorkers
<1>7. \A k \in Keys : FlightOK(k)'
  BY <1>0 DEF FlightOK
<1>8. GatherInv'
  BY <1>0, <1>4, GatheredStays DEF GatherInv, channel
<1>9. Coverage'
  <2> SUFFICES ASSUME cause' = "none", NEW f \in Entries
               PROVE  Accounted(f)'
    BY DEF Coverage
  <2>1. Accounted(f)
    BY <1>0 DEF Coverage
  <2>2. CASE f = e
    BY <1>1, <1>2, <2>2 DEF Accounted
  <2>3. ASSUME NEW v \in Workers, worker[v].pc \notin {"idle", "exited"}, worker[v].entry = f
        PROVE  worker'[v].pc \notin {"idle", "exited"} /\ worker'[v].entry = f
    BY <1>0, <1>2, <2>3
  <2> QED
    BY <1>0, <2>1, <2>2, <2>3 DEF Accounted, channel
<1>10. RetInv'
  BY <1>0 DEF RetInv, Drained, ErrorsExplained, channel
<1>11. PoolInv'
  <2>1. worker'[w].pc # "exited" /\ worker[w].pc # "exited"
    BY <1>0, <1>1, <1>2
  <2> QED
    BY <2>1, <1>0, <1>2, PoolStays DEF channel
<1> QED
  BY <1>3, <1>6, <1>7, <1>8, <1>9, <1>10, <1>11 DEF IInv

\* A result is sent: what was known of the worker is known of its result.
LEMMA SendStep ==
    ASSUME IInv, NEW w \in Workers, Send(w)
    PROVE  IInv'
<1> DEFINE r == [entry |-> worker[w].entry, err |-> worker[w].err]
<1>0. /\ TypeOK /\ GatherInv /\ Coverage /\ PoolInv /\ RetInv
      /\ \A v \in Workers : WorkerOK(v)
      /\ \A k \in Keys : FlightOK(k)
      /\ worker[w].pc = "send"
      /\ results' = Append(results, r)
      /\ worker' = [worker EXCEPT ![w] = Resting]
      /\ UNCHANGED <<tasks, flight, uploaded, attempts, parent, cause, wg, closed,
                     firstErr, got, ret>>
  BY DEF IInv, Send
<1>1. r \in Result /\ r.entry = worker[w].entry /\ ResultOK(r)
  BY <1>0 DEF Result, ResultOK, WorkerOK, TypeOK, Job
<1> HIDE DEF r
<1>2. /\ results' \in Seq(Result)
      /\ Len(results') = Len(results) + 1
      /\ Len(results) \in Nat
      /\ \A i \in 1..Len(results) : results'[i] = results[i]
      /\ results'[Len(results')] = r
  BY <1>0, <1>1 DEF TypeOK
<1>3. /\ worker' \in [Workers -> Job]
      /\ worker'[w] = Resting
      /\ \A v \in Workers : v # w => worker'[v] = worker[v]
  BY <1>0 DEF TypeOK, Resting, Job, PCs, RunErrs
<1>4. TypeOK'
  BY <1>0, <1>2, <1>3 DEF TypeOK
<1>5. Onward
  BY <1>0 DEF Onward
<1>6. WorkerOK(w)'
  BY <1>3 DEF WorkerOK, Resting
<1>7. \A v \in Workers : WorkerOK(v)'
  BY <1>0, <1>3, <1>5, <1>6, OtherWorkers
<1>8. \A k \in Keys : FlightOK(k)'
  BY <1>0 DEF FlightOK
<1>9. GatherInv'
  <2>1. ASSUME NEW i \in 1..Len(results')
        PROVE  ResultOK(results[i])'
    <3>1. ResultOK(results'[i])
      BY <1>0, <1>1, <1>2 DEF GatherInv
    <3> QED
      BY <3>1, <1>0 DEF ResultOK, Settled
  <2> QED
    BY <2>1, <1>0 DEF GatherInv, Settled
<1>10. Coverage'
  <2> SUFFICES ASSUME cause' = "none", NEW f \in Entries
               PROVE  Accounted(f)'
    BY DEF Coverage
  <2>1. Accounted(f)
    BY <1>0 DEF Coverage
  <2>2. CASE worker[w].entry = f
    <3>1. Len(results') \in 1..Len(results') /\ results'[Len(results')].entry = f
      BY <1>1, <1>2, <2>2
    <3> QED
      BY <3>1 DEF Accounted
  <2>3. ASSUME NEW v \in Workers, worker[v].pc \notin {"idle", "exited"}, worker[v].entry = f, v # w
        PROVE  worker'[v].pc \notin {"idle", "exited"} /\ worker'[v].entry = f
    BY <1>3, <2>3
  <2>4. ASSUME NEW i \in 1..Len(results), results[i].entry = f
        PROVE  i \in 1..Len(results') /\ results'[i].entry = f
    BY <1>2, <2>4
  <2> QED
    BY <1>0, <2>1, <2>2, <2>3, <2>4 DEF Accounted
<1>11. RetInv'
  <2>1. ~ closed
    BY <1>0, ClosedMeansDone
  <2> QED
    BY <2>1, <1>0 DEF RetInv, Drained, ErrorsExplained
<1>12. PoolInv'
  <2>1. worker'[w].pc # "exited" /\ worker[w].pc # "exited"
    BY <1>0, <1>3 DEF Resting
  <2> QED
    BY <2>1, <1>0, <1>3, PoolStays
<1> QED
  BY <1>4, <1>7, <1>8, <1>9, <1>10, <1>11, <1>12 DEF IInv

\* A worker ends: the counter falls with the number of those that have not.
LEMMA ExitStep ==
    ASSUME IInv, NEW w \in Workers, Exit(w)
    PROVE  IInv'
<1>0. /\ TypeOK /\ GatherInv /\ Coverage /\ PoolInv /\ RetInv
      /\ \A v \in Workers : WorkerOK(v)
      /\ \A k \in Keys : FlightOK(k)
      /\ worker[w].pc = "idle"
      /\ tasks = {}
      /\ Goto(w, "exited", "none")
      /\ wg' = wg - 1
      /\ UNCHANGED <<tasks, flight, uploaded, attempts, parent, cause, results, closed,
                     firstErr, got, ret>>
  BY DEF IInv, Exit
<1>1. /\ worker' \in [Workers -> Job]
      /\ worker'[w].pc = "exited"
      /\ worker'[w].err = "none"
      /\ \A v \in Workers : v # w => worker'[v] = worker[v]
  BY <1>0, GotoJob DEF PCs, RunErrs
<1>2. TypeOK'
  BY <1>0, <1>1 DEF TypeOK
<1>3. Onward
  BY <1>0 DEF Onward
<1>4. WorkerOK(w)'
  BY <1>0, <1>1 DEF WorkerOK
<1>5. \A v \in Workers : WorkerOK(v)'
  BY <1>0, <1>1, <1>3, <1>4, OtherWorkers
<1>6. \A k \in Keys : FlightOK(k)'
  BY <1>0 DEF FlightOK
<1>7. GatherInv'
  BY <1>0, <1>3, GatheredStays DEF GatherInv
<1>8. Coverage'
  <2> SUFFICES ASSUME cause' = "none", NEW e \in Entries
               PROVE  Accounted(e)'
    BY DEF Coverage
  <2>1. Accounted(e)
    BY <1>0 DEF Coverage
  <2>2. ASSUME NEW v \in Workers, worker[v].pc \notin {"idle", "exited"}, worker[v].entry = e
        PROVE  worker'[v].pc \notin {"idle", "exited"} /\ worker'[v].entry = e
    BY <1>0, <1>1, <2>2
  <2> QED
    BY <1>0, <2>1, <2>2 DEF Accounted
<1>9. PoolInv'
  <2>1. Active' = Active \ {w} /\ w \in Active
    BY <1>0, <1>1 DEF Active
  <2>2. IsFiniteSet(Active)
    BY EntriesAssumption, FS_Subset DEF Active
  <2>3. Cardinality(Active') = Cardinality(Active) - 1
    BY <2>1, <2>2, FS_RemoveElement
  <2> QED
    BY <1>0, <2>1, <2>3 DEF PoolInv
<1>10. RetInv'
  BY <1>0 DEF RetInv, Drained, ErrorsExplained
<1> QED
  BY <1>2, <1>5, <1>6, <1>7, <1>8, <1>9, <1>10 DEF IInv

\* The closer closes resultChan when the counter has reached zero, so that no worker is left.
LEMMA CloseResultsStep == IInv /\ CloseResults => IInv'
<1> SUFFICES ASSUME IInv, CloseResults
             PROVE  IInv'
  OBVIOUS
<1>0. /\ TypeOK /\ GatherInv /\ Coverage /\ PoolInv /\ RetInv
      /\ \A v \in Workers : WorkerOK(v)
      /\ \A k \in Keys : FlightOK(k)
      /\ wg = 0
      /\ closed' = TRUE
      /\ UNCHANGED <<tasks, worker, flight, uploaded, attempts, parent, cause, results, wg,
                     firstErr, got, ret>>
  BY DEF IInv, CloseResults
<1>1. TypeOK'
  BY <1>0 DEF TypeOK
<1>2. Onward
  BY <1>0 DEF Onward
<1>3. \A v \in Workers : WorkerOK(v)'
  BY <1>0, <1>2, OtherWorkers
<1>4. \A k \in Keys : FlightOK(k)'
  BY <1>0 DEF FlightOK
<1>5. GatherInv'
  BY <1>0, <1>2, GatheredStays DEF GatherInv
<1>6. Coverage' /\ RetInv'
  BY <1>0 DEF Coverage, Accounted, RetInv, Drained, ErrorsExplained
<1>7. PoolInv'
  <2>1. IsFiniteSet(Active)
    BY EntriesAssumption, FS_Subset DEF Active
  <2>2. Active = {}
    BY <2>1, <1>0, FS_EmptySet DEF PoolInv
  <2>3. Active' = Active
    BY <1>0 DEF Active
  <2> QED
    BY <2>2, <2>3, <1>0 DEF PoolInv
<1> QED
  BY <1>1, <1>3, <1>4, <1>5, <1>6, <1>7 DEF IInv

\* The caller cancels: a cause is set, unless there is one.
LEMMA CancelParentStep == IInv /\ CancelParent => IInv'
<1> SUFFICES ASSUME IInv, CancelParent
             PROVE  IInv'
  OBVIOUS
<1>0. /\ TypeOK /\ GatherInv /\ Coverage /\ PoolInv /\ RetInv
      /\ \A v \in Workers : WorkerOK(v)
      /\ \A k \in Keys : FlightOK(k)
      /\ UNCHANGED <<tasks, worker, flight, uploaded, attempts, channel, firstErr, got, ret>>
      /\ ret.status = "running"
  BY DEF IInv, CancelParent
<1>1. parent' \in BOOLEAN /\ parent'
  BY DEF CancelParent
<1>2. cause' \in {"own", "parent"}
  BY <1>0 DEF CancelParent, Cancelled, TypeOK
<1>3. TypeOK'
  BY <1>0, <1>1, <1>2 DEF TypeOK, channel
<1>4. Onward
  BY <1>0, <1>2 DEF Onward
<1>5. \A v \in Workers : WorkerOK(v)'
  BY <1>0, <1>4, OtherWorkers
<1>6. \A k \in Keys : FlightOK(k)'
  BY <1>0, <1>2 DEF FlightOK
<1>7. GatherInv'
  BY <1>0, <1>1, <1>4, GatheredStays DEF channel
<1>8. Coverage' /\ RetInv'
  BY <1>0, <1>2 DEF Coverage, RetInv, ErrorsExplained
<1>9. PoolInv'
  BY <1>0, PoolStays DEF channel
<1> QED
  BY <1>3, <1>5, <1>6, <1>7, <1>8, <1>9 DEF IInv

\* RunBackup gathers a result: an entry is recorded only if nothing failed before it, and
\* the first error cancels the context if its worker has not done so.
LEMMA GatherStep == IInv /\ Gather => IInv'
<1> SUFFICES ASSUME IInv, Gather
             PROVE  IInv'
  OBVIOUS
<1> DEFINE r == Head(results)
<1>0. /\ TypeOK /\ GatherInv /\ Coverage /\ PoolInv /\ RetInv
      /\ \A v \in Workers : WorkerOK(v)
      /\ \A k \in Keys : FlightOK(k)
      /\ ret.status = "running"
      /\ results # <<>>
      /\ results' = Tail(results)
      /\ UNCHANGED <<tasks, worker, flight, uploaded, attempts, parent, wg, closed, ret>>
  BY DEF IInv, Gather
<1>1. /\ r \in Result
      /\ r = results[1]
      /\ ResultOK(r)
      /\ results' \in Seq(Result)
      /\ Len(results) \in Nat \ {0}
      /\ Len(results') = Len(results) - 1
      /\ \A i \in 1..Len(results') : results'[i] = results[i + 1]
  BY <1>0 DEF TypeOK, GatherInv
<1>2. /\ cause' = cause
      /\ \/ /\ r.err # "none" /\ got' = got
            /\ firstErr' = IF firstErr = "none" THEN r.err ELSE firstErr
         \/ /\ r.err = "none" /\ firstErr' = firstErr
            /\ got' = IF firstErr = "none" THEN got \cup {r.entry} ELSE got
  BY <1>1 DEF Gather, Cancelled, ResultOK
<1> HIDE DEF r
<1>3. r.entry \in Entries /\ r.err \in RunErrs
  BY <1>1 DEF Result
<1>4. TypeOK'
  BY <1>0, <1>1, <1>2, <1>3 DEF TypeOK
<1>5. Onward
  BY <1>0, <1>2 DEF Onward
<1>6. \A v \in Workers : WorkerOK(v)'
  BY <1>0, <1>5, OtherWorkers
<1>7. \A k \in Keys : FlightOK(k)'
  BY <1>0, <1>2 DEF FlightOK
<1>8. GatherInv'
  <2>1. ASSUME NEW i \in 1..Len(results')
        PROVE  ResultOK(results[i])'
    <3>1. i + 1 \in 1..Len(results)
      BY <1>1
    <3>2. ResultOK(results[i + 1])
      BY <1>0, <3>1 DEF GatherInv
    <3> QED
      BY <3>2, <1>0, <1>1, <1>2 DEF ResultOK, Settled
  <2>2. ASSUME NEW e \in got'
        PROVE  Settled(e)'
    <3>1. Settled(e)
      BY <1>0, <1>1, <1>2 DEF GatherInv, ResultOK
    <3> QED
      BY <3>1, <1>0 DEF Settled
  <2>3. firstErr' # "none" => cause' # "none"
    BY <1>0, <1>1, <1>2 DEF GatherInv, ResultOK
  <2> QED
    BY <2>1, <2>2, <2>3, <1>0, <1>2 DEF GatherInv
<1>9. Coverage'
  <2> SUFFICES ASSUME cause' = "none", NEW e \in Entries
               PROVE  Accounted(e)'
    BY DEF Coverage
  <2>1. Accounted(e) /\ got' = got \cup {r.entry}
    BY <1>0, <1>1, <1>2 DEF Coverage, GatherInv, ResultOK
  <2>2. ASSUME NEW i \in 1..Len(results), results[i].entry = e
        PROVE  e = r.entry \/ \E j \in 1..Len(results') : results'[j].entry = e
    <3>1. CASE i = 1
      BY <1>1, <2>2, <3>1
    <3>2. CASE i # 1
      <4>1. i - 1 \in 1..Len(results') /\ (i - 1) + 1 = i
        BY <1>1, <3>2
      <4>2. results'[i - 1] = results[i]
        BY <1>1, <4>1
      <4> QED
        BY <4>1, <4>2, <2>2
    <3> QED
      BY <3>1, <3>2
  <2> QED
    BY <1>0, <2>1, <2>2 DEF Accounted
<1>10. RetInv'
  BY <1>0 DEF RetInv, ErrorsExplained
<1>11. PoolInv'
  BY <1>0, PoolStays
<1> QED
  BY <1>4, <1>6, <1>7, <1>8, <1>9, <1>10, <1>11 DEF IInv

\* RunBackup decides: with a cause the run failed or was cancelled; without one every
\* entry has been gathered, so that the count check never fails.
LEMMA FinishStep == IInv /\ Finish => IInv'
<1> SUFFICES ASSUME IInv, Finish
             PROVE  IInv'
  OBVIOUS
<1>0. /\ TypeOK /\ GatherInv /\ Coverage /\ PoolInv /\ RetInv
      /\ \A v \in Workers : WorkerOK(v)
      /\ \A k \in Keys : FlightOK(k)
      /\ Drained
      /\ ret' = RunError
      /\ UNCHANGED <<tasks, worker, flight, uploaded, attempts, parent, cause, channel,
                     firstErr, got>>
  BY DEF IInv, Finish
<1>1. cause = "none" => got = Entries /\ firstErr = "none"
  <2> SUFFICES ASSUME cause = "none"
               PROVE  got = Entries /\ firstErr = "none"
    OBVIOUS
  <2>1. /\ 1..Len(results) = {}
        /\ tasks = {}
        /\ \A w \in Workers : worker[w].pc = "exited"
    BY <1>0, ClosedMeansDone DEF Drained
  <2>2. ASSUME NEW e \in Entries
        PROVE  e \in got
    BY <2>1, <1>0 DEF Coverage, Accounted, Drained
  <2> QED
    BY <2>2, <1>0 DEF GatherInv, TypeOK
<1>2. IF cause = "none"
      THEN ret' = [status |-> "commit", err |-> "none"]
      ELSE ret' = [status |-> IF parent THEN "incomplete" ELSE "failed", err |-> cause]
  BY <1>0, <1>1 DEF RunError
<1>3. /\ ret' \in [status : {"running", "commit", "failed", "incomplete"}, err : RunErrs]
      /\ ret'.status = "commit" => cause = "none"
      /\ ret'.status = "failed" => ret'.err = cause /\ cause # "none" /\ ~ parent
      /\ ret'.status = "incomplete" => parent
  <2>1. CASE cause = "none"
    BY <1>2, <2>1 DEF RunErrs
  <2>2. CASE cause # "none" /\ parent
    BY <1>0, <1>2, <2>2 DEF RunErrs, TypeOK
  <2>3. CASE cause # "none" /\ ~ parent
    BY <1>0, <1>2, <2>3 DEF RunErrs, TypeOK
  <2> QED
    BY <2>1, <2>2, <2>3
<1>4. TypeOK'
  BY <1>0, <1>3 DEF TypeOK, channel
<1>5. Onward
  BY <1>0 DEF Onward
<1>6. \A v \in Workers : WorkerOK(v)'
  BY <1>0, <1>5, OtherWorkers
<1>7. \A k \in Keys : FlightOK(k)'
  BY <1>0 DEF FlightOK
<1>8. GatherInv' /\ Coverage'
  BY <1>0, <1>5, GatheredStays DEF GatherInv, Coverage, Accounted, channel
<1>9. RetInv'
  <2>1. ErrorsExplained'
    BY <1>0, <1>3 DEF ErrorsExplained, GatherInv, TypeOK
  <2> QED
    BY <2>1, <1>0, <1>1, <1>3 DEF RetInv, Drained, channel
<1>10. PoolInv'
  BY <1>0, PoolStays DEF channel
<1> QED
  BY <1>4, <1>6, <1>7, <1>8, <1>9, <1>10 DEF IInv

\* Every step of the workers, of RunBackup and of its caller keeps the invariant.
LEMMA StepInv == IInv /\ [Next]_vars => IInv'
<1> SUFFICES ASSUME IInv, [Next]_vars
             PROVE  IInv'
  OBVIOUS
<1>1. ASSUME NEW w \in Workers, WorkerStep(w)
      PROVE  IInv'
  BY <1>1, TakeStep, FileSteps, ClaimStep, UploadSteps, FailStep, SendStep, ExitStep
     DEF WorkerStep
<1>2. CASE UNCHANGED vars
  BY <1>2 DEF vars, IInv, TypeOK, WorkerOK, FlightOK, GatherInv, Coverage, RetInv, PoolInv, Active, KeyAt,
              Settled, ResultOK, Accounted, Drained, ErrorsExplained
<1> QED
  BY <1>1, <1>2, CancelParentStep, CloseResultsStep, GatherStep, FinishStep
     DEF Next, Returned

\* The invariant holds throughout every run.
LEMMA Invariance == Spec => []IInv
BY InitInv, StepInv, PTL DEF Spec

-----------------------------------------------------------------------------

\* RunBackup goes on to write ".tsync" only when every entry was processed and every
\* file it records has a part, whatever the workers did in whichever order.
THEOREM CommitCompleteHolds == Spec => []CommitComplete
<1>1. IInv => CommitComplete
  BY DEF IInv, RetInv, GatherInv, Settled, CommitComplete
<1> QED
  BY <1>1, Invariance, PTL

\* No key is uploaded twice in a run, and a recorded one not at all.
THEOREM UploadedOnceHolds == Spec => []UploadedOnce
<1>1. IInv => UploadedOnce
  BY DEF IInv, FlightOK, UploadedOnce
<1> QED
  BY <1>1, Invariance, PTL

\* A failed run reports its own first failure, and a run is called incomplete only if
\* its caller cancelled it: the count check of runError never decides.
THEOREM ErrorsExplainedHolds == Spec => []ErrorsExplained
<1>1. IInv => ErrorsExplained
  BY DEF IInv, RetInv
<1> QED
  BY <1>1, Invariance, PTL

\* resultChan is closed, and RunBackup returns, only after every worker has ended with no
\* entry left, whichever of them ends last: the counter is right in every interleaving.
THEOREM ClosedAfterWorkHolds == Spec => []ClosedAfterWork
<1>1. ASSUME IInv
      PROVE  ClosedAfterWork
  <2>1. ret.status # "running" => closed
    BY <1>1 DEF IInv, RetInv, Drained
  <2> QED
    BY <1>1, <2>1, ClosedMeansDone DEF ClosedAfterWork
<1> QED
  BY <1>1, Invariance, PTL
=============================================================================
