---------------------------- MODULE VersionOrder ----------------------------
(***************************************************************************)
(* The order of versions: what RunBackup (tsync/backup.go) checks of       *)
(* version IDs and timestamps when it starts, what it gives a version when *)
(* it commits, and which version is then reported as the latest            *)
(* (StoreMetadata, tsync/client.go).  The clock may be set back.           *)
(***************************************************************************)
EXTENDS Naturals

CONSTANTS IDs,           \* version IDs
          Times,         \* what a clock may show
          Tolerance,     \* futureTimestampTolerance
          MaxBackups     \* bound: versions made

ASSUME OrderAssumption == /\ IDs \subseteq Nat \ {0}
                          /\ Times \subseteq Nat \ {0}
                          /\ Tolerance \in Nat

VARIABLES versions,      \* metadata.Versions: [ts, prev] by ID
          clock,         \* time.Now()
          run,           \* the options of the backup that runs, and what it found
          reported,      \* the last answer of LatestVersion
          made,          \* history: how many versions were made
          born,          \* history: the number of each version in the store, by ID
          orderly        \* history: each was newer than those in the store

vars == <<versions, clock, run, reported, made, born, orderly>>

\* No ID, no time, no version.
Zero == 0

NoRun == [on |-> FALSE, id |-> Zero, ts |-> Zero, single |-> FALSE, latest |-> Zero]

Init == /\ versions = <<>>
        /\ clock \in Times
        /\ run = NoRun
        /\ reported = Zero
        /\ made = 0
        /\ born = <<>>
        /\ orderly = TRUE

Stored == DOMAIN versions

LatestByID == IF Stored = {} THEN Zero          \* mutant: timestamps do not count
              ELSE CHOOSE v \in Stored : \A w \in Stored : w <= v

\* By timestamp, and of one timestamp by ID.
NotAfter(w, v) == \/ versions[w].ts < versions[v].ts
                  \/ versions[w].ts = versions[v].ts /\ w <= v

\* latestVersion
LatestVersion ==
    IF Stored = {} THEN Zero
    ELSE CHOOSE v \in Stored : \A w \in Stored : NotAfter(w, v)

-----------------------------------------------------------------------------
(* RunBackup. *)

\* validateBackupOptions
ValidTimestamp(ts) == ts <= clock + Tolerance

\* The checks of CustomVersionID and CustomBackupTimestamp against the store.
Acceptable(id, ts) ==
    /\ id \notin Stored
    /\ ts # Zero /\ Stored # {} => ts > versions[LatestVersion].ts

\* A backup that is refused changes nothing, and is left out.
StartBackup(id, ts, single) ==
    /\ ~ run.on
    /\ made < MaxBackups
    /\ ts # Zero => ValidTimestamp(ts)
    /\ Acceptable(id, ts)
    /\ run' = [on |-> TRUE, id |-> id, ts |-> ts, single |-> single, latest |-> LatestVersion]
    /\ UNCHANGED <<versions, clock, reported, made, born, orderly>>

FailBackup ==
    /\ run.on
    /\ run' = NoRun
    /\ UNCHANGED <<versions, clock, reported, made, born, orderly>>

\* generateVersionID, or the one asked for.
VersionIDs == IF run.id = Zero THEN IDs \ Stored ELSE {run.id}

BackupTime == IF run.ts = Zero THEN clock ELSE run.ts

\* The versions kept beside the new one.
Kept == IF run.single THEN {} ELSE Stored

Commit(id) ==
    /\ run.on
    /\ id \in VersionIDs
    /\ versions' = [v \in Kept \cup {id} |->
                       IF v = id THEN [ts |-> BackupTime, prev |-> run.latest] ELSE versions[v]]
    /\ born' = [v \in Kept \cup {id} |-> IF v = id THEN made + 1 ELSE born[v]]
    /\ orderly' = (orderly /\ \A v \in Stored : versions[v].ts < BackupTime)
    /\ made' = made + 1
    /\ run' = NoRun
    /\ UNCHANGED <<clock, reported>>

-----------------------------------------------------------------------------
(* The client. *)

\* DeleteVersion, as far as versions go.
DeleteVersion(id) ==
    /\ ~ run.on
    /\ id \in Stored
    /\ versions' = [v \in Stored \ {id} |-> versions[v]]
    /\ born' = [v \in Stored \ {id} |-> born[v]]
    /\ UNCHANGED <<clock, run, reported, made, orderly>>

\* ReadMetadata or Reload, and StoreMetadata's LatestVersion: of several with the greatest
\* timestamp, any.
Report(id) ==
    /\ id \in Stored
    /\ \A v \in Stored : versions[v].ts <= versions[id].ts
    /\ reported' = id
    /\ UNCHANGED <<versions, clock, run, made, born, orderly>>

\* External: time goes by, or the clock is set.
SetClock(t) ==
    /\ t # clock
    /\ clock' = t
    /\ UNCHANGED <<versions, run, reported, made, born, orderly>>

Next == \/ \E id \in IDs \cup {Zero}, ts \in Times \cup {Zero}, single \in BOOLEAN :
              StartBackup(id, ts, single)
        \/ FailBackup
        \/ \E id \in IDs : Commit(id) \/ DeleteVersion(id) \/ Report(id)
        \/ \E t \in Times : SetClock(t)

Spec == Init /\ [][Next]_vars

-----------------------------------------------------------------------------
(* Properties. *)

\* The version committed last of those in the store.
Previous == IF Stored = {} THEN Zero
            ELSE CHOOSE v \in Stored : \A w \in Stored : born[w] <= born[v]

\* A new version never takes the place of another, and one with a custom timestamp is
\* newer than all others when it is committed, however the clock goes meanwhile.  As long
\* as each version was newer than those before it, it names the one before it as its
\* preceding version, and LatestVersion reports the one committed last.
HistoryStep ==
    /\ \A id \in IDs : Commit(id) =>
          /\ id \notin Stored
          /\ run.ts # Zero => \A v \in Stored : versions[v].ts < versions'[id].ts
          /\ orderly => versions'[id].prev = Previous
    /\ \A id \in IDs : Report(id) /\ orderly => id = Previous

\* Every step is such a step.
VersionHistory == [][HistoryStep]_vars
=============================================================================
