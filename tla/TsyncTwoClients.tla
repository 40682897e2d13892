--------------------------- MODULE TsyncTwoClients --------------------------
(***************************************************************************)
(* Two clients operating on one store at the same time.  Nothing in the    *)
(* code prevents it: there is no lock, and ".tsync" is written without     *)
(* looking whether it has changed since it was loaded.                     *)
(***************************************************************************)
CONSTANTS VersionIDs, Keys, Hashes, Sub, Leaf, NoTree, MaxRuns

VARIABLES meta, parts, runs, faulty, damaged,   \* the store, as in TsyncStore
          opA, opB                              \* the operation of each client

A == INSTANCE TsyncStore WITH op <- opA
B == INSTANCE TsyncStore WITH op <- opB

ASSUME StoreAssumption == A!TreeAssumption /\ A!MaxRunsAssumption

vars == <<meta, parts, runs, faulty, damaged, opA, opB>>

Init == A!Init /\ B!Init

Next == \/ A!Next /\ UNCHANGED opB
        \/ B!Next /\ UNCHANGED opA

Spec == Init /\ [][Next]_vars

-----------------------------------------------------------------------------

\* Whatever two clients do at once, ".tsync" is always one operation's consistent
\* result: every file of every version in it has a record.
ContentsRecorded == A!ContentsRecorded

\* ... and, unless damaged, every tree node of every version.
TreesComplete == A!TreesComplete

\* "A conforming implementation must be able to reconstruct any versioned ZIP archive":
\* every record of a committed version has its part, under the record's password.
AnyVersionReconstructible == A!RecordsBacked
=============================================================================
