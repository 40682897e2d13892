----------------------------- MODULE RunRestore -----------------------------
(***************************************************************************)
(* RunRestore (tsync/restore.go): the metadata is loaded, the version's    *)
(* tree resolved, files are selected, and restoreToDir (RestoreDir) or     *)
(* restoreToZip (RestoreZip) does the rest.                                *)
(***************************************************************************)
EXTENDS RestoreDir

VARIABLES mode,          \* "none" until decided, then "dir" or "zip"
          left, file, at, written, closed   \* of RestoreZip

Zip == INSTANCE RestoreZip

own == <<left, file, at, written, closed>>
runVars == <<vars, mode, own>>

\* ExtractDir takes precedence; at most one output is used.
RunInit == Init /\ Zip!Start /\ mode = "none"

Idle == UNCHANGED <<vars, own>>

\* Options, metadata and tree are fine.
Begin(m) ==
    /\ mode = "none" /\ ret.status = "running" /\ ~ crashed
    /\ mode' = m
    /\ Idle

\* The context is cancelled, no output is given, or metadata or tree cannot be read.
Refuse(err) ==
    /\ mode = "none" /\ ret.status = "running" /\ ~ crashed
    /\ err = "ctx" => parent
    /\ ret' = [status |-> "refused", err |-> err]
    /\ UNCHANGED <<options, files, skipped, pool, parent, firstErr, done, crashed, mode, own>>

Refused == ret.status = "refused" /\ Idle /\ UNCHANGED mode

ToDir == mode = "dir" /\ Next /\ UNCHANGED <<mode, own>>

ToZip ==
    /\ mode = "zip"
    /\ \/ Zip!Next /\ UNCHANGED <<noOverwrite, before, freshDir, files, pool, firstErr, crashed>>
       \/ (CancelParent \/ Ended) /\ UNCHANGED own
    /\ UNCHANGED mode

RunNext == \/ \E m \in {"dir", "zip"} : Begin(m)
           \/ \E err \in {"own", "ctx"} : Refuse(err)
           \/ mode = "none" /\ CancelParent /\ UNCHANGED <<mode, own>>
           \/ Refused
           \/ ToDir
           \/ ToZip

RunSpec == RunInit /\ [][RunNext]_runVars

-----------------------------------------------------------------------------
(* Properties. *)

\* A restore into a directory that returns nil is complete and durable: see RestoreDir.
ExtractDurable == mode = "dir" => SuccessDurable

\* An archive that is closed is complete, and success means a closed one: see RestoreZip.
ArchiveComplete == mode = "zip" => Zip!ArchiveComplete
=============================================================================
