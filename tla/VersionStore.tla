---------------------------- MODULE VersionStore ----------------------------
(***************************************************************************)
(* What a t-sync store promises its user: a map from version IDs to        *)
(* snapshots that can be restored in full.  A version appears in one step, *)
(* disappears in one step, and nothing else ever changes it.               *)
(* TsyncStore is shown to implement this specification.                    *)
(***************************************************************************)
CONSTANTS VersionIDs,    \* identifiers a version can have
          Contents,      \* snapshots a version can hold
          NoBackup       \* the value of an identifier that names no version;
                         \* it is none of the Contents

VARIABLE store           \* store[v]: the snapshot restorable as version v

vars == <<store>>

Init == store = [v \in VersionIDs |-> NoBackup]

\* RunBackup: a new version joins the others.
Backup(v, c) ==
    /\ store[v] = NoBackup
    /\ store' = [store EXCEPT ![v] = c]

\* RunBackup with SingleVersionMode: the new version replaces all the others.
Replace(v, c) ==
    /\ store[v] = NoBackup
    /\ store' = [w \in VersionIDs |-> IF w = v THEN c ELSE NoBackup]

\* DeleteVersion.
Delete(v) ==
    /\ store[v] # NoBackup
    /\ store' = [store EXCEPT ![v] = NoBackup]

Next == \E v \in VersionIDs :
            \/ \E c \in Contents : Backup(v, c) \/ Replace(v, c)
            \/ Delete(v)

Spec == Init /\ [][Next]_vars
=============================================================================
