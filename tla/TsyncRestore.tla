---------------------------- MODULE TsyncRestore ----------------------------
(***************************************************************************)
(* A restore (RunRestore, tsync/restore.go) beside the operations of       *)
(* TsyncStore.  The restore loads ".tsync" once, resolves its version, and *)
(* then reads parts with the records it loaded, while a backup, a deletion *)
(* or a GC may rewrite ".tsync", upload and delete parts.                  *)
(***************************************************************************)
EXTENDS TsyncStore

CONSTANT NoVersion       \* the version of no restore

ASSUME NoVersionAssumption == NoVersion \notin VersionIDs

VARIABLE rd              \* the restore in progress

rvars == <<vars, rd>>

Restore == [vid   : VersionIDs \cup {NoVersion},
            files : [Keys -> Nat],        \* records of the loaded metadata
            todo  : SUBSET Keys,          \* parts still to be read
            kept  : BOOLEAN]              \* history: vid has not been removed since

NoRestore == [vid |-> NoVersion, files |-> [k \in Keys |-> Absent], todo |-> {},
              kept |-> FALSE]

RestoreInit == Init /\ rd = NoRestore

\* ResolveVersionTree: the file keys below the nodes of version v that can be read.
Resolve(m, v) == KeysIn(Reach({m.versions[v]}, m.trees) \cap m.trees)

\* RunRestore up to its workers: load, resolve the version tree.  A node that is missing
\* or does not match its hash is an error, unless SkipValidationErrors passes it over.
StartRestore(v, skip) ==
    /\ rd.vid = NoVersion
    /\ meta.versions[v] # NoTree
    /\ skip \/ Nodes(meta.versions[v]) \subseteq meta.trees
    /\ rd' = [vid |-> v, files |-> meta.files, todo |-> Resolve(meta, v), kept |-> TRUE]
    /\ UNCHANGED vars

\* The part is there and decrypts under the record's password.
Readable(k) == rd.files[k] # Absent /\ parts[k] = rd.files[k]

\* extractOne succeeds.
ExtractOne(k) ==
    /\ k \in rd.todo
    /\ Readable(k)
    /\ rd' = [rd EXCEPT !.todo = @ \ {k}]
    /\ UNCHANGED vars

\* SkipDecryptionErrors passes over a part that does not decrypt under the record's
\* password; a missing record or part is an error nevertheless.
ExtractSkipped(k) ==
    /\ k \in rd.todo
    /\ ~ Readable(k)
    /\ rd.files[k] # Absent /\ parts[k] # Absent
    /\ rd' = [rd EXCEPT !.todo = @ \ {k}]
    /\ UNCHANGED vars

\* extractOne fails (no record, no part, a wrong password): the restore returns the error.
ExtractFails(k) ==
    /\ k \in rd.todo
    /\ ~ Readable(k)
    /\ rd' = NoRestore
    /\ UNCHANGED vars

\* The restore returns: all selected files are out, or it was cancelled, or failed on
\* its own side (disk space, an output path, a rename).
EndRestore ==
    /\ rd.vid # NoVersion
    /\ rd' = NoRestore
    /\ UNCHANGED vars

\* Another client's step.  It does not touch the restore; kept remembers whether the
\* version being restored is still what it was.
StoreStep ==
    /\ Next
    /\ rd' = [rd EXCEPT !.kept = /\ @
                                 /\ rd.vid \in Live(meta')
                                 /\ meta'.versions[rd.vid] = meta.versions[rd.vid]]

RestoreNext ==
    \/ \E v \in VersionIDs, skip \in BOOLEAN : StartRestore(v, skip)
    \/ \E k \in Keys : ExtractOne(k) \/ ExtractSkipped(k) \/ ExtractFails(k)
    \/ EndRestore
    \/ StoreStep

RestoreSpec == RestoreInit /\ [][RestoreNext]_rvars

-----------------------------------------------------------------------------

\* A restore of a version that stays in the store never fails for want of a part: as
\* long as nobody has removed the version, each part it has yet to read is in storage
\* under the password of the record the restore loaded, however old that copy is.
KeptVersionReadable == rd.kept => \A k \in rd.todo : Readable(k)

\* Why: the version's records never change while it is in the store, so the old copy of
\* a record still is the committed one.  Inductive together with StoreInv.
CopyCurrent ==
    rd.kept => /\ rd.vid \in Live(meta)
               /\ rd.todo \subseteq Content(meta.versions[rd.vid])
               /\ \A k \in rd.todo : rd.files[k] = meta.files[k]
=============================================================================
