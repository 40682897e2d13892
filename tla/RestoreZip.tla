----------------------------- MODULE RestoreZip -----------------------------
(***************************************************************************)
(* restoreToZip (tsync/restore.go): parts are copied one after the other   *)
(* into the caller's writer and the archive is then closed, which writes   *)
(* its central directory; without one it is no archive.                    *)
(***************************************************************************)
EXTENDS Naturals, FiniteSets

CONSTANTS Paths,         \* the files to restore
          NoPath         \* no file

VARIABLES skipErrors,    \* opts.SkipDecryptionErrors
          parent,        \* the caller's context is cancelled
          skipped,       \* history: files passed over because of a bad part
          done,          \* doneCount
          ret,           \* what restoreToZip returned
          left,          \* files still to come
          file,          \* the file copyOne is at
          at,            \* what restoreToZip does next
          written,       \* what is in the output of each file: "none", "some" or "all"
          closed         \* the central directory is in the output

own == <<left, file, at, written, closed>>
vars == <<skipErrors, parent, skipped, done, ret, own>>

Start == /\ left = Paths
         /\ file = NoPath
         /\ at = "next"
         /\ written = [p \in Paths |-> "none"]
         /\ closed = FALSE

Running == ret.status = "running"

Returns(status, err) == ret' = [status |-> status, err |-> err]

\* The caller's context, looked at before every file and after the last one.
Cancelled ==
    /\ Running /\ at = "next"
    /\ parent
    /\ Returns("incomplete", "ctx")
    /\ UNCHANGED <<skipErrors, parent, skipped, done, own>>

\* for path, fileKey := range filteredMap
TakeFile(p) ==
    /\ Running /\ at = "next"
    /\ ~ parent
    /\ p \in left
    /\ left' = left \ {p}
    /\ file' = p
    /\ at' = "open"
    /\ UNCHANGED <<skipErrors, parent, skipped, done, ret, written, closed>>

\* Record, password, part, local header and encryption header are fine; nothing is
\* written so far.
Opened ==
    /\ Running /\ at = "open"
    /\ at' = "copy"
    /\ UNCHANGED <<skipErrors, parent, skipped, done, ret, left, file, written, closed>>

\* CopyRawPart to its end; the part has the length its record says.  Its CRC is not
\* looked at.
Copied ==
    /\ Running /\ at = "copy"
    /\ written' = [written EXCEPT ![file] = "all"]
    /\ done' = done + 1
    /\ at' = "next"
    /\ UNCHANGED <<skipErrors, parent, skipped, ret, left, file, closed>>

AnySkippable(err) == skipErrors /\ err = "bad"      \* mutant: what was written is forgotten

\* A bad part may be passed over as long as nothing of it was written.
Skippable(err) == at = "open" /\ skipErrors /\ err = "bad"

\* What there is of a file when its copying fails.
Remains == IF at = "copy" THEN "some" ELSE "none"

\* copyOne fails and the file is passed over ...
SkipFile(err) ==
    /\ Running /\ at \in {"open", "copy"}
    /\ Skippable(err)
    /\ written' = [written EXCEPT ![file] = Remains]
    /\ skipped' = skipped \cup {file}
    /\ done' = done + 1
    /\ at' = "next"
    /\ UNCHANGED <<skipErrors, parent, ret, left, file, closed>>

\* ... or the restore ends, without closing the archive: after "own" I/O, a "bad" part, or
\* a context that is cancelled.
CopyFails(err) ==
    /\ Running /\ at \in {"open", "copy"}
    /\ err = "ctx" => parent
    /\ ~ Skippable(err)
    /\ written' = [written EXCEPT ![file] = Remains]
    /\ IF parent THEN Returns("incomplete", "ctx") ELSE Returns("failed", err)
    /\ UNCHANGED <<skipErrors, parent, skipped, done, left, file, at, closed>>

\* All files are there: the empty directories and the central directory are written ...
CloseArchive ==
    /\ Running /\ at = "next"
    /\ left = {} /\ ~ parent
    /\ closed' = TRUE
    /\ Returns("ok", "none")
    /\ UNCHANGED <<skipErrors, parent, skipped, done, left, file, at, written>>

\* ... or that fails, at the latest after the directory is out.
CloseFails ==
    /\ Running /\ at = "next"
    /\ left = {} /\ ~ parent
    /\ closed' \in BOOLEAN
    /\ Returns("failed", "own")
    /\ UNCHANGED <<skipErrors, parent, skipped, done, left, file, at, written>>

Next == \/ Cancelled
        \/ \E p \in Paths : TakeFile(p)
        \/ Opened
        \/ Copied
        \/ \E err \in {"own", "bad", "ctx"} : SkipFile(err) \/ CopyFails(err)
        \/ CloseArchive
        \/ CloseFails

-----------------------------------------------------------------------------
(* Properties. *)

\* An output with a central directory holds every file in full, except those that were
\* passed over, which it does not hold at all; and success means such an output.  A
\* restore that fails or is cancelled half way leaves nothing that could be mistaken for
\* a complete archive.
ArchiveComplete ==
    /\ closed => \A p \in Paths : written[p] = IF p \in skipped THEN "none" ELSE "all"
    /\ ret.status = "ok" => closed /\ done = Cardinality(Paths)
=============================================================================
