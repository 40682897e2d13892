----------------------------- MODULE EntryPart -----------------------------
(***************************************************************************)
(* One file of a source on its way into the store (processFile and         *)
(* uploadPart, tsync/backup.go, with the streams of tsync/source.go): it   *)
(* is keyed, read, written as a part and committed, while its owner may    *)
(* rewrite or replace it.  Content is a sequence of cells 1 and 2; two     *)
(* contents with one key (CRC-32 and size) are taken to be the same.       *)
(***************************************************************************)
EXTENDS RangedReads

CONSTANT MaxLen          \* bound: cells in a file

VARIABLES kind,          \* what the source says about its entry
          place,         \* the storage it is in
          object,        \* the file, or the archive the entry is in, as it is now
          listed,        \* the content when the entry was listed
          existing,      \* keys the store has records of
          key,           \* the key chosen
          handle,        \* what the open stream would give from the start
          got,           \* what was read of it
          pc,            \* what processFile does next
          part,          \* <<the part committed>>, if any
          changed        \* history: the source changed since it was listed

vars == <<kind, place, object, listed, existing, key, handle, got, pc, part, changed>>

\* "folder": size only; "known": CRC, size and content; "zip": an entry of an archive, plain
\* or, with "raw", encrypted; "compressed": CRC, size and the payload as it is compressed.
Kinds == {"folder", "known", "zip", "raw", "compressed"}

InArchive == kind \in {"zip", "raw"}

Contents == UNION {[1..n -> {1, 2}] : n \in 0..MaxLen}

\* Where an entry's local header begins in its archive.
StartOffset == 1

\* An archive: something, the entry's header and payload, and the directory.
Packed(content) == <<9, 0>> \o content \o <<9>>

Init == /\ kind \in Kinds
        /\ place \in Storages
        /\ listed \in Contents
        /\ object = IF InArchive THEN Packed(listed) ELSE listed
        /\ existing \in {{}, {listed}}
        /\ key = <<>>
        /\ handle = <<>>
        /\ got = <<>>
        /\ pc = "start"
        /\ part = <<>>
        /\ changed = FALSE

Becomes(step) == pc' = step /\ UNCHANGED <<kind, place, listed, existing>>
Untouched == UNCHANGED <<object, part, changed>>

-----------------------------------------------------------------------------
(* Streams. *)

\* The range of an entry, or the whole object.
Bytes(obj) == IF InArchive
              THEN ReadRange(place, StartOffset, 1 + Len(listed), obj)
              ELSE ReadRange(place, 0, -1, obj)

\* openZipEntryStream goes past the header and stops at the payload's length.
Payload(body) == SubSeq(body, 2, Least(Len(body), 1 + Len(listed)))

\* What the stream of the entry gives, from obj.
View(obj) == IF kind = "zip" THEN Payload(Bytes(obj).body) ELSE Bytes(obj).body

\* The stream can be opened: the object is there, a range is within it, and an entry's
\* local header is where the directory says.
Opens(obj) == Bytes(obj).ok /\ (kind = "zip" => Bytes(obj).body # <<>> /\ Bytes(obj).body[1] = 0)

Open(next) ==
    /\ Opens(object)
    /\ handle' = View(object)
    /\ got' = <<>>
    /\ Becomes(next)
    /\ UNCHANGED key
    /\ Untouched

\* io.Copy gets some more.
Read ==
    /\ pc \in {"keying", "copying"}
    /\ Len(got) < Len(handle)
    /\ got' = Append(got, handle[Len(got) + 1])
    /\ Becomes(pc)
    /\ UNCHANGED <<key, handle>>
    /\ Untouched

EOF == Len(got) >= Len(handle)

\* Opening, reading or writing fails, or the run is cancelled; the writer is aborted.
Fails ==
    /\ pc \in {"start", "keying", "upload", "copying"}
    /\ Becomes("failed")
    /\ UNCHANGED <<key, handle, got>>
    /\ Untouched

-----------------------------------------------------------------------------
(* processFile. *)

\* The key is what the source says, unless that is only a size ...
KeyKnown ==
    /\ pc = "start"
    /\ kind # "folder" \/ listed = <<>>
    /\ key' = listed
    /\ Becomes("upload")
    /\ UNCHANGED <<handle, got>>
    /\ Untouched

\* ... then the file is read once for it.
StartKeying == pc = "start" /\ kind = "folder" /\ listed # <<>> /\ Open("keying")

KeyRead ==
    /\ pc = "keying"
    /\ EOF
    /\ key' = got
    /\ Becomes("upload")
    /\ UNCHANGED <<handle, got>>
    /\ Untouched

\* The store has it.
Reuse ==
    /\ pc = "upload"
    /\ key \in existing
    /\ Becomes("done")
    /\ UNCHANGED <<key, handle, got>>
    /\ Untouched

StartUpload == pc = "upload" /\ key \notin existing /\ Open("copying")

-----------------------------------------------------------------------------
(* uploadPart. *)

\* What the copying checks: zipEntryStream size and CRC, copyRawPart the length, and that
\* only against the payload's.
CopyChecked == CASE kind = "zip" -> got = listed
                 [] kind = "raw" -> Len(got) >= Len(listed)
                 [] OTHER        -> TRUE

\* CRC and size of the part: of what was written, or, of content that is not seen in the
\* plain, what the source said.
Produced == IF kind \in {"raw", "compressed"} THEN listed ELSE got

KeyNotCompared == TRUE                      \* mutant: the part is not compared with its key

MatchesKey == Produced = key

Copied ==
    /\ pc = "copying"
    /\ EOF
    /\ Becomes(IF CopyChecked /\ MatchesKey THEN "commit" ELSE "failed")
    /\ UNCHANGED <<key, handle, got>>
    /\ Untouched

Commit ==
    /\ pc = "commit"
    /\ part' = <<got>>
    /\ Becomes("done")
    /\ UNCHANGED <<object, key, handle, got, changed>>

\* Close fails, and yet the part may be there.
CommitFails ==
    /\ pc = "commit"
    /\ part' \in {<<>>, <<got>>}
    /\ Becomes("failed")
    /\ UNCHANGED <<object, key, handle, got, changed>>

-----------------------------------------------------------------------------
(* External: the owner of the source. *)

\* New content: of another file, or of this one cut off at its end.
NewObjects == {IF InArchive THEN Packed(c) ELSE c : c \in Contents} \cup
              {SubSeq(object, 1, n) : n \in 0..(Len(object) - 1)}

Running == pc \notin {"done", "failed"}

\* A new object takes the place of the old one, once; open streams go on with the old one.
Replace ==
    /\ Running /\ ~ changed
    /\ object' \in NewObjects
    /\ changed' = TRUE
    /\ UNCHANGED <<kind, place, listed, existing, key, handle, got, pc, part>>

\* A local file is written to, which an open stream sees.
Rewrite ==
    /\ Running /\ ~ changed
    /\ place = "local"
    /\ object' \in NewObjects
    /\ handle' = IF pc \in {"keying", "copying"} THEN View(object') ELSE handle
    /\ changed' = TRUE
    /\ UNCHANGED <<kind, place, listed, existing, key, got, pc, part>>

Ended == ~ Running /\ UNCHANGED vars

Next == \/ KeyKnown \/ StartKeying \/ KeyRead \/ Reuse \/ StartUpload
        \/ Read \/ Copied \/ Commit \/ CommitFails \/ Fails
        \/ Replace \/ Rewrite \/ Ended

Spec == Init /\ [][Next]_vars

-----------------------------------------------------------------------------
(* Properties. *)

\* Content, as a part of this kind holds it.
PartOf(content) == IF kind = "raw" THEN <<0>> \o content ELSE content

\* "committed only if the content was fully produced and matches key": a part holds the
\* content its key names, whatever happens to the source between listing, keying and
\* copying, and whatever a server makes of a range.  Not so for parts that are copied as
\* they are, encrypted or compressed, if the source changed after it was listed.
KeyedContent ==
    part # <<>> => \/ part[1] = PartOf(key)
                   \/ kind \in {"raw", "compressed"} /\ changed
=============================================================================
