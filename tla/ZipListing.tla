----------------------------- MODULE ZipListing -----------------------------
(***************************************************************************)
(* Listing the entries of a ZIP source (ZipFileSource.ListEntries with     *)
(* GetZipPartRanges and readZipDirectory, tsync/source.go and              *)
(* tsync/zip_utils.go) through ranged reads, any of which may break off.   *)
(* An archive is a sequence of cells: a cell is a record of the format, a  *)
(* field of the zip64 record, or a piece of an entry's data.               *)
(***************************************************************************)
EXTENDS RangedReads, FiniteSets

CONSTANTS TailLen,       \* cells read to find the end of the directory (66 KiB)
          CountMod       \* numbers a record count can have (2^16)

VARIABLES storage,       \* where the archive is
          layout,        \* history: how the archive was put together
          archive,       \* its cells
          step,          \* what ListEntries does next
          tail,          \* the last cells, as read
          dir,           \* the zipDirectory found so far
          ranges         \* the entries listed

vars == <<storage, layout, archive, step, tail, dir, ranges>>

-----------------------------------------------------------------------------
(* Archives. *)

Cell(t, x) == [t |-> t, x |-> x]
Zero == Cell("zero", <<0, 0, 0, 0>>)

\* Sizes of the entries; directory in reverse order; cells before the first entry;
\* zip64 records; cells in the comment; what is wrong with it.
Layouts == [sizes : {<<>>, <<1>>, <<0, 1>>}, reverse : BOOLEAN, pad : 0..1, zip64 : BOOLEAN,
            comment : 0..2, flaw : {"none", "shared", "outside", "count", "size", "locator", "torn"}]

Entry(e, size) == <<Cell("lfh", <<e>>)>> \o [i \in 1..size |-> Cell("data", <<e, i>>)]

\* Where entry e begins.
Offset(l, e) == l.pad + (IF e = 2 THEN 1 + l.sizes[1] ELSE 0)

DataArea(l) == [i \in 1..l.pad |-> Zero]
               \o (IF Len(l.sizes) >= 1 THEN Entry(1, l.sizes[1]) ELSE <<>>)
               \o (IF Len(l.sizes) = 2 THEN Entry(2, l.sizes[2]) ELSE <<>>)

\* The offset the directory has for entry e.
Declared(l, e) == CASE l.flaw = "shared" /\ e = 2  -> Offset(l, 1)
                    [] l.flaw = "outside" /\ e = 1 -> Len(DataArea(l))
                    [] OTHER                       -> Offset(l, e)

Directory(l) ==
    [i \in 1..Len(l.sizes) |->
        LET e == IF l.reverse THEN Len(l.sizes) + 1 - i ELSE i IN Cell("cd", <<e, Declared(l, e)>>)]

\* Records, size and offset as the end record declares them.
Numbers(l) == <<Len(l.sizes) + (IF l.flaw = "count" THEN 1 ELSE 0),
                Len(l.sizes) + (IF l.flaw = "size" THEN 9 ELSE 0),
                Len(DataArea(l))>>

EndRecords(l) ==
    LET n   == Numbers(l)
        rec == <<Cell("sig64", <<0>>), Cell("num", <<n[1]>>), Cell("num", <<n[2]>>), Cell("num", <<n[3]>>)>>
        loc == <<Cell("loc", <<Len(DataArea(l)) + Len(l.sizes) + (IF l.flaw = "locator" THEN 1 ELSE 0)>>)>>
    IN  IF l.zip64
        THEN rec \o loc \o <<Cell("eocd", <<l.comment, 0, 0, 0>>)>>
        ELSE <<Cell("eocd", <<l.comment, n[1] % CountMod, n[2], n[3]>>)>>

\* A comment, of two cells, may look like an end record.
Comment(l) == [i \in 1..l.comment |-> IF i = 1 /\ l.comment = 2 THEN Cell("eocd", <<5, 0, 0, 0>>) ELSE Zero]

Archive(l) == LET all == DataArea(l) \o Directory(l) \o EndRecords(l) \o Comment(l)
              IN  IF l.flaw = "torn" THEN SubSeq(all, 1, Len(all) - l.comment - 1) ELSE all

NoDir == [eocd |-> 0, records |-> 0, size |-> 0, offset |-> 0, end |-> 0, rec |-> 0]

Init == /\ storage \in Storages
        /\ layout \in Layouts
        /\ archive = Archive(layout)
        /\ step = "tail"
        /\ tail = <<>>
        /\ dir = NoDir
        /\ ranges = {}

-----------------------------------------------------------------------------
(* readZipDirectory.  The lengths of its records, in cells: *)

eocdLen == 1
zip64LocatorLen == 1
zip64EOCDLen == 4

GoOn(next) == step' = next /\ UNCHANGED <<storage, layout, archive>>
Fail == GoOn("failed") /\ UNCHANGED <<tail, dir, ranges>>

size == Len(archive)
tailOffset == size - Least(TailLen, size)

\* Read all that was asked for.
Complete(out, n) == out.err = "none" \/ (out.err = "eof" /\ Len(out.data) = n)

\* An end record whose comment reaches exactly the end.
IsEnd(t, i) == t[i].t = "eocd" /\ i + t[i].x[1] = Len(t)

\* The tail is read and the last end record in it taken.
ReadTail ==
    /\ step = "tail"
    /\ \/ size < eocdLen /\ Fail
       \/ /\ size >= eocdLen
          /\ \E out \in ReadAt(storage, tailOffset, size - tailOffset, archive) :
                LET ends == {i \in 1..Len(out.data) : IsEnd(out.data, i)}
                IN  IF ~ Complete(out, size - tailOffset) \/ ends = {}
                    THEN Fail
                    ELSE /\ \E i \in ends :
                               /\ \A j \in ends : j <= i
                               /\ dir' = [eocd |-> tailOffset + i - 1, records |-> out.data[i].x[2],
                                          size |-> out.data[i].x[3], offset |-> out.data[i].x[4],
                                          end  |-> tailOffset + i - 1, rec |-> 0]
                         /\ tail' = out.data
                         /\ GoOn("locator")
                         /\ UNCHANGED ranges

\* readAtCached: from the tail or by a read, which may come short: the rest is zero.
ReadAtCached(off, n) ==
    IF off >= tailOffset
    THEN {[data |-> SubSeq(tail, off - tailOffset + 1, off - tailOffset + n), ok |-> TRUE]}
    ELSE {[data |-> [i \in 1..n |-> IF i <= Len(out.data) THEN out.data[i] ELSE Zero],
           ok   |-> out.err # "io"] : out \in ReadAt(storage, off, n, archive)}

\* A locator of a record that does not end before it.
PointsOutside(cell) ==
    cell.t = "loc" /\ cell.x[1] + zip64EOCDLen > dir.eocd - zip64LocatorLen

\* A zip64 locator right before the end record?
ReadLocator ==
    /\ step = "locator"
    /\ IF dir.eocd < zip64LocatorLen
       THEN GoOn("check") /\ UNCHANGED <<tail, dir, ranges>>
       ELSE \E out \in ReadAtCached(dir.eocd - zip64LocatorLen, zip64LocatorLen) :
               IF ~ out.ok \/ PointsOutside(out.data[1])
               THEN Fail
               ELSE IF out.data[1].t # "loc"
                    THEN GoOn("check") /\ UNCHANGED <<tail, dir, ranges>>
                    ELSE /\ dir' = [dir EXCEPT !.rec = out.data[1].x[1]]
                         /\ GoOn("record")
                         /\ UNCHANGED <<tail, ranges>>

ReadRecord ==
    /\ step = "record"
    /\ \E out \in ReadAtCached(dir.rec, zip64EOCDLen) :
          IF ~ out.ok \/ out.data[1].t # "sig64"
          THEN Fail
          ELSE /\ dir' = [dir EXCEPT !.records = out.data[2].x[1], !.size = out.data[3].x[1],
                                     !.offset = out.data[4].x[1], !.end = dir.rec]
               /\ GoOn("check")
               /\ UNCHANGED <<tail, ranges>>

CheckDirectory ==
    /\ step = "check"
    /\ IF dir.offset + dir.size > dir.end
       THEN Fail
       ELSE GoOn("head") /\ UNCHANGED <<tail, dir, ranges>>

-----------------------------------------------------------------------------
(* GetZipPartRanges. *)

\* The directory before the tail is read, all of it.
ReadHead ==
    /\ step = "head"
    /\ IF dir.offset >= tailOffset
       THEN GoOn("parse") /\ UNCHANGED <<tail, dir, ranges>>
       ELSE \E out \in ReadAt(storage, dir.offset, tailOffset - dir.offset, archive) :
               IF Complete(out, tailOffset - dir.offset)
               THEN GoOn("parse") /\ UNCHANGED <<tail, dir, ranges>>
               ELSE Fail

\* External: zip.NewReader on the cached cells finds the directory by itself.
Files == {archive[i] : i \in {j \in 1..size : archive[j].t = "cd"}}

\* The end of the range that begins at off.
RangeEnd(off) ==
    LET later == {f.x[2] : f \in Files} \cap (off + 1)..(dir.offset)
    IN  IF later = {} THEN dir.offset ELSE CHOOSE o \in later : \A p \in later : o <= p

NotLooked == FALSE                          \* mutant: offsets are taken as they come

\* Two entries at one place, or one outside the data.
BadOffsets == \/ \E f, g \in Files : f # g /\ f.x[2] = g.x[2]
              \/ \E f \in Files : f.x[2] >= dir.offset

ParseDirectory ==
    /\ step = "parse"
    /\ IF Cardinality(Files) % CountMod # dir.records % CountMod \/ BadOffsets
       THEN Fail
       ELSE /\ ranges' = {[name |-> f.x[1], start |-> f.x[2], end |-> RangeEnd(f.x[2])] : f \in Files}
            /\ GoOn("listed")
            /\ UNCHANGED <<tail, dir>>

Listed == step \in {"listed", "failed"} /\ UNCHANGED vars

Next == ReadTail \/ ReadLocator \/ ReadRecord \/ CheckDirectory \/ ReadHead \/ ParseDirectory \/ Listed

Spec == Init /\ [][Next]_vars

-----------------------------------------------------------------------------
(* Properties. *)

\* Where entry e really is: from its header to the next header or the directory.
Place(e) ==
    LET start == CHOOSE i \in 1..size : archive[i] = Cell("lfh", <<e>>)
        after == {i \in (start + 1)..size : archive[i].t \in {"lfh", "cd"}}
    IN  [name |-> e, start |-> start - 1, end |-> (CHOOSE i \in after : \A j \in after : i <= j) - 1]

\* ListEntries names every entry of the archive at the place where it is, or fails: with
\* reads that break off and are taken for the end of the file, with counts that wrap at 16
\* bits, with a comment that looks like an end record, with entries in any order, and with
\* directories that disagree with the data.
ZipListingExact == step = "listed" => ranges = {Place(e) : e \in 1..Len(layout.sizes)}
=============================================================================
