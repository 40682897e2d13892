---------------------------- MODULE RangedReads ----------------------------
(***************************************************************************)
(* Reading a byte range of an object through Storage (tsync/storage.go):   *)
(* LocalStorage.ReadRange, ObjectStorage.ReadRange over each client's      *)
(* GetObjectRange, and StorageReaderAt.ReadAt on top of both.  An object   *)
(* is a sequence of cells; offsets count from 0.                           *)
(***************************************************************************)
EXTENDS Integers, Sequences, StorageErrors

S3 == INSTANCE S3Client
OCI == INSTANCE OCIClient
HTTP == INSTANCE HTTPClient

\* "plain" is the HTTP client with a server that ignores Range headers.
Storages == {"local", "s3", "oci", "http", "plain"}

Least(a, b) == IF a < b THEN a ELSE b

\* External: a server answers a GET with header h.
Serve(storage, h, object) ==
    CASE h = <<>> \/ storage = "plain" -> [status |-> 200, body |-> object]
      [] h # <<>> /\ storage # "plain" ->
            IF h[1] >= Len(object)
            THEN [status |-> 416, body |-> <<>>]
            ELSE [status |-> 206,
                  body |-> SubSeq(object, h[1] + 1,
                                  IF Len(h) = 1 THEN Len(object) ELSE Least(h[2] + 1, Len(object)))]

Refused == [ok |-> FALSE, body |-> <<>>]

GetObjectRange(storage, startByte, endByte, object) ==
    CASE storage = "s3" ->
            IF S3!ValidRange(startByte, endByte)
            THEN S3!GetObjectRange(Serve(storage, S3!RangeHeader(startByte, endByte), object), startByte, endByte)
            ELSE Refused
      [] storage = "oci" ->
            IF OCI!ValidRange(startByte, endByte)
            THEN OCI!GetObjectRange(Serve(storage, OCI!RangeHeader(startByte, endByte), object), startByte, endByte)
            ELSE Refused
      [] storage \in {"http", "plain"} ->
            IF HTTP!ValidRange(startByte, endByte)
            THEN HTTP!GetObjectRange(Serve(storage, HTTP!RangeHeader(startByte, endByte), object), startByte, endByte)
            ELSE Refused

\* ObjectStorage.ReadRange: the last byte of a range, -1 for "to the end".
EndByte(offset, length) == IF length > 0 THEN offset + length - 1 ELSE -1

\* ReadRange; a negative length is "to the end".
ReadRange(storage, offset, length, object) ==
    CASE storage = "local" ->
            [ok |-> TRUE, body |-> SubSeq(object, offset + 1,
                                          IF length < 0 THEN Len(object) ELSE Least(offset + length, Len(object)))]
      [] storage # "local" /\ length = 0 -> [ok |-> TRUE, body |-> <<>>]
      [] storage # "local" /\ length # 0 -> GetObjectRange(storage, offset, EndByte(offset, length), object)

\* How reading a body may go: to its end, or up to a connection that breaks off, which the
\* transport reports as an unexpected end ("short") or otherwise ("io").
Streams(body) ==
    {[data |-> body, end |-> "eof"]} \cup
    {[data |-> SubSeq(body, 1, n), end |-> e] : n \in 0..(Len(body) - 1), e \in {"short", "io"}}

ReadFailed == [data |-> <<>>, err |-> "io"]

\* StorageReaderAt.ReadAt of n cells: what it may return.  An unexpected end counts as the
\* end of the object.
ReadAt(storage, off, n, object) ==
    IF n = 0 THEN {[data |-> <<>>, err |-> "none"]}
    ELSE IF ~ ReadRange(storage, off, n, object).ok THEN {ReadFailed}
    ELSE {[data |-> s.data,
           err  |-> CASE Len(s.data) = n                           -> "none"
                      [] Len(s.data) < n /\ s.end \in {"eof", "short"} -> "eof"
                      [] Len(s.data) < n /\ s.end = "io"           -> "io"]
          : s \in Streams(ReadRange(storage, off, n, object).body)}
=============================================================================
