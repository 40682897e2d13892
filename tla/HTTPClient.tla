----------------------------- MODULE HTTPClient -----------------------------
(***************************************************************************)
(* The generic HTTP client (storage_clients/http/http.go) for servers that *)
(* speak S3's REST interface: as S3Client, but the client reads the        *)
(* responses itself.                                                       *)
(***************************************************************************)
EXTENDS Integers, SequencesExt, StorageErrors


ClientReplies == {"none", "ok", "hollow", "garbled", "broken", "noupload", "error", "404", "busy", "refused"}

\* doRequest's error, io.ReadAll's, or the status's (statusError).
ClassifyError(reply, uploadOp) ==
    CASE reply = "404" /\ uploadOp                                  -> "uploadgone"
      [] reply = "404" /\ ~ uploadOp                                -> StatusError(reply)
      [] reply \in {"busy", "refused"}                              -> StatusError(reply)
      [] reply \in {"none", "broken"}                               -> "other"
      [] reply \in {"ok", "hollow", "garbled", "noupload", "error"} -> "none"

\* A response that cannot be parsed or has no upload ID is a permanent error.
Initiate(reply) == IF reply \in {"garbled", "hollow"} THEN "permanent" ELSE ClassifyError(reply, FALSE)

\* One without an ETag is retried.
UploadPart(reply) == IF reply = "hollow" THEN "other" ELSE ClassifyError(reply, TRUE)

\* HEAD decides only when NoSuchUpload comes in an error document with status 200; a 404 is
\* an error at once.  Another error document is retried.
Complete(reply, headFinds) ==
    CASE reply = "noupload"              -> IF headFinds THEN "none" ELSE "uploadgone"
      [] reply = "error"                 -> "other"
      [] reply \notin {"noupload", "error"} -> ClassifyError(reply, TRUE)

PutObject(reply) == ClassifyError(reply, FALSE)

\* An upload that is already gone counts as aborted.
Abort(reply) == IF ClassifyError(reply, TRUE) = "uploadgone" THEN "none"
                                                             ELSE ClassifyError(reply, TRUE)

\* A listing that cannot be parsed is a permanent error.
ListPage(reply) == IF reply \in {"garbled", "error"} THEN "permanent" ELSE ClassifyError(reply, FALSE)

FirstKey(page) == IF page.marker = 0 /\ page.keys # <<>> THEN page.keys[1] ELSE page.marker   \* mutant: the page's first key

\* The marker of a page in V1 form: the server's, or the last key.
NextMarker(page) == IF page.marker = 0 /\ page.keys # <<>> THEN Last(page.keys) ELSE page.marker

\* The listing goes on with the token, or else with the marker, which must be a new one.
AfterPage(page, cursor) ==
    CASE ~ page.truncated -> [next |-> "done", cursor |-> cursor]
      [] page.truncated /\ page.token # 0 ->
            IF page.token = cursor.token
            THEN [next |-> "error", cursor |-> cursor]
            ELSE [next |-> "page", cursor |-> [token |-> page.token, marker |-> 0]]
      [] page.truncated /\ page.token = 0 ->
            IF NextMarker(page) \in {0, cursor.marker}
            THEN [next |-> "error", cursor |-> cursor]
            ELSE [next |-> "page", cursor |-> [token |-> 0, marker |-> NextMarker(page)]]

ValidRange(startByte, endByte) == startByte >= 0 /\ (endByte = -1 \/ endByte >= startByte)

\* <<>> is no Range header, for a whole object; <<a>> is from a to the end.
RangeHeader(startByte, endByte) ==
    CASE endByte # -1                  -> <<startByte, endByte>>
      [] endByte = -1 /\ startByte > 0 -> <<startByte>>
      [] endByte = -1 /\ startByte = 0 -> <<>>

\* What is left of a whole body after the skipping and limiting.
Cut(body, startByte, endByte) ==
    SubSeq(body, startByte + 1, IF endByte = -1 \/ endByte >= Len(body) THEN Len(body) ELSE endByte + 1)

\* GetObjectRange: a server that ignores the Range header answers 200 with everything; a
\* body too short for the skipping is an error.
GetObjectRange(resp, startByte, endByte) ==
    CASE resp.status = 206 /\ RangeHeader(startByte, endByte) # <<>> -> [ok |-> TRUE, body |-> resp.body]
      [] resp.status = 200 /\ startByte <= Len(resp.body) ->
            [ok |-> TRUE, body |-> Cut(resp.body, startByte, endByte)]
      [] OTHER -> [ok |-> FALSE, body |-> <<>>]
=============================================================================
