----------------------------- MODULE OCIClient ------------------------------
(***************************************************************************)
(* The OCI client (storage_clients/oci/oci.go): what each request makes of *)
(* the provider's reply, and which request follows a page of a listing.    *)
(* RetryPolicy.Do around the requests is in the modules that use them.     *)
(***************************************************************************)
EXTENDS Integers, StorageErrors

\* What the SDK hands to the client.
ClientReplies == {"none", "ok", "hollow", "404", "busy", "refused"}

\* classifyError: service errors are known by their status.
ClassifyError(reply, uploadOp) ==
    CASE reply = "ok"                                  -> "none"
      [] reply = "404" /\ uploadOp                     -> "uploadgone"
      [] reply = "404" /\ ~ uploadOp                   -> StatusError(reply)
      [] reply \in {"busy", "refused"}                 -> StatusError(reply)
      [] reply \in {"none", "hollow"}                  -> "other"

\* A success without an upload ID is an error, and retried.
Initiate(reply) == ClassifyError(reply, FALSE)

\* So is one without an ETag.
UploadPart(reply) == ClassifyError(reply, TRUE)

\* If the upload is unknown HEAD decides: an earlier attempt may have succeeded.
Complete(reply, headFinds) ==
    IF ClassifyError(reply, TRUE) = "uploadgone" /\ headFinds
    THEN "none"
    ELSE ClassifyError(reply, TRUE)

PutObject(reply) == ClassifyError(reply, FALSE)

\* An upload that is already gone counts as aborted.
Abort(reply) == IF ClassifyError(reply, TRUE) = "uploadgone" THEN "none"
                                                             ELSE ClassifyError(reply, TRUE)

ListPage(reply) == ClassifyError(reply, FALSE)

\* The listing goes on where the page says; truncation is not asked for.
AfterPage(page, cursor) ==
    IF page.start = 0
    THEN [next |-> "done", cursor |-> cursor]
    ELSE [next |-> "page", cursor |-> [cursor EXCEPT !.token = page.start]]

\* rangeHeader refuses the others.
ValidRange(startByte, endByte) == startByte >= 0 /\ (endByte = -1 \/ endByte >= startByte)

\* rangeHeader: <<>> is none, for a whole object, so that an empty one can be read; <<a>>
\* is from a to the end.
RangeHeader(startByte, endByte) ==
    CASE endByte = -1 /\ startByte = 0 -> <<>>
      [] endByte = -1 /\ startByte # 0 -> <<startByte>>
      [] endByte # -1                  -> <<startByte, endByte>>

\* GetObjectRange hands out the body of a success.
GetObjectRange(resp, startByte, endByte) ==
    IF resp.status \in {200, 206} THEN [ok |-> TRUE, body |-> resp.body]
                                  ELSE [ok |-> FALSE, body |-> <<>>]
=============================================================================
