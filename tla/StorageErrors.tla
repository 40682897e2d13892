--------------------------- MODULE StorageErrors ---------------------------
(***************************************************************************)
(* The error contract of the provider clients (storage_clients/errors.go)  *)
(* and the replies a provider may give.  An error is named by what the     *)
(* code tells apart with errors.Is and errors.As.                          *)
(***************************************************************************)

\* Replies to a request: "none" no response in time; "ok"; a success without the datum the
\* client needs ("hollow"), with a document it cannot parse ("garbled"), whose body breaks
\* off ("broken") or holds an error document ("noupload" for NoSuchUpload, "error" any
\* other); a 404; a 408, 429 or 5xx ("busy"); another 4xx ("refused"); S3's 400
\* RequestTimeout ("slow").
Replies == {"none", "ok", "hollow", "garbled", "broken", "noupload", "error", "404", "busy",
            "refused", "slow"}

\* Errors: "none" is nil, "other" everything that is no sentinel and no StatusError.
Errors == {"none", "other", "notfound", "uploadgone", "busy", "refused", "permanent"}

\* StatusError: a 404 matches ErrNotFound.
StatusError(reply) == IF reply = "404" THEN "notfound" ELSE reply

\* IsRetryable, and Do's check for Permanent before it.
IsRetryable(err) == err \in {"busy", "other"}
=============================================================================
