---------------------------- MODULE ObjectWriter ----------------------------
(***************************************************************************)
(* The writer of one object in an object store (objectStorageWriter,       *)
(* tsync/storage.go), the client's requests (S3Client, OCIClient,          *)
(* HTTPClient) with their retries (storage_clients/retry.go) and the       *)
(* provider's multipart protocol.  Small objects go up in one PutObject,   *)
(* larger ones in parts, of growing sizes, that Complete publishes.  Any   *)
(* request may fail, or take effect without a reply that says so.          *)
(***************************************************************************)
EXTENDS Naturals, SequencesExt, StorageErrors

CONSTANTS MaxUnits,        \* bound: data units the caller writes
          InitialPartSize, \* initialPartSize
          MaxPartSize,     \* maxPartSize
          PartSizeStep,    \* partSizeStep
          MaxParts,        \* maxMultipartParts
          MaxAttempts      \* attempt limit of a request

ASSUME BoundsAssumption == /\ MaxUnits \in Nat
                           /\ InitialPartSize \in Nat \ {0}
                           /\ MaxPartSize \in Nat \ {0}
                           /\ PartSizeStep \in Nat \ {0}
                           /\ MaxParts \in Nat
                           /\ MaxAttempts \in Nat \ {0}

S3 == INSTANCE S3Client
OCI == INSTANCE OCIClient
HTTP == INSTANCE HTTPClient

VARIABLES object,        \* what the key holds: present or not, and its data
          old,           \* history: what the key held before
          upload,        \* the multipart upload the writer knows, at the provider
          stored,        \* stored[i]: data of part i at the provider
          expired,       \* history: the provider dropped the upload
          pc,            \* "open", the request in progress, or "done"
          client,        \* whose client the writer uses
          attempt,       \* attempt of that request
          buf, sent,     \* buffered units; units accepted so far
          part,          \* number of the part being buffered
          err,           \* w.err is set
          closing,       \* Close has been called
          result,        \* what Close or Abort returned
          abortFailed    \* history: Abort at the provider failed

provider == <<object, old, upload, stored, expired>>
vars == <<provider, client, pc, attempt, buf, sent, part, err, closing, result, abortFailed>>

Missing == [present |-> FALSE, data |-> <<>>]
Holding(d) == [present |-> TRUE, data |-> d]

\* An object from an earlier run: unit 0 is none of this writer's.
Earlier == Holding(<<0>>)

Written == [i \in 1..sent |-> i]

Init == /\ object \in {Missing, Earlier}
        /\ old = object
        /\ upload = "none"
        /\ stored = [i \in 1..MaxParts |-> <<>>]
        /\ expired = FALSE
        /\ client \in {"s3", "oci", "http"}
        /\ pc = "open"
        /\ attempt = 1
        /\ buf = <<>>
        /\ sent = 0
        /\ part = 1
        /\ err = FALSE
        /\ closing = FALSE
        /\ result = "none"
        /\ abortFailed = FALSE

-----------------------------------------------------------------------------
(* Part sizes. *)

\* The size after doublings of initial, which stop at limit.
Doubled(initial, limit, doublings) ==
    LET size[k \in 0..doublings] == IF k = 0 THEN initial
                                    ELSE IF size[k - 1] < limit THEN 2 * size[k - 1]
                                    ELSE size[k - 1]
    IN  size[doublings]

Uncapped(initial, limit, step, n) == Doubled(initial, limit, (n - 1) \div step)   \* mutant: no cap

\* partSizeFor: sizes double every step parts, up to limit.
PartSize(initial, limit, step, n) ==
    LET size == Doubled(initial, limit, (n - 1) \div step)
    IN  IF size > limit THEN limit ELSE size

PartSizeFor(n) == PartSize(InitialPartSize, MaxPartSize, PartSizeStep, n)

-----------------------------------------------------------------------------
(* The writer's calls. *)

Request(r) == pc' = r /\ attempt' = 1
Done(res)  == pc' = "done" /\ attempt' = 1 /\ result' = res

\* Write buffers a unit; the buffer is shipped only when more data follows.
Write ==
    /\ pc = "open" /\ ~ err
    /\ sent < MaxUnits
    /\ Len(buf) < PartSizeFor(part)
    /\ buf' = Append(buf, sent + 1)
    /\ sent' = sent + 1
    /\ UNCHANGED <<provider, client, pc, attempt, part, err, closing, result, abortFailed>>

\* uploadBufferedPart up to its first request.
ShipFrom == IF upload = "none" THEN "initiate" ELSE "part"

\* Write finds the buffer full.
WriteFull ==
    /\ pc = "open" /\ ~ err
    /\ sent < MaxUnits
    /\ Len(buf) = PartSizeFor(part)
    /\ IF part > MaxParts THEN /\ err' = TRUE
                               /\ UNCHANGED <<pc, attempt>>
                          ELSE /\ Request(ShipFrom)
                               /\ UNCHANGED err
    /\ UNCHANGED <<provider, client, buf, sent, part, closing, result, abortFailed>>

KeepUpload(res) == Done(res)                \* mutant: the upload is not aborted

\* abortUpload on a detached context, then return res; nothing to abort without an ID.
AbortThen(res) == IF upload = "none" THEN Done(res)
                                     ELSE Request("abort") /\ result' = res

\* Close publishes what was written, unless a Write has failed.
Close ==
    /\ pc = "open"
    /\ closing' = TRUE
    /\ IF err \/ (upload # "none" /\ buf # <<>> /\ part > MaxParts)
       THEN AbortThen("error")
       ELSE /\ Request(IF upload = "none" THEN "put"
                                          ELSE IF buf = <<>> THEN "complete" ELSE "part")
            /\ UNCHANGED result
    /\ UNCHANGED <<provider, client, buf, sent, part, err, abortFailed>>

\* Abort drops everything.
Abort ==
    /\ pc = "open"
    /\ AbortThen("aborted")
    /\ UNCHANGED <<provider, client, buf, sent, part, err, closing, abortFailed>>

-----------------------------------------------------------------------------
(* Requests.  What each does at the provider: *)

StorePart == /\ upload = "open"
             /\ stored' = [stored EXCEPT ![part] = buf]
             /\ UNCHANGED <<object, old, upload, expired>>

Put == /\ object' = Holding(buf)
       /\ UNCHANGED <<old, upload, stored, expired>>

AssembleAllButLast == FlattenSeq(SubSeq(stored, 1, part - 2))   \* mutant: off by one

\* Complete names parts 1 to part - 1, in order.
Assemble == FlattenSeq(SubSeq(stored, 1, part - 1))

Publish == /\ upload = "open"
           /\ object' = Holding(Assemble)
           /\ upload' = "completed"
           /\ UNCHANGED <<old, stored, expired>>

Drop == /\ upload = "open"
        /\ upload' = "gone"
        /\ UNCHANGED <<object, old, stored, expired>>

Requests == {"initiate", "part", "put", "complete", "abort"}

\* The writer learns of the upload from the reply; one without leaves an upload nobody
\* knows the ID of.
TakesEffect == \/ pc = "initiate" /\ UNCHANGED provider
               \/ pc = "part" /\ StorePart
               \/ pc = "put" /\ Put
               \/ pc = "complete" /\ Publish
               \/ pc = "abort" /\ Drop

\* Replies that say nothing of the effect.
Mute == {"none", "busy", "broken"} \cup (IF pc \in {"initiate", "part"} THEN {"hollow"} ELSE {})
                                  \cup (IF pc = "initiate" THEN {"garbled"} ELSE {})

UnknownUpload == pc \in {"part", "complete", "abort"} /\ upload # "open"

\* Replies to a request that has no effect.
Denials == {"refused", "slow"} \cup (IF pc = "complete" THEN {"error"} ELSE {})
                              \cup (IF UnknownUpload THEN {"404", "noupload"} ELSE {})
                              \cup (IF pc \in {"initiate", "put"} THEN {"404"} ELSE {})

\* The provider handles one attempt and answers.
Attempt(reply) == \/ reply \in Mute \cup {"ok"} /\ TakesEffect
                  \/ reply \in Mute \cup Denials /\ UNCHANGED provider

AnyHeadIsFine == TRUE                       \* mutant: HEAD is not looked at

\* HEAD after "no such upload": is there an object under the key?
HeadFinds == object.present

\* The client's error for a reply to the request in progress.
S3Error(reply, found) ==
    CASE pc = "initiate" -> S3!Initiate(reply)
      [] pc = "part"     -> S3!UploadPart(reply)
      [] pc = "put"      -> S3!PutObject(reply)
      [] pc = "complete" -> S3!Complete(reply, found)
      [] pc = "abort"    -> S3!Abort(reply)

OCIError(reply, found) ==
    CASE pc = "initiate" -> OCI!Initiate(reply)
      [] pc = "part"     -> OCI!UploadPart(reply)
      [] pc = "put"      -> OCI!PutObject(reply)
      [] pc = "complete" -> OCI!Complete(reply, found)
      [] pc = "abort"    -> OCI!Abort(reply)

HTTPError(reply, found) ==
    CASE pc = "initiate" -> HTTP!Initiate(reply)
      [] pc = "part"     -> HTTP!UploadPart(reply)
      [] pc = "put"      -> HTTP!PutObject(reply)
      [] pc = "complete" -> HTTP!Complete(reply, found)
      [] pc = "abort"    -> HTTP!Abort(reply)

\* HEAD may fail, too.
ReplyError(reply, head) ==
    LET found == head /\ HeadFinds IN
    CASE client = "s3"   -> S3Error(reply, found)
      [] client = "oci"  -> OCIError(reply, found)
      [] client = "http" -> HTTPError(reply, found)

ClientReplies == CASE client = "s3"   -> S3!ClientReplies
                   [] client = "oci"  -> OCI!ClientReplies
                   [] client = "http" -> HTTP!ClientReplies

\* An attempt that ends with error e; HEAD's answer only matters to Complete.
AttemptEnds(e) == \E reply \in ClientReplies, head \in (IF pc = "complete" THEN BOOLEAN ELSE {TRUE}) :
                      ReplyError(reply, head) = e /\ Attempt(reply)

-----------------------------------------------------------------------------
(* What the writer does after a request.  First, when it succeeds. *)

Initiated ==
    /\ pc = "initiate"
    /\ ReplyError("ok", TRUE) = "none"
    /\ upload' = "open"
    /\ Request("part")
    /\ UNCHANGED <<object, old, stored, expired, client, buf, sent, part, err, closing, result, abortFailed>>

\* Within Write, the unit that found the buffer full is buffered now.
PartUploaded ==
    /\ pc = "part"
    /\ AttemptEnds("none")
    /\ part' = part + 1
    /\ IF closing THEN /\ Request("complete") /\ buf' = <<>> /\ UNCHANGED sent
                  ELSE /\ Request("open") /\ buf' = <<sent + 1>> /\ sent' = sent + 1
    /\ UNCHANGED <<client, err, closing, result, abortFailed>>

\* PutObject or Complete ends Close.
Closed ==
    /\ pc \in {"put", "complete"}
    /\ AttemptEnds("none")
    /\ Done("ok")
    /\ UNCHANGED <<client, buf, sent, part, err, closing, abortFailed>>

Aborted ==
    /\ pc = "abort"
    /\ AttemptEnds("none")
    /\ Done(result)
    /\ UNCHANGED <<client, buf, sent, part, err, closing, abortFailed>>

Succeeds == Initiated \/ PartUploaded \/ Closed \/ Aborted

AttemptsStartOver == (attempt % 2) + 1      \* mutant: the count is reset between attempts

NextAttempt == attempt + 1

\* RetryPolicy.Do: a retryable error, and attempts are left.
Retry ==
    /\ pc \in Requests
    /\ attempt < MaxAttempts
    /\ \E e \in Errors : IsRetryable(e) /\ AttemptEnds(e)
    /\ attempt' = NextAttempt
    /\ UNCHANGED <<client, pc, buf, sent, part, err, closing, result, abortFailed>>

\* RetryPolicy.Do returns an error: not retryable, attempts used up, or the context is
\* done, as it may be at any time.
GiveUp ==
    /\ pc \in Requests
    /\ \E e \in Errors \ {"none"} : AttemptEnds(e)
    /\ \/ /\ pc \in {"initiate", "part"} /\ ~ closing
          /\ err' = TRUE
          /\ Request("open")
          /\ UNCHANGED <<result, abortFailed>>
       \/ /\ pc \in {"part", "complete"} /\ closing
          /\ AbortThen("error")
          /\ UNCHANGED <<err, abortFailed>>
       \/ /\ pc = "put"
          /\ Done("error")
          /\ UNCHANGED <<err, abortFailed>>
       \/ /\ pc = "abort"
          /\ Done(result)
          /\ abortFailed' = TRUE
          /\ UNCHANGED err
    /\ UNCHANGED <<client, buf, sent, part, closing>>

\* External: the provider drops an unfinished upload (a lifecycle rule).
Expire ==
    /\ pc # "done"
    /\ upload = "open"
    /\ upload' = "gone"
    /\ expired' = TRUE
    /\ UNCHANGED <<object, old, stored, client, pc, attempt, buf, sent, part, err, closing, result, abortFailed>>

Finished == pc = "done" /\ UNCHANGED vars

Next == Write \/ WriteFull \/ Close \/ Abort \/ Succeeds \/ Retry \/ GiveUp \/ Expire \/ Finished

\* Every attempt ends: requests have timeouts (UploadAttemptTimeout and the like).
Spec == Init /\ [][Next]_vars /\ WF_vars(Succeeds \/ Retry \/ GiveUp)

-----------------------------------------------------------------------------
(* Properties. *)

\* Readers see what the key held before or everything that was written, never a part of
\* it or parts in another order; and nothing new before Close.
AllOrNothing == object = old \/ (closing /\ object = Holding(Written))

\* Close returns nil only if the data is there, as long as the provider keeps the upload.
\* (If it does not, HEAD may find an older object.)
ClosePublishes == result = "ok" => object = Holding(Written) \/ (expired /\ old.present)

\* "data becomes visible at path only on a successful Close", so a successful Close is
\* one whose data is visible.
SuccessfulCloseIsVisible == result = "ok" => object = Holding(Written)

\* No part exceeds the provider's limit for one, however large the object grows.
PartsWithinLimit == \A i \in 1..MaxParts : Len(stored[i]) <= MaxPartSize

\* A writer that is done has left no multipart upload it knows of open, unless Abort
\* itself failed.
NoOpenUpload == (pc = "done" /\ ~ abortFailed) => upload # "open"

\* A call of the writer returns, whatever the provider does.
CallsReturn == [](pc \in Requests => <>(pc \in {"open", "done"}))
=============================================================================
