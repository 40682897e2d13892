--------------------------- MODULE ObjectListing ---------------------------
(***************************************************************************)
(* Listing a bucket page by page (ListObjects of the three clients, under  *)
(* ObjectStorage.List), for a folder source and for GC, while others put   *)
(* and delete objects.  Keys are numbers in the order of the listing; 0 is *)
(* no key, token or marker.                                                *)
(***************************************************************************)
EXTENDS Integers, FiniteSets, SequencesExt, StorageErrors

CONSTANTS Keys,          \* keys an object may have
          PageSize,      \* objects on a page
          MaxAttempts,   \* attempt limit of a request
          MaxChanges,    \* bound: objects put or deleted meanwhile
          MaxListed      \* bound: the listing grows no longer where a server repeats its page

S3 == INSTANCE S3Client
OCI == INSTANCE OCIClient
HTTP == INSTANCE HTTPClient

VARIABLES client,        \* whose client lists
          server,        \* how the server answers
          bucket,        \* keys with an object
          changes,       \* puts and deletes so far
          always, ever,  \* history: keys with an object throughout, or at some time
          cursor,        \* token (OCI: start) and marker of the next request
          objects,       \* the listing so far
          attempt,       \* attempt of that request
          state          \* "listing", "done" or "error"

listing == <<cursor, objects, attempt, state>>
vars == <<client, server, bucket, changes, always, ever, listing>>

\* Servers by client.  "v2" gives tokens; "start" is OCI's; "v1" gives the next marker,
\* "v1last" leaves it to the last key; "stuck" repeats its first page and its token (OCI:
\* its start), "tokenless" its first page without one.
Servers == {<<"s3", "v2">>, <<"s3", "stuck">>, <<"s3", "tokenless">>,
            <<"oci", "start">>, <<"oci", "stuck">>,
            <<"http", "v2">>, <<"http", "v1">>, <<"http", "v1last">>, <<"http", "stuck">>,
            <<"http", "tokenless">>}

Init == /\ \E s \in Servers : client = s[1] /\ server = s[2]
        /\ bucket \in SUBSET Keys
        /\ changes = 0
        /\ always = bucket
        /\ ever = bucket
        /\ cursor = [token |-> 0, marker |-> 0]
        /\ objects = <<>>
        /\ attempt = 1
        /\ state = "listing"

-----------------------------------------------------------------------------
(* The server. *)

\* The keys a request asks for: from start on, after the token or the marker, or all.
Asked == CASE server = "start"                  -> {k \in bucket : k >= cursor.token}
           [] server = "v2"                     -> {k \in bucket : k > cursor.token}
           [] server \in {"v1", "v1last"}       -> {k \in bucket : k > cursor.marker}
           [] server \in {"stuck", "tokenless"} -> bucket

\* A set of keys in their order.
Sorted(S) == [i \in 1..Cardinality(S) |-> CHOOSE k \in S : Cardinality({j \in S : j < k}) = i - 1]

\* One page of them, and how to go on.
Page == LET sorted == Sorted(Asked)
            more   == Len(sorted) > PageSize
            keys   == IF more THEN SubSeq(sorted, 1, PageSize) ELSE sorted
        IN  [keys      |-> keys,
             truncated |-> more,
             token     |-> IF more /\ server \in {"v2", "stuck"} THEN Last(keys) ELSE 0,
             marker    |-> IF more /\ server = "v1" THEN Last(keys) ELSE 0,
             start     |-> IF more /\ server \in {"start", "stuck"} THEN sorted[PageSize + 1] ELSE 0]

-----------------------------------------------------------------------------
(* The client. *)

PageError(reply) == CASE client = "s3"   -> S3!ListPage(reply)
                      [] client = "oci"  -> OCI!ListPage(reply)
                      [] client = "http" -> HTTP!ListPage(reply)

AfterPage(page) == CASE client = "s3"   -> S3!AfterPage(page, cursor)
                     [] client = "oci"  -> OCI!AfterPage(page, cursor)
                     [] client = "http" -> HTTP!AfterPage(page, cursor)

\* The listing with one more page.  At its bound, no more is recorded of a page that is
\* repeated.
Extended(page, next) ==
    IF server = "stuck" /\ next = "page" /\ Len(objects) >= MaxListed THEN objects
    ELSE objects \o page.keys

\* A page is added to the listing, which ends, goes on, or fails.
PageListed ==
    /\ state = "listing"
    /\ PageError("ok") = "none"
    /\ \E page \in {Page} : \E after \in {AfterPage(page)} :
          /\ objects' = Extended(page, after.next)
          /\ cursor' = after.cursor
          /\ state' = IF after.next = "page" THEN "listing" ELSE after.next
    /\ attempt' = 1
    /\ UNCHANGED <<client, server, bucket, changes, always, ever>>

\* Replies to a request for a page that is not a page.
Failures == CASE client = "s3"   -> S3!ClientReplies \ {"ok", "hollow", "noupload"}
              [] client = "oci"  -> OCI!ClientReplies \ {"ok", "hollow"}
              [] client = "http" -> HTTP!ClientReplies \ {"ok", "hollow", "noupload"}

AttemptsStartOver == (attempt % 2) + 1      \* mutant: a retried request counts as a new one

NextAttempt == attempt + 1

\* RetryPolicy.Do asks for the same page again ...
PageRetried ==
    /\ state = "listing"
    /\ attempt < MaxAttempts
    /\ \E reply \in Failures : IsRetryable(PageError(reply))
    /\ attempt' = NextAttempt
    /\ UNCHANGED <<client, server, bucket, changes, always, ever, cursor, objects, state>>

\* ... or gives up: an error that is not retried, no attempts left, or the context done.
PageFails ==
    /\ state = "listing"
    /\ \E reply \in Failures : PageError(reply) # "none"
    /\ state' = "error"
    /\ UNCHANGED <<client, server, bucket, changes, always, ever, cursor, objects, attempt>>

\* External: another client puts or deletes an object.
Change(k) ==
    /\ state = "listing"
    /\ changes < MaxChanges
    /\ changes' = changes + 1
    /\ bucket' = IF k \in bucket THEN bucket \ {k} ELSE bucket \cup {k}
    /\ always' = always \cap bucket'
    /\ ever' = ever \cup bucket'
    /\ UNCHANGED <<client, server, listing>>

Listed == state # "listing" /\ UNCHANGED vars

ListStep == PageListed \/ PageRetried \/ PageFails

Next == ListStep \/ (\E k \in Keys : Change(k)) \/ Listed

\* Each attempt ends (MetadataAttemptTimeout).
Spec == Init /\ [][Next]_vars /\ WF_vars(ListStep)

-----------------------------------------------------------------------------
(* Properties. *)

\* The server goes on where it is told to.
Pages == server \notin {"stuck", "tokenless"}

\* A listing that succeeds names every object that was there throughout, none that never
\* was, and none twice: neither a retried page nor objects that come and go between two
\* pages can make a source or a GC miss or double one.  (A server that repeats its first
\* page can at worst have one named twice.)
ListingFaithful ==
    state = "done" => /\ always \subseteq ToSet(objects)
                      /\ ToSet(objects) \subseteq ever
                      /\ Pages => \A i, j \in DOMAIN objects : i < j => objects[i] < objects[j]

\* The S3 and the OCI client follow a token or start that does not advance, for as long as
\* the server gives it: only the HTTP client compares it with the last one.
FollowedForEver == client \in {"s3", "oci"} /\ server = "stuck"

\* With that exception listing ends, also with a server that ignores where to go on and
\* whatever is retried.
ListingEnds == ~ FollowedForEver => <>(state # "listing")
=============================================================================
