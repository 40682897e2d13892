------------------------------ MODULE RetryOpen -----------------------------
(***************************************************************************)
(* RetryPolicy.Do (storage_clients/retry.go) around OpenWithHeaderTimeout  *)
(* (storage_clients/headertimeout.go), as its comment prescribes for calls *)
(* whose body outlives the attempt.  Each attempt arms a timer whose       *)
(* callback runs in a goroutine of its own: it sets `fired` and then       *)
(* cancels the attempt's context, while the request may be returning.      *)
(***************************************************************************)
EXTENDS Naturals

CONSTANTS MaxAttempts,         \* attempt limit for errors without a status
          MaxStatusAttempts    \* attempt limit for a retryable HTTP status

ASSUME AttemptsAssumption == /\ MaxAttempts \in Nat \ {0}
                             /\ MaxStatusAttempts \in Nat \ {0}

VARIABLES attempt,    \* number of the attempt
          pc,         \* where Do is
          timer,      \* "armed", "expired" (callback started), "stopped"
          fired,      \* the callback has set fired
          hctx,       \* the attempt's context is cancelled
          ctx,        \* the caller's context is cancelled
          body,       \* "none", "open" or "closed": the response body
          err,        \* error of the attempt
          result      \* what Do returned: "none" yet, "body", "nil", or an error

vars == <<attempt, pc, timer, fired, hctx, ctx, body, err, result>>

\* "status": 408, 429, 5xx; "network": other retryable errors; "fatal": not retryable;
\* "canceled": the request saw its context end; "timeout": ErrAttemptTimeout.
Errs == {"nil", "status", "network", "fatal", "canceled", "timeout"}

Init == /\ attempt = 1
        /\ pc = "open"
        /\ timer = "armed"
        /\ fired = FALSE
        /\ hctx = FALSE
        /\ ctx \in BOOLEAN
        /\ body = "none"
        /\ err = "nil"
        /\ result = "none"

-----------------------------------------------------------------------------
(* The timer and the caller. *)

\* The timer expires: its callback starts, and Stop will report false from now on.
Expire ==
    /\ timer = "armed"
    /\ pc \in {"open", "stop"}
    /\ timer' = "expired"
    /\ UNCHANGED <<attempt, pc, fired, hctx, ctx, body, err, result>>

\* fired.Store(true)
CallbackFires ==
    /\ timer = "expired"
    /\ ~ fired
    /\ fired' = TRUE
    /\ UNCHANGED <<attempt, pc, timer, hctx, ctx, body, err, result>>

\* cancel()
CallbackCancels ==
    /\ fired
    /\ ~ hctx
    /\ hctx' = TRUE
    /\ UNCHANGED <<attempt, pc, timer, fired, ctx, body, err, result>>

CancelCaller ==
    /\ ~ ctx
    /\ result = "none"
    /\ ctx' = TRUE
    /\ UNCHANGED <<attempt, pc, timer, fired, hctx, body, err, result>>

-----------------------------------------------------------------------------
(* OpenWithHeaderTimeout. *)

\* open(hctx) returns a body ...
Opens ==
    /\ pc = "open"
    /\ pc' = "stop"
    /\ body' = "open"
    /\ UNCHANGED <<attempt, timer, fired, hctx, ctx, err, result>>

\* ... or an error; "canceled" if the context has ended.
OpenFails(e) ==
    /\ pc = "open"
    /\ e = "canceled" => hctx \/ ctx
    /\ pc' = "stop"
    /\ err' = e
    /\ UNCHANGED <<attempt, timer, fired, hctx, ctx, body, result>>

StopIgnored == body = "open"                \* mutant: Stop's result is not looked at

\* timer.Stop() && err == nil
Disarmed == timer = "armed" /\ body = "open"

\* The header phase ended in time: the body is handed out, Do returns it.
HandOut ==
    /\ pc = "stop"
    /\ Disarmed
    /\ timer' = "stopped"
    /\ pc' = "done"
    /\ result' = "body"
    /\ UNCHANGED <<attempt, fired, hctx, ctx, body, err>>

KeepBody == body                            \* mutant: a late body is not closed

\* body.Close() if there is one.
ClosedBody == IF body = "open" THEN "closed" ELSE body

\* Failed, or the timer fired concurrently: close the body, cancel the context.
TooLate ==
    /\ pc = "stop"
    /\ ~ Disarmed
    /\ timer' = IF timer = "armed" THEN "stopped" ELSE timer
    /\ body' = ClosedBody
    /\ hctx' = TRUE
    /\ pc' = "class"
    /\ UNCHANGED <<attempt, fired, ctx, err, result>>

NeverTimeout == err                         \* mutant: a timeout is not told apart

\* fired.Load() && ctx.Err() == nil: the error of the attempt.
AttemptError == IF fired /\ ~ ctx THEN "timeout" ELSE err

\* OpenWithHeaderTimeout returns its error to Do.
Classify ==
    /\ pc = "class"
    /\ err' = AttemptError
    /\ pc' = "retry"
    /\ UNCHANGED <<attempt, timer, fired, hctx, ctx, body, result>>

-----------------------------------------------------------------------------
(* RetryPolicy.Do after a failed attempt. *)

AttemptLimit == IF err = "status" THEN MaxStatusAttempts ELSE MaxAttempts

\* A retryable error (IsRetryable, or the attempt's timeout), and attempts are left.
MayRetry == err \in {"status", "network", "timeout"} /\ attempt < AttemptLimit

SameAttempt == attempt                      \* mutant: attempts are not counted

NextAttempt == attempt + 1

\* The backoff ends and the next attempt starts.
Again ==
    /\ pc = "retry"
    /\ ~ ctx
    /\ MayRetry
    /\ attempt' = NextAttempt
    /\ pc' = "open" /\ timer' = "armed" /\ fired' = FALSE /\ hctx' = FALSE
    /\ body' = "none" /\ err' = "nil"
    /\ UNCHANGED <<ctx, result>>

\* Do returns: no error after all, the caller's cancellation, or the last error.
GiveUp ==
    /\ pc = "retry"
    /\ err = "nil" \/ ctx \/ ~ MayRetry
    /\ pc' = "done"
    /\ result' = IF err = "nil" THEN "nil" ELSE IF ctx THEN "canceled" ELSE err
    /\ UNCHANGED <<attempt, timer, fired, hctx, ctx, body, err>>

Do == \/ Opens
      \/ \E e \in {"status", "network", "fatal", "canceled"} : OpenFails(e)
      \/ HandOut
      \/ TooLate
      \/ Classify
      \/ Again
      \/ GiveUp

Returned == pc = "done" /\ UNCHANGED vars

Next == Do \/ Expire \/ CallbackFires \/ CallbackCancels \/ CancelCaller \/ Returned

\* The goroutine running Do is scheduled, and every request ends.
Spec == Init /\ [][Next]_vars /\ WF_vars(Do)

-----------------------------------------------------------------------------
(* Properties. *)

\* A body that was handed out can be read: it is open and the timer neither has
\* cancelled its context nor will, however close the header came to the deadline.
BodyAlive == result = "body" => body = "open" /\ ~ hctx /\ timer = "stopped"

\* A body that came too late is closed: when Do has returned without a body none is
\* open, nor is one after an attempt that is retried.
NoLeakedBody == (pc = "done" /\ result # "body") \/ pc = "retry" => body # "open"

\* Do reports a cancellation only if the caller cancelled; the cancellation by the
\* attempt's own timer is a timeout, which is retried.
CancellationIsCallers == result = "canceled" => ctx

\* Do returns: attempts run out, whatever mixture of errors and timeouts they end in.
DoReturns == <>(pc = "done")

\* "If the header phase expires while ctx is still live, the error matches
\* ErrAttemptTimeout": if the caller has not cancelled, Do never ends without a body
\* and without an error.
BodyOrError == result = "nil" => ctx
=============================================================================
