--------------------------- MODULE RetryOpenProofs --------------------------
(***************************************************************************)
(* Proofs about RetryOpen for every number of attempts: how the goroutine  *)
(* that opens the body and the timer's callback share the attempt.         *)
(***************************************************************************)
EXTENDS RetryOpen, TLAPS

TypeOK == /\ attempt \in Nat
          /\ pc \in {"open", "stop", "class", "retry", "done"}
          /\ timer \in {"armed", "expired", "stopped"}
          /\ fired \in BOOLEAN
          /\ hctx \in BOOLEAN
          /\ ctx \in BOOLEAN
          /\ body \in {"none", "open", "closed"}
          /\ err \in Errs
          /\ result \in Errs \cup {"none", "body"}

\* The callback runs only after Stop has become too late; until OpenWithHeaderTimeout
\* cancels the attempt's context itself, only the callback has.
TimerInv == /\ fired => timer = "expired"
            /\ pc \in {"open", "stop"} => /\ timer # "stopped"
                                          /\ hctx => fired

\* The request returns a body or an error, and a body that is not handed out is closed.
BodyInv == /\ pc = "open" => body = "none" /\ err = "nil"
           /\ pc = "stop" => body \in {"none", "open"}
           /\ pc \in {"class", "retry"} => body # "open"
           /\ pc = "done" => \/ result = "body" /\ body = "open" /\ ~ hctx
                                               /\ timer = "stopped"
                             \/ result # "body" /\ body # "open"

\* A request sees its context end because the callback ran or the caller cancelled; the
\* first becomes a timeout before Do looks at the error.
CancelInv == /\ pc \in {"stop", "class"} /\ err = "canceled" => fired \/ ctx
             /\ pc = "retry" /\ err = "canceled" => ctx
             /\ result = "canceled" => ctx

\* Do returns once.
ResultInv == result = "none" <=> pc # "done"

IInv == TypeOK /\ TimerInv /\ BodyInv /\ CancelInv /\ ResultInv

-----------------------------------------------------------------------------

\* A call of Do starts in the invariant, whether or not its context is still alive.
LEMMA InitInv == Init => IInv
<1> SUFFICES ASSUME Init
             PROVE  IInv
  OBVIOUS
<1>1. attempt \in Nat /\ fired \in BOOLEAN /\ hctx \in BOOLEAN
  BY DEF Init
<1>2. TypeOK
  BY <1>1 DEF Init, TypeOK, Errs
<1>3. TimerInv /\ BodyInv /\ CancelInv /\ ResultInv
  BY DEF Init, TimerInv, BodyInv, CancelInv, ResultInv
<1> QED
  BY <1>2, <1>3 DEF IInv

\* Every step of Do, of the timer's callback and of the caller keeps it.
LEMMA StepInv == IInv /\ [Next]_vars => IInv'
<1> USE DEF IInv, TypeOK, TimerInv, BodyInv, CancelInv, ResultInv, Errs
<1> SUFFICES ASSUME IInv, [Next]_vars
             PROVE  IInv'
  OBVIOUS
<1>1. CASE Opens
  BY <1>1 DEF Opens
<1>2. ASSUME NEW e \in {"status", "network", "fatal", "canceled"}, OpenFails(e)
      PROVE  IInv'
  BY <1>2 DEF OpenFails
<1>3. CASE HandOut
  BY <1>3 DEF HandOut, Disarmed
<1>4. CASE TooLate
  BY <1>4 DEF TooLate, Disarmed, ClosedBody
<1>5. CASE Classify
  BY <1>5 DEF Classify, AttemptError
<1>6. CASE Again
  <2>1. attempt' \in Nat
    BY <1>6 DEF Again, NextAttempt
  <2>2. fired' \in BOOLEAN /\ hctx' \in BOOLEAN /\ ~ fired' /\ ~ hctx'
    BY <1>6 DEF Again
  <2> QED
    BY <1>6, <2>1, <2>2 DEF Again
<1>7. CASE GiveUp
  BY <1>7 DEF GiveUp, MayRetry
<1>8. CASE Expire
  BY <1>8 DEF Expire
<1>9. CASE CallbackFires
  BY <1>9 DEF CallbackFires
<1>10. CASE CallbackCancels
  BY <1>10 DEF CallbackCancels
<1>11. CASE CancelCaller
  BY <1>11 DEF CancelCaller
<1>12. CASE Returned \/ UNCHANGED vars
  BY <1>12 DEF Returned, vars
<1> QED
  BY <1>1, <1>2, <1>3, <1>4, <1>5, <1>6, <1>7, <1>8, <1>9, <1>10, <1>11, <1>12
     DEF Next, Do

\* The invariant holds throughout every call of Do.
LEMMA Invariance == Spec => []IInv
BY InitInv, StepInv, PTL DEF Spec

-----------------------------------------------------------------------------

\* A body Do returned is open, and the timer of its attempt neither has cancelled its
\* context nor will, at whatever moment of the opening the timer expired.
THEOREM BodyAliveHolds == Spec => []BodyAlive
<1>1. IInv => BodyAlive
  BY DEF IInv, TypeOK, ResultInv, BodyInv, BodyAlive
<1> QED
  BY <1>1, Invariance, PTL

\* A body that arrived too late is closed before the attempt is retried or Do returns.
THEOREM NoLeakedBodyHolds == Spec => []NoLeakedBody
<1>1. IInv => NoLeakedBody
  BY DEF IInv, BodyInv, NoLeakedBody
<1> QED
  BY <1>1, Invariance, PTL

\* Do reports a cancellation only if its caller cancelled: the attempt's own timer is
\* never mistaken for the caller.
THEOREM CancellationIsCallersHolds == Spec => []CancellationIsCallers
<1>1. IInv => CancellationIsCallers
  BY DEF IInv, CancelInv, CancellationIsCallers
<1> QED
  BY <1>1, Invariance, PTL

\* A body that was handed out stays as it is: no step of a callback that comes late, of
\* the caller or of Do closes it or ends its context.
THEOREM HandedOutForGood ==
    Spec => [][result = "body" => /\ result' = "body"
                                  /\ body' = "open"
                                  /\ ~ hctx']_vars
<1>1. IInv /\ [Next]_vars
         => [result = "body" => result' = "body" /\ body' = "open" /\ ~ hctx']_vars
  <2> SUFFICES ASSUME IInv, [Next]_vars, result = "body"
               PROVE  result' = "body" /\ body' = "open" /\ ~ hctx'
    OBVIOUS
  <2>1. pc = "done" /\ body = "open" /\ ~ hctx /\ ~ fired /\ timer = "stopped"
    BY DEF IInv, TypeOK, ResultInv, BodyInv, TimerInv
  <2> QED
    BY <2>1 DEF Next, Do, Opens, OpenFails, HandOut, TooLate, Classify, Again, GiveUp,
                Expire, CallbackFires, CallbackCancels, CancelCaller, Returned, vars
<1> QED
  BY <1>1, Invariance, PTL DEF Spec
=============================================================================
