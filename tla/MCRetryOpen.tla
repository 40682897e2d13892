----------------------------- MODULE MCRetryOpen ----------------------------
(* Fewer attempts for network errors than for a retryable status, as the    *)
(* default policy has it.                                                   *)
EXTENDS RetryOpen
=============================================================================
