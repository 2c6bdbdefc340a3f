---------------------------- MODULE MC_KafkaIn ----------------------------
(* Small instance of KafkaIn for TLC.  The retry configurations cover a   *)
(* doubling backoff that reaches its cap, a fractional multiplier (1.5)   *)
(* from a 1 ms initial delay, and an initial delay above max_delay_ms;    *)
(* max_retries 0..3 puts the budget check at both of its edges.           *)
EXTENDS KafkaIn

MCRetryConfigs ==
    { [maxRetries |-> 3, initialDelay |-> 1, maxDelay |-> 4, num |-> 2, den |-> 1],
      [maxRetries |-> 2, initialDelay |-> 1, maxDelay |-> 8, num |-> 3, den |-> 2],
      [maxRetries |-> 1, initialDelay |-> 8, maxDelay |-> 4, num |-> 2, den |-> 1],
      [maxRetries |-> 0, initialDelay |-> 2, maxDelay |-> 4, num |-> 2, den |-> 1] }

(* The fractional multiplier alone, for the backoff-formula run.          *)
MCFractionalConfigs ==
    { [maxRetries |-> 3, initialDelay |-> 1, maxDelay |-> 8, num |-> 3, den |-> 2] }
=============================================================================
