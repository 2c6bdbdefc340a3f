------------------------------ MODULE RetryLoop ------------------------------
(***************************************************************************)
(* What a retried task promises (spec sections 4.4 and 8), without delays, *)
(* messages or the unit around it: it makes a first call, retries a failed *)
(* call after a wait while it has made no more than `budget' calls, gives  *)
(* up after exactly budget + 1 failed calls, and stops for good on a       *)
(* success.                                                                *)
(***************************************************************************)
EXTENDS Naturals

VARIABLES
    budget,   \* the number of retries allowed
    phase,    \* "idle", "calling", "waiting", "succeeded" or "failed"
    calls     \* calls made so far

rvars == <<budget, phase, calls>>

Init ==
    /\ budget \in Nat
    /\ phase = "idle"
    /\ calls = 0

(* The first call.                                                         *)
Start ==
    /\ phase = "idle"
    /\ phase' = "calling"
    /\ calls' = 1
    /\ UNCHANGED budget

(* The call succeeds: the task stops.                                      *)
Succeed ==
    /\ phase = "calling"
    /\ phase' = "succeeded"
    /\ UNCHANGED <<budget, calls>>

(* The call fails with retries left: wait before the next one.             *)
Fail ==
    /\ phase = "calling"
    /\ calls <= budget
    /\ phase' = "waiting"
    /\ UNCHANGED <<budget, calls>>

(* The call fails with the budget spent: give up.                          *)
GiveUp ==
    /\ phase = "calling"
    /\ calls = budget + 1
    /\ phase' = "failed"
    /\ UNCHANGED <<budget, calls>>

(* The wait ends: call again.                                              *)
Retry ==
    /\ phase = "waiting"
    /\ phase' = "calling"
    /\ calls' = calls + 1
    /\ UNCHANGED budget

Next == Start \/ Succeed \/ Fail \/ GiveUp \/ Retry

Spec == Init /\ [][Next]_rvars
=============================================================================
