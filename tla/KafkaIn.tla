------------------------------- MODULE KafkaIn -------------------------------
(***************************************************************************)
(* The Kafka input unit of src/units/kafka_in/unit.rs: KafkaInRunner::run *)
(* (the wait for readiness, then a select! over gate events and the        *)
(* consumer task's completion) and the task spawned by                     *)
(* start_consumer_task (run_consumer restarted with exponential backoff).  *)
(* The pipeline (waitpoint, gate commands) is the environment.  A payload  *)
(* is abstracted to a count; delays are milliseconds and the f64 backoff   *)
(* multiplier is the fraction Num/Den.                                     *)
(***************************************************************************)
EXTENDS Naturals

CONSTANTS
    RetryConfigs, \* the RetryConfig values the unit may be configured with
    MaxMessages   \* messages after which the placeholder run_consumer ends (10)

RetryConfig == [maxRetries : Nat, initialDelay : Nat, maxDelay : Nat,
                num : Nat \ {0}, den : Nat \ {0}]

ASSUME KafkaConstantsAssumption ==
    /\ RetryConfigs \subseteq RetryConfig
    /\ RetryConfigs # {}
    /\ MaxMessages \in Nat \ {0}

VARIABLES
    cfg,          \* self.config.retry_config
    ready,        \* the waitpoint's readiness has been signalled
    termReq,      \* the gate has been told to terminate
    unit,         \* where KafkaInRunner::run is
    consumer,     \* where the consumer task is
    retryCount,   \* retry_count of the consumer task
    delay,        \* delay of the consumer task (ms)
    msgCount,     \* message_count of the current run_consumer call
    attempts,     \* run_consumer calls started so far
    sent,         \* payloads handed to gate.update_data so far
    sentAtTerm    \* payloads sent when run returned

vars == <<cfg, ready, termReq, unit, consumer, retryCount, delay, msgCount,
          attempts, sent, sentAtTerm>>

envVars == <<cfg, ready, termReq>>
taskVars == <<retryCount, delay, msgCount, attempts, sent>>

-----------------------------------------------------------------------------
MinOf(a, b) == IF a <= b THEN a ELSE b

(* Mutant: the delay is divided before it is multiplied.                 *)
NextDelayDivFirst(d) == MinOf((d \div cfg.den) * cfg.num, cfg.maxDelay)

(* The backoff step: min((delay as f64 * backoff_multiplier) as u64,       *)
(* max_delay_ms); the cast truncates.                                      *)
NextDelay(d) == MinOf((d * cfg.num) \div cfg.den, cfg.maxDelay)

(* Mutant: the budget check is retry_count > max_retries.                  *)
RetriesExhaustedLate == retryCount > cfg.maxRetries

(* Mutant: the budget is checked against the incremented count.           *)
RetriesExhaustedEarly == retryCount + 1 >= cfg.maxRetries

(* The retry budget is spent: retry_count >= max_retries.                  *)
RetriesExhausted == retryCount >= cfg.maxRetries

-----------------------------------------------------------------------------
Init ==
    /\ cfg \in RetryConfigs
    /\ ready = FALSE
    /\ termReq = FALSE
    /\ unit = "awaiting"
    /\ consumer = "none"
    /\ retryCount = 0
    /\ delay = 0
    /\ msgCount = 0
    /\ attempts = 0
    /\ sent = 0
    /\ sentAtTerm = 0

(* The pipeline signals readiness / sends the gate a terminate command.    *)
BecomeReady ==
    /\ ~ready
    /\ ready' = TRUE
    /\ UNCHANGED <<cfg, termReq, unit, consumer, taskVars, sentAtTerm>>

RequestTermination ==
    /\ ~termReq
    /\ termReq' = TRUE
    /\ UNCHANGED <<cfg, ready, unit, consumer, taskVars, sentAtTerm>>

(* run: process_until(waitpoint.ready()) completes, waitpoint.running(),   *)
(* then start_consumer_task spawns the task with retry_count = 0 and delay *)
(* = initial_delay_ms, which makes its first run_consumer call.            *)
StartRunning ==
    /\ unit = "awaiting"
    /\ ready
    /\ unit' = "running"
    /\ consumer' = "consuming"
    /\ retryCount' = 0
    /\ delay' = cfg.initialDelay
    /\ msgCount' = 0
    /\ attempts' = 1
    /\ UNCHANGED <<envVars, sent, sentAtTerm>>

(* run: gate.process() (or process_until while waiting) returns            *)
(* Err(Terminated) and run returns; the consumer task is left running.     *)
GateTerminated ==
    /\ unit \in {"awaiting", "running"}
    /\ termReq
    /\ unit' = "terminated"
    /\ sentAtTerm' = sent
    /\ UNCHANGED <<envVars, consumer, taskVars>>

(* Mutant: the select! has no arm for the consumer task's JoinHandle.     *)
ConsumerTaskIgnored ==
    /\ unit = "running"
    /\ consumer = "done"
    /\ UNCHANGED vars

(* run: the select! arm on the consumer task's JoinHandle fires ("completed*)
(* unexpectedly") and run returns Err(Terminated).                         *)
ConsumerTaskCompleted ==
    /\ unit = "running"
    /\ consumer = "done"
    /\ unit' = "terminated"
    /\ sentAtTerm' = sent
    /\ UNCHANGED <<envVars, consumer, taskVars>>

(* run_consumer, one tick: message_count += 1, build the placeholder      *)
(* payload and gate.update_data it.                                        *)
Emit ==
    /\ consumer = "consuming"
    /\ msgCount < MaxMessages
    /\ msgCount' = msgCount + 1
    /\ sent' = sent + 1
    /\ UNCHANGED <<envVars, unit, consumer, retryCount, delay, attempts, sentAtTerm>>

(* run_consumer returns Ok after MaxMessages messages: the task breaks.    *)
ConsumeSucceeded ==
    /\ consumer = "consuming"
    /\ msgCount = MaxMessages
    /\ consumer' = "done"
    /\ UNCHANGED <<envVars, unit, taskVars, sentAtTerm>>

(* run_consumer returns Err: stop when the budget is spent, otherwise      *)
(* count the retry and go to sleep(delay).                                 *)
ConsumeFailed ==
    /\ consumer = "consuming"
    /\ msgCount < MaxMessages
    /\ \/ /\ RetriesExhausted
          /\ consumer' = "done"
          /\ UNCHANGED retryCount
       \/ /\ ~RetriesExhausted
          /\ retryCount' = retryCount + 1
          /\ consumer' = "sleeping"
    /\ UNCHANGED <<envVars, unit, delay, msgCount, attempts, sent, sentAtTerm>>

(* sleep(delay) ends: back off the delay and call run_consumer again, whose*)
(* message_count starts from zero.                                         *)
Wake ==
    /\ consumer = "sleeping"
    /\ delay' = NextDelay(delay)
    /\ consumer' = "consuming"
    /\ msgCount' = 0
    /\ attempts' = attempts + 1
    /\ UNCHANGED <<envVars, unit, retryCount, sent, sentAtTerm>>

Next ==
    \/ BecomeReady
    \/ RequestTermination
    \/ StartRunning
    \/ GateTerminated
    \/ ConsumerTaskCompleted
    \/ Emit
    \/ ConsumeSucceeded
    \/ ConsumeFailed
    \/ Wake

(* The runner and the consumer are tokio tasks polled while they can make  *)
(* progress; a failure of run_consumer is the environment's choice.        *)
Fairness ==
    /\ WF_vars(StartRunning)
    /\ WF_vars(GateTerminated)
    /\ WF_vars(ConsumerTaskCompleted)
    /\ WF_vars(Emit)
    /\ WF_vars(ConsumeSucceeded)
    /\ WF_vars(Wake)

Spec == Init /\ [][Next]_vars /\ Fairness

-----------------------------------------------------------------------------
(* Every variable holds a value of its type.                               *)
TypeOK ==
    /\ cfg \in RetryConfigs
    /\ ready \in BOOLEAN
    /\ termReq \in BOOLEAN
    /\ unit \in {"awaiting", "running", "terminated"}
    /\ consumer \in {"none", "consuming", "sleeping", "done"}
    /\ retryCount \in 0..cfg.maxRetries
    /\ delay \in Nat
    /\ msgCount \in 0..MaxMessages
    /\ attempts \in Nat
    /\ sent \in Nat
    /\ sentAtTerm \in Nat

(* The retry budget is exact (spec section 8: max_retries = 3 gives four   *)
(* attempts and no fifth): the consumer task never calls run_consumer more *)
(* than max_retries + 1 times, and when it stops on a failure it has made  *)
(* exactly that many calls (start_consumer_task, retry_count check).       *)
RetryBudgetExact ==
    /\ attempts <= cfg.maxRetries + 1
    /\ (consumer = "done" /\ msgCount < MaxMessages)
           => attempts = cfg.maxRetries + 1

(* The runner notices the end of its consumer task: once the spawned task *)
(* has left its loop, whichever way, run eventually returns (the select!   *)
(* arm on the task's JoinHandle, unit.rs 259-262, or a terminate command). *)
(* The environment is not fair, so nothing but the task's end forces it.   *)
TaskEndLeadsToTermination == (consumer = "done") ~> (unit = "terminated")

(* A consume task runs until told to stop or until it fails for good       *)
(* (spec section 4.4: on success it continues running): the unit ends only *)
(* on a terminate command or after the consumer task gave up.              *)
UnitEndsOnlyOnStopOrFailure ==
    unit = "terminated" =>
        \/ termReq
        \/ consumer = "done" /\ msgCount < MaxMessages

(* Terminating the unit stops the consume task (spec section 4.4): no      *)
(* payload is handed to the gate after run has returned.                   *)
NoEmitAfterTermination == unit = "terminated" => sent = sentAtTerm

(* The backoff never exceeds max_delay (spec section 8): every sleep of    *)
(* the consumer task lasts at most max_delay_ms.                           *)
SleepWithinMaxDelay == consumer = "sleeping" => delay <= cfg.maxDelay

(* The spec's backoff formula: delay_n = min(initial * multiplier^n, max)  *)
(* in whole milliseconds, n counting retries from 0.                       *)
SpecDelay(n) ==
    MinOf((cfg.initialDelay * cfg.num ^ n) \div (cfg.den ^ n), cfg.maxDelay)

(* Every sleep of the consumer task lasts the spec's delay for its retry.  *)
DelayMatchesSpec ==
    consumer = "sleeping" => delay = SpecDelay(retryCount - 1)

(* Exponential backoff never shortens (spec section 8): when               *)
(* initial_delay_ms <= max_delay_ms and backoff_multiplier >= 1, the sleep *)
(* after each retry of the consumer task lasts at least as long as the     *)
(* sleep before it (start_consumer_task's delay update after sleep).       *)
BackoffNonDecreasing ==
    [][(/\ cfg.initialDelay <= cfg.maxDelay
        /\ cfg.num >= cfg.den
        /\ consumer = "sleeping" /\ consumer' = "consuming")
         => delay' >= delay]_vars
-----------------------------------------------------------------------------
(* The refinement mapping onto RetryLoop: the task's phase is where the    *)
(* consumer task is (a task that broke out of its loop succeeded when its *)
(* last run_consumer call handled every message), its calls are the       *)
(* run_consumer calls made, and its budget is max_retries.                 *)
TaskPhase ==
    CASE consumer = "none"      -> "idle"
      [] consumer = "consuming" -> "calling"
      [] consumer = "sleeping"  -> "waiting"
      [] consumer = "done" /\ msgCount = MaxMessages -> "succeeded"
      [] consumer = "done" /\ msgCount < MaxMessages  -> "failed"

Loop == INSTANCE RetryLoop
          WITH budget <- cfg.maxRetries, phase <- TaskPhase, calls <- attempts

(* start_consumer_task implements a bounded retry loop: the task retries  *)
(* only after a failed call and while it has made at most max_retries     *)
(* calls, gives up after exactly max_retries + 1 failed calls, and makes   *)
(* no call after it stopped.                                               *)
ImplementsRetryLoop == Loop!Spec
=============================================================================
