---------------------------- MODULE KafkaIn_proofs ----------------------------
(***************************************************************************)
(* Proofs about the Kafka input unit, for every retry configuration and    *)
(* every message bound: the variables keep their types, and the consumer  *)
(* task's retry budget is exact.                                           *)
(***************************************************************************)
EXTENDS KafkaIn, TLAPS

(* How the run_consumer calls made so far relate to retry_count: one call *)
(* per retry plus the first, the retry being counted before the sleep and *)
(* the call made after it; a stop on failure happens only with the budget *)
(* spent.                                                                  *)
AttemptsTrack ==
    /\ consumer = "none" => attempts = 0
    /\ consumer \in {"consuming", "done"} => attempts = retryCount + 1
    /\ consumer = "sleeping" => attempts = retryCount
    /\ (consumer = "done" /\ msgCount < MaxMessages)
           => retryCount = cfg.maxRetries

(* TypeOK split into the control state and the counters, which the       *)
(* provers handle better one part at a time.                               *)
TypeCtrl ==
    /\ cfg \in RetryConfigs
    /\ ready \in BOOLEAN
    /\ termReq \in BOOLEAN
    /\ unit \in {"awaiting", "running", "terminated"}
    /\ consumer \in {"none", "consuming", "sleeping", "done"}

TypeData ==
    /\ retryCount \in 0..cfg.maxRetries
    /\ delay \in Nat
    /\ msgCount \in 0..MaxMessages
    /\ attempts \in Nat
    /\ sent \in Nat
    /\ sentAtTerm \in Nat

(* The inductive invariant behind RetryBudgetExact.                        *)
IInv == TypeOK /\ AttemptsTrack

-----------------------------------------------------------------------------
(* What a retry configuration holds, as the provers need it.              *)
LEMMA CfgFacts == ASSUME NEW c \in RetryConfigs
                  PROVE  /\ c.maxRetries \in Nat
                         /\ c.initialDelay \in Nat
                         /\ c.maxDelay \in Nat
                         /\ c.num \in Nat \ {0}
                         /\ c.den \in Nat \ {0}
  <1>1. c \in RetryConfig
    BY KafkaConstantsAssumption
  <1>2. QED
    BY <1>1 DEF RetryConfig

(* The message bound is a positive number.                                *)
LEMMA MaxMessagesFact == MaxMessages \in Nat \ {0}
  BY KafkaConstantsAssumption

(* The initial states are well typed.                                      *)
LEMMA TypeInit == Init => TypeOK
  <1> SUFFICES ASSUME Init PROVE TypeOK
    OBVIOUS
  <1>1. cfg.maxRetries \in Nat
    BY CfgFacts DEF Init
  <1>2. TypeCtrl
    BY DEF Init, TypeCtrl
  <1>3. TypeData
    BY <1>1, MaxMessagesFact DEF Init, TypeData
  <1>4. QED
    BY <1>2, <1>3, Zenon DEF TypeOK, TypeCtrl, TypeData

(* Every step keeps the variables in their types.                          *)
LEMMA TypeStep == TypeOK /\ [Next]_vars => TypeOK'
  <1> SUFFICES ASSUME TypeOK, [Next]_vars PROVE TypeOK'
    OBVIOUS
  <1>0. /\ cfg.maxRetries \in Nat
        /\ cfg.initialDelay \in Nat
        /\ cfg.maxDelay \in Nat
        /\ cfg.num \in Nat \ {0}
        /\ cfg.den \in Nat \ {0}
    BY CfgFacts DEF TypeOK
  <1>1. CASE BecomeReady
    <2>1. /\ ready' = TRUE
          /\ UNCHANGED <<cfg, termReq, unit, consumer, retryCount, delay,
                         msgCount, attempts, sent, sentAtTerm>>
      BY <1>1, Zenon DEF BecomeReady, taskVars
    <2>2. TypeCtrl'
      BY <2>1 DEF TypeOK, TypeCtrl
    <2>3. TypeData'
      BY <2>1 DEF TypeOK, TypeData
    <2>4. QED
      BY <2>2, <2>3, Zenon DEF TypeOK, TypeCtrl, TypeData
  <1>2. CASE RequestTermination
    <2>1. /\ termReq' = TRUE
          /\ UNCHANGED <<cfg, ready, unit, consumer, retryCount, delay,
                         msgCount, attempts, sent, sentAtTerm>>
      BY <1>2, Zenon DEF RequestTermination, taskVars
    <2>2. TypeCtrl'
      BY <2>1 DEF TypeOK, TypeCtrl
    <2>3. TypeData'
      BY <2>1 DEF TypeOK, TypeData
    <2>4. QED
      BY <2>2, <2>3, Zenon DEF TypeOK, TypeCtrl, TypeData
  <1>3. CASE StartRunning
    <2>1. /\ unit' = "running"
          /\ consumer' = "consuming"
          /\ retryCount' = 0
          /\ delay' = cfg.initialDelay
          /\ msgCount' = 0
          /\ attempts' = 1
          /\ UNCHANGED <<cfg, ready, termReq, sent, sentAtTerm>>
      BY <1>3, Zenon DEF StartRunning, envVars
    <2>2. TypeCtrl'
      BY <1>0, <2>1 DEF TypeOK, TypeCtrl
    <2>3. TypeData'
      <3>1. cfg' = cfg
        BY <2>1
      <3>2. QED
        BY <1>0, <2>1, <3>1, MaxMessagesFact DEF TypeOK, TypeData
    <2>4. QED
      BY <2>2, <2>3, Zenon DEF TypeOK, TypeCtrl, TypeData
  <1>4. CASE GateTerminated \/ ConsumerTaskCompleted
    <2>1. /\ unit' = "terminated"
          /\ sentAtTerm' = sent
          /\ UNCHANGED <<cfg, ready, termReq, consumer, retryCount, delay,
                         msgCount, attempts, sent>>
      BY <1>4, Zenon DEF GateTerminated, ConsumerTaskCompleted, envVars,
                         taskVars
    <2>2. TypeCtrl'
      BY <2>1 DEF TypeOK, TypeCtrl
    <2>3. TypeData'
      BY <2>1 DEF TypeOK, TypeData
    <2>4. QED
      BY <2>2, <2>3, Zenon DEF TypeOK, TypeCtrl, TypeData
  <1>6. CASE Emit
    <2>1. /\ msgCount < MaxMessages
          /\ msgCount' = msgCount + 1
          /\ sent' = sent + 1
          /\ UNCHANGED <<cfg, ready, termReq, unit, consumer, retryCount,
                         delay, attempts, sentAtTerm>>
      BY <1>6, Zenon DEF Emit, envVars
    <2>2. TypeCtrl'
      BY <2>1, MaxMessagesFact DEF TypeOK, TypeCtrl
    <2>3. TypeData'
      BY <2>1, MaxMessagesFact DEF TypeOK, TypeData
    <2>4. QED
      BY <2>2, <2>3, Zenon DEF TypeOK, TypeCtrl, TypeData
  <1>7. CASE ConsumeSucceeded
    <2>1. /\ consumer' = "done"
          /\ UNCHANGED <<cfg, ready, termReq, unit, retryCount, delay,
                         msgCount, attempts, sent, sentAtTerm>>
      BY <1>7, Zenon DEF ConsumeSucceeded, envVars, taskVars
    <2>2. TypeCtrl'
      BY <2>1 DEF TypeOK, TypeCtrl
    <2>3. TypeData'
      BY <2>1 DEF TypeOK, TypeData
    <2>4. QED
      BY <2>2, <2>3, Zenon DEF TypeOK, TypeCtrl, TypeData
  <1>8. CASE ConsumeFailed
    <2>1. /\ \/ /\ retryCount >= cfg.maxRetries
                /\ consumer' = "done"
                /\ retryCount' = retryCount
             \/ /\ ~(retryCount >= cfg.maxRetries)
                /\ retryCount' = retryCount + 1
                /\ consumer' = "sleeping"
          /\ UNCHANGED <<cfg, ready, termReq, unit, delay, msgCount,
                         attempts, sent, sentAtTerm>>
      BY <1>8, Zenon DEF ConsumeFailed, RetriesExhausted, envVars
    <2>2. TypeCtrl'
      BY <1>0, <2>1 DEF TypeOK, TypeCtrl
    <2>3. TypeData'
      BY <1>0, <2>1 DEF TypeOK, TypeData
    <2>4. QED
      BY <2>2, <2>3, Zenon DEF TypeOK, TypeCtrl, TypeData
  <1>9. CASE Wake
    <2>1. /\ delay' = NextDelay(delay)
          /\ consumer' = "consuming"
          /\ msgCount' = 0
          /\ attempts' = attempts + 1
          /\ UNCHANGED <<cfg, ready, termReq, unit, retryCount, sent,
                         sentAtTerm>>
      BY <1>9, Zenon DEF Wake, envVars
    <2>2. NextDelay(delay) \in Nat
      <3>1. delay * cfg.num \in Nat
        BY <1>0 DEF TypeOK
      <3>2. (delay * cfg.num) \div cfg.den \in Nat
        BY <1>0, <3>1
      <3>3. QED
        BY <1>0, <3>2 DEF NextDelay, MinOf
    <2>3. TypeCtrl'
      BY <2>1, <2>2 DEF TypeOK, TypeCtrl
    <2>4. TypeData'
      BY <2>1, <2>2, MaxMessagesFact DEF TypeOK, TypeData
    <2>5. QED
      BY <2>3, <2>4, Zenon DEF TypeOK, TypeCtrl, TypeData
  <1>10. CASE UNCHANGED vars
    BY <1>10 DEF vars, TypeOK
  <1>11. QED
    BY <1>1, <1>2, <1>3, <1>4, <1>6, <1>7, <1>8, <1>9, <1>10 DEF Next

(* Type correctness of the unit and its consumer task.                     *)
THEOREM TypeCorrect == Spec => []TypeOK
  BY TypeInit, TypeStep, PTL DEF Spec

-----------------------------------------------------------------------------
(* The initial states satisfy the inductive invariant.                     *)
LEMMA IInvInit == Init => IInv
  BY TypeInit DEF Init, IInv, AttemptsTrack

(* Every step keeps the inductive invariant.                               *)
LEMMA IInvStep == IInv /\ [Next]_vars => IInv'
  <1> SUFFICES ASSUME TypeOK, AttemptsTrack, [Next]_vars
               PROVE  AttemptsTrack'
    BY TypeStep DEF IInv
  <1>0. retryCount \in 0..cfg.maxRetries /\ cfg.maxRetries \in Nat
    BY CfgFacts DEF TypeOK
  <1>1. CASE BecomeReady \/ RequestTermination \/ GateTerminated
             \/ ConsumerTaskCompleted
    <2>1. UNCHANGED <<cfg, consumer, retryCount, msgCount, attempts>>
      BY <1>1, Zenon DEF BecomeReady, RequestTermination, GateTerminated,
                         ConsumerTaskCompleted, taskVars, envVars
    <2>2. QED
      BY <2>1 DEF AttemptsTrack
  <1>3. CASE StartRunning
    <2>1. /\ consumer' = "consuming"
          /\ retryCount' = 0
          /\ attempts' = 1
      BY <1>3, Zenon DEF StartRunning
    <2>2. QED
      BY <2>1 DEF AttemptsTrack
  <1>6. CASE Emit
    <2>1. /\ consumer = "consuming"
          /\ UNCHANGED <<cfg, consumer, retryCount, attempts>>
      BY <1>6, Zenon DEF Emit, envVars
    <2>2. QED
      BY <2>1 DEF AttemptsTrack
  <1>7. CASE ConsumeSucceeded
    <2>1. /\ consumer = "consuming"
          /\ msgCount = MaxMessages
          /\ consumer' = "done"
          /\ UNCHANGED <<cfg, retryCount, msgCount, attempts>>
      BY <1>7, Zenon DEF ConsumeSucceeded, envVars, taskVars
    <2>2. QED
      BY <2>1, MaxMessagesFact DEF AttemptsTrack
  <1>8. CASE ConsumeFailed
    <2>1. /\ consumer = "consuming"
          /\ msgCount < MaxMessages
          /\ UNCHANGED <<cfg, msgCount, attempts>>
      BY <1>8, Zenon DEF ConsumeFailed, envVars
    <2>2. attempts = retryCount + 1
      BY <2>1 DEF AttemptsTrack
    <2>3. CASE RetriesExhausted
      <3>1. /\ consumer' = "done"
            /\ retryCount' = retryCount
        BY <1>8, <2>3, Zenon DEF ConsumeFailed
      <3>2. retryCount = cfg.maxRetries
        BY <1>0, <2>3 DEF RetriesExhausted
      <3>3. QED
        BY <2>1, <2>2, <3>1, <3>2 DEF AttemptsTrack
    <2>4. CASE ~RetriesExhausted
      <3>1. /\ consumer' = "sleeping"
            /\ retryCount' = retryCount + 1
        BY <1>8, <2>4, Zenon DEF ConsumeFailed
      <3>2. QED
        BY <2>1, <2>2, <3>1 DEF AttemptsTrack
    <2>5. QED
      BY <2>3, <2>4
  <1>9. CASE Wake
    <2>1. /\ consumer = "sleeping"
          /\ consumer' = "consuming"
          /\ attempts' = attempts + 1
          /\ UNCHANGED <<cfg, retryCount>>
      BY <1>9, Zenon DEF Wake, envVars
    <2>2. QED
      BY <2>1 DEF AttemptsTrack
  <1>10. CASE UNCHANGED vars
    <2>1. UNCHANGED <<cfg, consumer, retryCount, msgCount, attempts>>
      BY <1>10, Zenon DEF vars
    <2>2. QED
      BY <2>1 DEF AttemptsTrack
  <1>11. QED
    BY <1>1, <1>3, <1>6, <1>7, <1>8, <1>9, <1>10 DEF Next

(* The inductive invariant implies the exact retry budget.                 *)
LEMMA IInvBudget == IInv => RetryBudgetExact
  <1> SUFFICES ASSUME TypeOK, AttemptsTrack PROVE RetryBudgetExact
    BY DEF IInv
  <1>1. retryCount \in 0..cfg.maxRetries /\ cfg.maxRetries \in Nat
    BY CfgFacts DEF TypeOK
  <1>2. consumer \in {"none", "consuming", "sleeping", "done"}
    BY DEF TypeOK
  <1>3. QED
    BY <1>1, <1>2 DEF AttemptsTrack, RetryBudgetExact

(* The consumer task makes at most max_retries + 1 run_consumer calls, and *)
(* exactly that many when it gives up on a failure.                        *)
THEOREM RetryBudgetInvariant == Spec => []RetryBudgetExact
  <1>1. Spec => []IInv
    BY IInvInit, IInvStep, PTL DEF Spec
  <1>2. QED
    BY <1>1, IInvBudget, PTL
-----------------------------------------------------------------------------
(* The backoff.  When initial_delay_ms <= max_delay_ms every delay stays   *)
(* within max_delay_ms, and before run starts the consumer task does not   *)
(* exist; with a multiplier of at least 1 each update then lengthens the   *)
(* delay or keeps it.                                                      *)
DelayCapped == cfg.initialDelay <= cfg.maxDelay => delay <= cfg.maxDelay

AwaitingIdle == unit = "awaiting" => consumer = "none"

BInv == TypeOK /\ DelayCapped /\ AwaitingIdle

(* The backoff step is a natural number within max_delay_ms, and at least  *)
(* the delay it updates when that delay is within the cap and the          *)
(* multiplier is at least 1.                                               *)
LEMMA NextDelayBounds ==
    ASSUME cfg \in RetryConfigs, NEW d \in Nat
    PROVE  /\ NextDelay(d) \in Nat
           /\ NextDelay(d) <= cfg.maxDelay
           /\ (d <= cfg.maxDelay /\ cfg.num >= cfg.den) => NextDelay(d) >= d
  <1>0. /\ cfg.maxDelay \in Nat
        /\ cfg.num \in Nat \ {0}
        /\ cfg.den \in Nat \ {0}
    BY CfgFacts
  <1>1. d * cfg.num \in Nat
    BY <1>0
  <1>2. (d * cfg.num) \div cfg.den \in Nat
    BY <1>0, <1>1
  <1>3. NextDelay(d) \in Nat /\ NextDelay(d) <= cfg.maxDelay
    BY <1>0, <1>2 DEF NextDelay, MinOf
  <1>4. ASSUME d <= cfg.maxDelay, cfg.num >= cfg.den PROVE NextDelay(d) >= d
    <2>1. d * (cfg.num - cfg.den) \in Nat
      BY <1>0, <1>4
    <2>2. d * cfg.num >= d * cfg.den
      BY <1>0, <2>1
    <2>3. (d * cfg.num) \div cfg.den >= d
      BY <1>0, <1>1, <2>2
    <2>4. QED
      BY <1>0, <1>4, <2>3 DEF NextDelay, MinOf
  <1>5. QED
    BY <1>3, <1>4

(* The initial states satisfy BInv.                                        *)
LEMMA BInvInit == Init => BInv
  <1> SUFFICES ASSUME Init PROVE BInv
    OBVIOUS
  <1>1. cfg.maxDelay \in Nat
    BY CfgFacts DEF Init
  <1>2. QED
    BY <1>1, TypeInit DEF Init, BInv, DelayCapped, AwaitingIdle

(* Every step keeps BInv.                                                  *)
LEMMA BInvStep == BInv /\ [Next]_vars => BInv'
  <1> SUFFICES ASSUME BInv, [Next]_vars PROVE BInv'
    OBVIOUS
  <1>0. TypeOK /\ TypeOK' /\ cfg \in RetryConfigs /\ delay \in Nat
    BY TypeStep DEF BInv, TypeOK
  <1>1. CASE StartRunning
    <2>1. /\ unit' = "running"
          /\ delay' = cfg.initialDelay
          /\ cfg' = cfg
      BY <1>1, Zenon DEF StartRunning, envVars
    <2>2. QED
      BY <2>1, <1>0 DEF BInv, DelayCapped, AwaitingIdle
  <1>2. CASE Wake
    <2>1. /\ unit \notin {"awaiting"} /\ unit' = unit
          /\ delay' = NextDelay(delay)
          /\ cfg' = cfg
      BY <1>2, Zenon DEF Wake, envVars, BInv, AwaitingIdle
    <2>2. NextDelay(delay) <= cfg.maxDelay
      BY <1>0, NextDelayBounds
    <2>3. QED
      BY <2>1, <2>2, <1>0 DEF BInv, DelayCapped, AwaitingIdle
  <1>3. CASE ConsumeFailed
    <2>1. /\ unit \notin {"awaiting"} /\ unit' = unit
          /\ UNCHANGED <<cfg, delay>>
      BY <1>3, Zenon DEF ConsumeFailed, envVars, BInv, AwaitingIdle
    <2>2. QED
      BY <2>1, <1>0 DEF BInv, DelayCapped, AwaitingIdle
  <1>4. CASE \/ BecomeReady \/ RequestTermination \/ GateTerminated
             \/ ConsumerTaskCompleted \/ Emit \/ ConsumeSucceeded
    <2>1. /\ unit' \in {unit, "terminated"}
          /\ (consumer' = consumer \/ unit \notin {"awaiting"})
          /\ UNCHANGED <<cfg, delay>>
      BY <1>4, Zenon DEF BecomeReady, RequestTermination, GateTerminated,
                         ConsumerTaskCompleted, Emit, ConsumeSucceeded,
                         envVars, taskVars, BInv, AwaitingIdle
    <2>2. QED
      BY <2>1, <1>0 DEF BInv, DelayCapped, AwaitingIdle
  <1>5. CASE UNCHANGED vars
    BY <1>5, <1>0 DEF vars, BInv, DelayCapped, AwaitingIdle
  <1>6. QED
    BY <1>1, <1>2, <1>3, <1>4, <1>5 DEF Next

(* A step from a BInv state never shortens the backoff.                    *)
LEMMA BackoffStep ==
    BInv /\ [Next]_vars
      => [(/\ cfg.initialDelay <= cfg.maxDelay
           /\ cfg.num >= cfg.den
           /\ consumer = "sleeping" /\ consumer' = "consuming")
            => delay' >= delay]_vars
  <1> SUFFICES ASSUME BInv, [Next]_vars,
                      cfg.initialDelay <= cfg.maxDelay, cfg.num >= cfg.den,
                      consumer = "sleeping", consumer' = "consuming"
               PROVE  delay' >= delay
    OBVIOUS
  <1>0. cfg \in RetryConfigs /\ delay \in Nat /\ delay <= cfg.maxDelay
    BY DEF BInv, TypeOK, DelayCapped
  <1>1. Wake
    <2>1. unit # "awaiting"
      BY DEF BInv, AwaitingIdle
    <2>2. ~StartRunning
      BY <2>1 DEF StartRunning
    <2>3. ~(\/ BecomeReady \/ RequestTermination \/ GateTerminated
            \/ ConsumerTaskCompleted \/ Emit \/ ConsumeSucceeded
            \/ ConsumeFailed \/ UNCHANGED vars)
      BY Zenon DEF BecomeReady, RequestTermination, GateTerminated,
                   ConsumerTaskCompleted, Emit, ConsumeSucceeded,
                   ConsumeFailed, vars
    <2>4. QED
      BY <2>2, <2>3 DEF Next
  <1>2. delay' = NextDelay(delay)
    BY <1>1, Zenon DEF Wake
  <1>3. QED
    BY <1>0, <1>2, NextDelayBounds

(* With initial_delay_ms <= max_delay_ms and a multiplier of at least 1,   *)
(* the consumer task's backoff never shortens, for every configuration.    *)
THEOREM BackoffMonotone == Spec => BackoffNonDecreasing
  <1>1. Spec => []BInv
    BY BInvInit, BInvStep, PTL DEF Spec
  <1>2. QED
    BY <1>1, BackoffStep, PTL DEF Spec, BackoffNonDecreasing
-----------------------------------------------------------------------------
(* The refinement of RetryLoop under TaskPhase.                            *)

(* A step that leaves the configuration, the task's place, its message     *)
(* count and its calls alone is a stutter of RetryLoop.                    *)
LEMMA LoopStutter ==
    ASSUME UNCHANGED <<cfg, consumer, msgCount, attempts>>
    PROVE  [Loop!Next]_Loop!rvars
  BY DEF Loop!rvars, TaskPhase

(* Every step from a state satisfying both invariants is a step of         *)
(* RetryLoop or a stutter.                                                 *)
LEMMA LoopStep == IInv /\ BInv /\ [Next]_vars => [Loop!Next]_Loop!rvars
  <1> SUFFICES ASSUME IInv, BInv, [Next]_vars PROVE [Loop!Next]_Loop!rvars
    OBVIOUS
  <1>0. /\ cfg.maxRetries \in Nat /\ MaxMessages \in Nat \ {0}
        /\ retryCount \in 0..cfg.maxRetries /\ msgCount \in 0..MaxMessages
        /\ attempts \in Nat
    BY CfgFacts, MaxMessagesFact DEF IInv, TypeOK
  <1>1. CASE \/ BecomeReady \/ RequestTermination \/ GateTerminated
             \/ ConsumerTaskCompleted
    <2>1. UNCHANGED <<cfg, consumer, msgCount, attempts>>
      BY <1>1, Zenon DEF BecomeReady, RequestTermination, GateTerminated,
                         ConsumerTaskCompleted, envVars, taskVars
    <2>2. QED BY <2>1, LoopStutter
  <1>2. CASE Emit
    <2>1. /\ consumer = "consuming"
          /\ UNCHANGED <<cfg, consumer, attempts>>
      BY <1>2, Zenon DEF Emit, envVars
    <2>2. TaskPhase' = TaskPhase
      BY <2>1 DEF TaskPhase
    <2>3. QED BY <2>1, <2>2 DEF Loop!rvars
  <1>3. CASE StartRunning
    <2>1. /\ unit = "awaiting"
          /\ consumer' = "consuming" /\ attempts' = 1 /\ cfg' = cfg
      BY <1>3, Zenon DEF StartRunning, envVars
    <2>2. consumer = "none" /\ attempts = 0
      BY <2>1 DEF BInv, AwaitingIdle, IInv, AttemptsTrack
    <2>3. TaskPhase = "idle" /\ TaskPhase' = "calling"
      BY <2>1, <2>2 DEF TaskPhase
    <2>4. Loop!Start
      BY <2>1, <2>2, <2>3 DEF Loop!Start
    <2>5. QED BY <2>4 DEF Loop!Next
  <1>4. CASE ConsumeSucceeded
    <2>1. /\ consumer = "consuming" /\ msgCount = MaxMessages
          /\ consumer' = "done"
          /\ UNCHANGED <<cfg, msgCount, attempts>>
      BY <1>4, Zenon DEF ConsumeSucceeded, envVars, taskVars
    <2>2. TaskPhase = "calling" /\ TaskPhase' = "succeeded"
      BY <1>0, <2>1 DEF TaskPhase
    <2>3. Loop!Succeed
      BY <2>1, <2>2 DEF Loop!Succeed
    <2>4. QED BY <2>3 DEF Loop!Next
  <1>5. CASE ConsumeFailed
    <2>1. /\ consumer = "consuming" /\ msgCount < MaxMessages
          /\ UNCHANGED <<cfg, msgCount, attempts>>
      BY <1>5, Zenon DEF ConsumeFailed, envVars
    <2>2. attempts = retryCount + 1 /\ TaskPhase = "calling"
      BY <2>1 DEF IInv, AttemptsTrack, TaskPhase
    <2>3. CASE RetriesExhausted
      <3>1. consumer' = "done"
        BY <1>5, <2>3, Zenon DEF ConsumeFailed
      <3>2. TaskPhase' = "failed"
        BY <2>1, <3>1 DEF TaskPhase
      <3>3. attempts = cfg.maxRetries + 1
        BY <1>0, <2>2, <2>3 DEF RetriesExhausted
      <3>4. Loop!GiveUp
        BY <2>1, <2>2, <3>2, <3>3 DEF Loop!GiveUp
      <3>5. QED BY <3>4 DEF Loop!Next
    <2>4. CASE ~RetriesExhausted
      <3>1. consumer' = "sleeping"
        BY <1>5, <2>4, Zenon DEF ConsumeFailed
      <3>2. TaskPhase' = "waiting"
        BY <3>1 DEF TaskPhase
      <3>3. attempts <= cfg.maxRetries
        BY <1>0, <2>2, <2>4 DEF RetriesExhausted
      <3>4. Loop!Fail
        BY <2>1, <2>2, <3>2, <3>3 DEF Loop!Fail
      <3>5. QED BY <3>4 DEF Loop!Next
    <2>5. QED BY <2>3, <2>4
  <1>6. CASE Wake
    <2>1. /\ consumer = "sleeping" /\ consumer' = "consuming"
          /\ attempts' = attempts + 1 /\ cfg' = cfg
      BY <1>6, Zenon DEF Wake, envVars
    <2>2. TaskPhase = "waiting" /\ TaskPhase' = "calling"
      BY <2>1 DEF TaskPhase
    <2>3. Loop!Retry
      BY <2>1, <2>2 DEF Loop!Retry
    <2>4. QED BY <2>3 DEF Loop!Next
  <1>7. CASE UNCHANGED vars
    BY <1>7, LoopStutter DEF vars
  <1>8. QED
    BY <1>1, <1>2, <1>3, <1>4, <1>5, <1>6, <1>7 DEF Next

(* The consumer task implements the bounded retry loop, for every retry    *)
(* configuration and message bound.                                        *)
THEOREM RetryLoopRefinement == Spec => ImplementsRetryLoop
  <1>1. Init => Loop!Init
    <2> SUFFICES ASSUME Init PROVE Loop!Init
      OBVIOUS
    <2>1. cfg.maxRetries \in Nat
      BY CfgFacts DEF Init
    <2>2. QED
      BY <2>1 DEF Init, Loop!Init, TaskPhase
  <1>2. Spec => []IInv
    BY IInvInit, IInvStep, PTL DEF Spec
  <1>3. Spec => []BInv
    BY BInvInit, BInvStep, PTL DEF Spec
  <1>4. QED
    BY <1>1, <1>2, <1>3, LoopStep, PTL DEF Spec, ImplementsRetryLoop, Loop!Spec
=============================================================================
