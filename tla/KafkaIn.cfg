CONSTANTS
    RetryConfigs <- MCRetryConfigs
    MaxMessages = 2
SPECIFICATION Spec
INVARIANTS TypeOK
INVARIANTS RetryBudgetExact
PROPERTY TaskEndLeadsToTermination
PROPERTY BackoffNonDecreasing
PROPERTY ImplementsRetryLoop
CHECK_DEADLOCK FALSE
