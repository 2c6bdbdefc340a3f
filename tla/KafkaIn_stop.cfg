CONSTANTS
    RetryConfigs <- MCRetryConfigs
    MaxMessages = 2
SPECIFICATION Spec
INVARIANT UnitEndsOnlyOnStopOrFailure
CHECK_DEADLOCK FALSE
