CONSTANTS
    RetryConfigs <- MCRetryConfigs
    MaxMessages = 2
SPECIFICATION Spec
INVARIANT SleepWithinMaxDelay
CHECK_DEADLOCK FALSE
