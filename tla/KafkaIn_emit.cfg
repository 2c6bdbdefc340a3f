CONSTANTS
    RetryConfigs <- MCRetryConfigs
    MaxMessages = 2
SPECIFICATION Spec
INVARIANT NoEmitAfterTermination
CHECK_DEADLOCK FALSE
