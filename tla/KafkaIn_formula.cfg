CONSTANTS
    RetryConfigs <- MCFractionalConfigs
    MaxMessages = 2
SPECIFICATION Spec
INVARIANT DelayMatchesSpec
CHECK_DEADLOCK FALSE
