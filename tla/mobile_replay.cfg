SPECIFICATION Spec
CONSTANTS
    MaxAttempts = 2
    MaxQueue = 2
    MaxFails = 3
INVARIANT BufferedReplays
CHECK_DEADLOCK FALSE
