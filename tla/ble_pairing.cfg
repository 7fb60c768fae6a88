SPECIFICATION FairSpec
CONSTANTS
    MaxAttempts = 1
    MaxRequests = 2
    MaxLosses = 1
    MaxLoops = 2
INVARIANTS OffStaysOff NeverRefused NoAnswerKept
PROPERTY ChannelIsUsed
CHECK_DEADLOCK FALSE
