SPECIFICATION FairSpec
CONSTANTS
    MaxAttempts = 2
    MaxQueue = 2
    MaxFails = 3
INVARIANTS OneAttempt SecureSessionIsSafe 
PROPERTY ConnectingEnds
