SPECIFICATION FairSpec
CONSTANTS
    MaxSeqGap = 2
    Ble = TRUE
    MaxSent = 2
    MaxQueue = 3
    MaxDrops = 1
PROPERTY HandshakeCompletes
CHECK_DEADLOCK FALSE
