SPECIFICATION FairSpec
CONSTANTS
    MaxSeqGap = 3
    Ble = TRUE
    MaxSent = 3
    MaxQueue = 3
    MaxDrops = 2
INVARIANTS DeliveryInv ConfirmedMeansAgreed
PROPERTIES DeliveredInOrder PcNeverAhead RelayHandshakeCompletes
CHECK_DEADLOCK FALSE
