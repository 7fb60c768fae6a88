SPECIFICATION TransferSpec
CONSTANTS
    Concurrency = 2
    Idle = Idle
    Selections <- Selected
    Offered <- Chosen
    MaxBatches = 2
    MaxEvents = 2
    MaxWaiting = 3
INVARIANTS  CompletedMeansSent NothingLeftOver
   
PROPERTIES UploadEnds NoDownloadAfterAbort DownloadEnds
CHECK_DEADLOCK FALSE
