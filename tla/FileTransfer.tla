---------------------------- MODULE FileTransfer ----------------------------
(***************************************************************************)
(* The two directions of the file transfer, which share no state: a        *)
(* behaviour is one of FileUpload or one of FileDownload, and the other    *)
(* direction stands still.                                                 *)
(***************************************************************************)
EXTENDS FileUpload

CONSTANT
    Offered \* per batch of the PC, what the user may choose: FileDownload's Selections

ASSUME FileTransferAssumption == Offered \in Seq(SUBSET Seq(Nat))

VARIABLES
    direction, \* the one that moves
    \* FileDownload's, with a d where FileUpload has one of that name
    dRun, dGen, cancelled, dPaused, awaiting, active, dUp, gone, dChan, incoming, batch,
    dHide, downloads, aborted, dMishaps, dFaults

Down == INSTANCE FileDownload WITH
    Selections <- Offered, run <- dRun, gen <- dGen, paused <- dPaused, up <- dUp,
    chan <- dChan, hide <- dHide, mishaps <- dMishaps, faults <- dFaults

downVars == <<dRun, dGen, cancelled, dPaused, awaiting, active, dUp, gone, dChan, incoming,
              batch, dHide, downloads, aborted, dMishaps, dFaults>>

TransferInit ==
    /\ direction \in {"up", "down"}
    /\ Init /\ Down!Init

TransferNext ==
    /\ UNCHANGED direction
    /\ \/ direction = "up" /\ Next /\ UNCHANGED downVars
       \/ direction = "down" /\ Down!Next /\ UNCHANGED vars

\* No task of a direction that stands still is under way, so that both are fair.
TransferSpec ==
    /\ TransferInit /\ [][TransferNext]_<<direction, vars, downVars>>
    /\ Fairness /\ Down!Fairness

\* FileDownload's properties, each stated there.
DownloadsAreWhole == Down!DownloadsAreWhole
NothingKept == Down!NothingKept
ReceivedIsShown == Down!ReceivedIsShown
NoDownloadAfterAbort == Down!NoDownloadAfterAbort
DownloadEnds == Down!DownloadEnds
=============================================================================
