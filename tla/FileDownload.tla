---------------------------- MODULE FileDownload ----------------------------
(***************************************************************************)
(* A batch of files from the PC to the phone: MainWindow.TransferUi.cs on  *)
(* the PC, the file commands of useWebSocket.ts on the phone.              *)
(*                                                                         *)
(* SendFilesToMobileAsync is a coroutine that sends one chunk after the    *)
(* other; everything between two awaits is one action.  The coroutines of  *)
(* all the batches share three fields: cancelRequested, outgoingPaused and *)
(* the task that a paused one awaits.  A chunk is its number; a file is    *)
(* <<batch, place in the batch>>.                                          *)
(*                                                                         *)
(* As in FileUpload, "mishaps" names the defects of the code that have     *)
(* shown, and a property makes an exception of those that can break it.    *)
(***************************************************************************)
EXTENDS Naturals, Sequences, FiniteSets

CONSTANTS
    Selections, \* per batch, what the user may choose: sequences of numbers of chunks
    MaxEvents   \* bound: batches, broken connections and clean-ups

Batches == 1 .. Len(Selections)

VARIABLES
    \* the PC
    run,        \* per batch: where its coroutine is, its files, the current one, chunks read
    gen,        \* batches started
    cancelled,  \* _outgoingTransferCancelRequested
    paused,     \* _outgoingTransferPaused
    awaiting,   \* the batches that await _outgoingTransferResumeTcs
    active,     \* _activeOutgoingTransferId
    \* the connection
    up,         \* SendToMobileAsync can send
    gone,       \* the phone has left and the PC has not handled it
    chan,       \* messages on the way to the phone
    \* the phone
    incoming,   \* incomingFilesRef: the chunks of the files that are being received
    batch,      \* incomingTransferBatch: its status and that of its files
    hide,       \* incomingTransferHideTimerRef is running
    downloads,  \* the files handed to triggerFileDownload
    \* history
    aborted,    \* the files whose abort the phone has handled
    mishaps,    \* the defects that have shown
    faults

pcVars == <<run, gen, cancelled, paused, awaiting, active>>
linkVars == <<up, gone, chan>>
phoneVars == <<incoming, batch, hide, downloads, aborted>>
vars == <<pcVars, linkVars, phoneVars, mishaps, faults>>

Mishaps == {"late", "overlap", "stranded", "cleanup"}

NoFile == <<0, 0>>
NoBatch == [status |-> "none", files |-> <<>>]

Files(b) == run[b].files
File(b) == <<b, run[b].k>>
Size(b) == Files(b)[run[b].k]

Init ==
    /\ run = [b \in Batches |-> [at |-> "none", files |-> <<>>, k |-> 0, idx |-> 0]]
    /\ gen = 0 /\ cancelled = FALSE /\ paused = FALSE /\ awaiting = {} /\ active = NoFile
    /\ up = TRUE /\ gone = FALSE /\ chan = <<>>
    /\ incoming = <<>> /\ batch = NoBatch /\ hide = FALSE /\ downloads = {}
    /\ aborted = {} /\ mishaps = {} /\ faults = 0

-----------------------------------------------------------------------------
(* The PC *)

Message(kind, f, idx, last) == [kind |-> kind, file |-> f, idx |-> idx, last |-> last]

\* SendToMobileAsync, which returns whether it could send.
Send(m) == chan' = IF up THEN Append(chan, m) ELSE chan

pcRest == <<up, gone, phoneVars, faults>>

\* Where a batch is that has not begun, has come to its end, or whose current file could
\* not be read.
Ended == {"none", "over", "failed"}

\* SendFilesToMobileAsync: the fields are reset, whatever still runs.
SendFiles(files) ==
    LET b == gen + 1 IN
    /\ up /\ files # <<>> /\ gen + faults < MaxEvents
    /\ gen' = b /\ cancelled' = FALSE /\ paused' = FALSE
    /\ awaiting' = {} /\ active' = NoFile
    /\ run' = [run EXCEPT ![b] = [at |-> "next", files |-> files, k |-> 0, idx |-> 0]]
    /\ mishaps' = mishaps
         \cup (IF \E c \in Batches : run[c].at \notin Ended
               THEN {"overlap"} ELSE {})
         \cup (IF awaiting # {} THEN {"stranded"} ELSE {})
    /\ UNCHANGED <<chan, pcRest>>

\* SendFileToMobileAsync: it announces the file.
StartFile(b) ==
    LET f == <<b, run[b].k + 1>> IN
    /\ run[b].at = "next"
    /\ Send(Message("file_start", f, 0, FALSE))
    /\ run' = [run EXCEPT ![b].at = IF up THEN "read" ELSE "over", ![b].k = @ + 1,
                          ![b].idx = 0]
    /\ active' = f
    /\ UNCHANGED <<gen, cancelled, paused, awaiting, mishaps, pcRest>>

\* Mutant of IsLast: one too early.
OneEarly(b) == run[b].idx + 2 >= Size(b)

\* An empty file has one empty chunk.
IsLast(b) == run[b].idx + 1 >= Size(b)

\* The chunk that has been read is sent, and the next one read, if there is one.
SendChunk(b) ==
    /\ Send(Message("file_chunk", File(b), run[b].idx, IsLast(b)))
    /\ IF ~up THEN run' = [run EXCEPT ![b].at = "over"]
       ELSE run' = [run EXCEPT ![b].at = IF IsLast(b) THEN "end" ELSE "read",
                               ![b].idx = @ + 1]

\* Mutant of Read: the cancellation is not looked at.
ReadOn(b) ==
    /\ run[b].at = "read"
    /\ IF paused /\ Size(b) > 0
       THEN /\ run' = [run EXCEPT ![b].at = "waiting"] /\ awaiting' = awaiting \cup {b}
            /\ UNCHANGED chan
       ELSE SendChunk(b) /\ UNCHANGED awaiting
    /\ UNCHANGED <<gen, cancelled, paused, active, mishaps, pcRest>>

\* A chunk has been read: a cancelled file is aborted, a paused one waits.
Read(b) ==
    /\ run[b].at = "read"
    /\ IF cancelled
       THEN /\ Send(Message("file_abort", File(b), 0, FALSE))
            /\ run' = [run EXCEPT ![b].at = "over"] /\ UNCHANGED awaiting
       ELSE IF paused /\ Size(b) > 0
       THEN /\ run' = [run EXCEPT ![b].at = "waiting"] /\ awaiting' = awaiting \cup {b}
            /\ UNCHANGED chan
       ELSE SendChunk(b) /\ UNCHANGED awaiting
    /\ UNCHANGED <<gen, cancelled, paused, active, mishaps, pcRest>>

\* The task is completed: the chunk is sent, and nobody looks at cancelRequested.
Resumed(b) ==
    /\ run[b].at = "waiting" /\ b \notin awaiting /\ "stranded" \notin mishaps
    /\ SendChunk(b)
    /\ mishaps' = IF cancelled THEN mishaps \cup {"late"} ELSE mishaps
    /\ UNCHANGED <<gen, cancelled, paused, awaiting, active, pcRest>>

\* The end of the file: the next one, if there is one.
EndFile(b) ==
    /\ run[b].at = "end"
    /\ run' = [run EXCEPT ![b].at = IF run[b].k < Len(Files(b)) THEN "next" ELSE "over"]
    /\ active' = NoFile
    /\ UNCHANGED <<gen, cancelled, paused, awaiting, chan, mishaps, pcRest>>

\* The catch of SendFileToMobileAsync: a file that is not there any more before it is
\* announced, and then one that cannot be opened or read.  The phone is told nothing.
ReadFails(b) ==
    /\ \/ run[b].at = "next" /\ run' = [run EXCEPT ![b].at = "over"]
       \/ run[b].at = "read" /\ Size(b) > 0 /\ run' = [run EXCEPT ![b].at = "failed"]
    /\ active' = NoFile
    /\ UNCHANGED <<gen, cancelled, paused, awaiting, chan, mishaps, pcRest>>

TogglePause ==
    /\ gen > 0 /\ paused' = ~paused
    /\ awaiting' = IF paused THEN {} ELSE awaiting
    /\ UNCHANGED <<run, gen, cancelled, active, chan, mishaps, pcRest>>

\* Mutant of Cancel: what waits is not woken.
CancelAsleep ==
    /\ gen > 0 /\ ~cancelled
    /\ cancelled' = TRUE /\ paused' = FALSE
    /\ IF active # NoFile THEN Send(Message("file_abort", active, 0, FALSE))
       ELSE UNCHANGED chan
    /\ UNCHANGED <<run, gen, active, awaiting, mishaps, pcRest>>

\* TransferCancel_Click
Cancel ==
    /\ gen > 0 /\ ~cancelled
    /\ cancelled' = TRUE /\ paused' = FALSE /\ awaiting' = {}
    /\ IF active # NoFile THEN Send(Message("file_abort", active, 0, FALSE))
       ELSE UNCHANGED chan
    /\ UNCHANGED <<run, gen, active, mishaps, pcRest>>

-----------------------------------------------------------------------------
(* The connection *)

\* The connection breaks: what is on the way is lost.
Break ==
    /\ up /\ gen + faults < MaxEvents /\ faults' = faults + 1
    /\ up' = FALSE /\ gone' = TRUE /\ chan' = <<>>
    /\ UNCHANGED <<pcVars, phoneVars, mishaps>>

\* OnMobileDisconnected: CancelOngoingTransfers
PcNotices ==
    /\ gone /\ gone' = FALSE
    /\ cancelled' = TRUE /\ paused' = FALSE /\ awaiting' = {} /\ active' = NoFile
    /\ UNCHANGED <<run, gen, up, chan, phoneVars, mishaps, faults>>

\* Mutant of Forget: the files stay.
ForgetBatch == batch' = NoBatch /\ hide' = FALSE /\ UNCHANGED incoming

\* What cleanup does to the incoming files.
Forget == incoming' = <<>> /\ batch' = NoBatch /\ hide' = FALSE

\* The phone connects again, with a cleanup() before, and the session is encrypted.
Reconnect ==
    /\ ~up /\ ~gone /\ up' = TRUE
    /\ Forget
    /\ UNCHANGED <<pcVars, gone, chan, downloads, aborted, mishaps, faults>>

\* The phone's WebSocket is connected anew while Bluetooth carries the session: the same
\* cleanup, of which the PC knows nothing.
CleanUp ==
    /\ up /\ gen + faults < MaxEvents /\ faults' = faults + 1
    /\ Forget /\ mishaps' = mishaps \cup {"cleanup"}
    /\ UNCHANGED <<pcVars, linkVars, downloads, aborted>>

-----------------------------------------------------------------------------
(* The phone: the file commands of an encrypted message *)

Put(fn, f, v) == [g \in DOMAIN fn \cup {f} |-> IF g = f THEN v ELSE fn[g]]
Drop(fn, f) == [g \in DOMAIN fn \ {f} |-> fn[g]]
MarkIfThere(fn, f, v) == IF f \in DOMAIN fn THEN Put(fn, f, v) ELSE fn

\* Mutant of TakeStart: the timer that hides the batch goes on.
StartHiding(m) ==
    /\ incoming' = Put(incoming, m.file, {})
    /\ batch' = [status |-> "active",
                 files |-> Put(IF batch.status \in {"none", "completed"} THEN <<>>
                               ELSE batch.files, m.file, "active")]
    /\ UNCHANGED <<hide, downloads, aborted>>

\* file_start: a batch that is not completed goes on, a cancelled one too.
TakeStart(m) ==
    /\ incoming' = Put(incoming, m.file, {})
    /\ batch' = [status |-> "active",
                 files |-> Put(IF batch.status \in {"none", "completed"} THEN <<>>
                               ELSE batch.files, m.file, "active")]
    /\ hide' = FALSE
    /\ UNCHANGED <<downloads, aborted>>

\* What the batch shows after a chunk.
ShownAfterChunk(m) ==
    LET files == IF m.last THEN MarkIfThere(batch.files, m.file, "completed")
                 ELSE batch.files
    IN IF batch.status = "none" THEN batch
       ELSE [status |-> IF \A f \in DOMAIN files : files[f] = "completed"
                        THEN "completed" ELSE batch.status,
             files |-> files]

\* file_chunk: of a file that is not known, too.  With the last one the file is offered,
\* made of the chunks that are there.
TakeChunk(m) ==
    LET chunks == {m.idx} \cup (IF m.file \in DOMAIN incoming THEN incoming[m.file] ELSE {})
    IN
    /\ batch' = ShownAfterChunk(m)
    /\ IF m.last
       THEN /\ downloads' = downloads \cup {[file |-> m.file, chunks |-> chunks]}
            /\ incoming' = Drop(incoming, m.file) /\ hide' = TRUE
       ELSE incoming' = Put(incoming, m.file, chunks) /\ UNCHANGED <<hide, downloads>>
    /\ UNCHANGED aborted

TakeAbort(m) ==
    /\ incoming' = Drop(incoming, m.file)
    /\ batch' = IF batch.status = "none" THEN batch
                ELSE [status |-> "cancelled",
                      files |-> MarkIfThere(batch.files, m.file, "cancelled")]
    /\ hide' = TRUE /\ aborted' = aborted \cup {m.file}
    /\ UNCHANGED downloads

Receive ==
    /\ chan # <<>> /\ chan' = Tail(chan)
    /\ LET m == Head(chan) IN
       \/ m.kind = "file_start" /\ TakeStart(m)
       \/ m.kind = "file_chunk" /\ TakeChunk(m)
       \/ m.kind = "file_abort" /\ TakeAbort(m)
    /\ UNCHANGED <<pcVars, up, gone, mishaps, faults>>

\* scheduleIncomingTransferHide, after its 2.6 s
HideBatch ==
    /\ hide /\ hide' = FALSE /\ batch' = NoBatch
    /\ UNCHANGED <<pcVars, linkVars, incoming, downloads, aborted, mishaps, faults>>

-----------------------------------------------------------------------------
User ==
    \/ gen < Len(Selections) /\ \E files \in Selections[gen + 1] : SendFiles(files)
    \/ TogglePause \/ Cancel

Steps(b) == StartFile(b) \/ Read(b) \/ Resumed(b) \/ EndFile(b) \/ ReadFails(b)

Next ==
    \/ User \/ (\E b \in Batches : Steps(b)) \/ Break \/ PcNotices \/ Reconnect \/ CleanUp
    \/ Receive \/ HideBatch

Spec == Init /\ [][Next]_vars

\* The PC's dispatcher runs whatever is ready.
Fairness == \A b \in Batches : WF_vars(Steps(b))

FairSpec == Spec /\ Fairness

-----------------------------------------------------------------------------
(* Properties *)

Spared(exceptions) == mishaps \cap exceptions = {}

Chunks(f) == Files(f[1])[f[2]]

\* A file that the phone offers for download is the file that the PC read: with every
\* chunk.  Except when its first part was cleaned up, when a paused transfer sent its last
\* chunk after it was cancelled, and when a new batch took the cancellation back.
DownloadsAreWhole ==
    Spared({"late", "overlap", "cleanup"}) =>
        \A d \in downloads : \A i \in 0 .. Chunks(d.file) - 1 : i \in d.chunks

\* What was cancelled is not offered: no file is downloaded after the phone has handled
\* its abort.  Except by a chunk that a paused transfer sends after it was cancelled,
\* and when a new batch takes the cancellation back.
NoDownloadAfterAbort ==
    [][Spared({"late", "overlap"}) =>
         \A d \in downloads' \ downloads : d.file \notin aborted]_vars

Quiet == chan = <<>> /\ \A b \in Batches : run[b].at \in Ended

\* The files whose reading has failed, of which the phone was told nothing.
Unread == {File(b) : b \in {c \in Batches : run[c].at = "failed"}}

\* Once the PC has finished, the phone keeps no part of a file: it was offered, aborted
\* or cleaned up.  Except of a file that the PC could not read to its end.
NothingKept == Quiet /\ up => DOMAIN incoming \subseteq Unread

\* The user sees every file that is being received: the batch is not hidden before it
\* ends.  Except when the cleanup forgot it, a chunk comes after the abort, or two
\* batches are sent at once; a file that the PC could not read is not received any more.
ReceivedIsShown ==
    Spared({"late", "overlap", "cleanup"}) =>
        (DOMAIN incoming \ Unread # {} => batch.status = "active" /\ ~hide)

\* A batch comes to its end, a cancelled one too, unless it is left paused.  Except when
\* a new batch has replaced the task that it awaits.
DownloadEnds ==
    \A b \in Batches :
        []Spared({"stranded"})
        => (run[b].at = "waiting" ~> (run[b].at # "waiting" \/ paused))
=============================================================================
