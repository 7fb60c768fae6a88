----------------------------- MODULE FileUpload -----------------------------
(***************************************************************************)
(* A batch of files from the phone to the PC: FileTransfer.tsx on the      *)
(* phone, the file commands of MainWindow.xaml.cs on the PC.               *)
(*                                                                         *)
(* sendFiles is a coroutine: for each file it starts a few others, which   *)
(* take the next chunk, encode it in a web worker and send it.  Everything *)
(* between two awaits is one action.  All the coroutines of all the        *)
(* batches share three refs: abort, paused and the one resume function.    *)
(* A chunk is its number; a file is <<batch, place in the batch>>.         *)
(*                                                                         *)
(* The code has defects that spoil what the properties say.  "mishaps"     *)
(* names those that have happened, and a property makes an exception of    *)
(* exactly the ones that can break it.                                     *)
(***************************************************************************)
EXTENDS Naturals, Sequences, FiniteSets, Functions

CONSTANTS
    Concurrency, \* CHUNK_CONCURRENCY
    Idle,        \* no coroutine
    Selections,  \* per batch, what the user may choose: sequences of numbers of chunks
    MaxBatches,  \* bound: batches
    MaxEvents,   \* bound: batches, broken connections, unreadable chunks and unmounts
    MaxWaiting   \* bound: messages on the way

MaxRetries == 3  \* MAX_CHUNK_RETRIES

ASSUME FileUploadAssumption ==
    /\ Selections \in [1 .. MaxBatches -> SUBSET Seq(Nat)]
    /\ Concurrency \in Nat \ {0}
    /\ Idle \notin (1 .. MaxBatches) \X (1 .. Concurrency)
    /\ {MaxBatches, MaxEvents, MaxWaiting} \subseteq Nat

Batches == 1 .. MaxBatches
Senders == 1 .. Concurrency
Coroutines == Batches \X Senders

VARIABLES
    \* the phone
    status,    \* of the batch that is shown: batch.status
    abort,     \* abortRef
    paused,    \* pausedRef
    resume,    \* resumeRef: the coroutine that it wakes
    hide,      \* clearTimerRef is running
    mounted,   \* the component is on the screen
    gen,       \* batches started; the last one is the one that is shown
    run,       \* per batch: its files, the current one, nextChunkIndex, completedChunks
    worker,    \* per coroutine: where it is, its chunk, the attempts made
    \* the connection
    up,        \* the phone takes it for usable
    wire,      \* it is
    held,      \* commands that wait for the reconnection
    chan,      \* messages on the way to the PC
    \* the PC
    transfers, \* _fileTransfers: the chunks of the files that are being received
    saved,     \* the files handed to HandleReceivedFile
    \* history
    accepted,  \* the chunks whose sending succeeded
    mishaps,   \* the defects that have shown
    faults

phoneVars == <<status, abort, paused, resume, hide>>
linkVars == <<up, wire, held, chan>>
pcVars == <<transfers, saved>>
vars == <<phoneVars, mounted, gen, run, worker, linkVars, pcVars, accepted, mishaps,
          faults>>

Mishaps == {"disorder", "resent", "unread", "overlap", "lost wakeup", "empty",
            "break", "unmount"}
Busy == {"active", "paused"}

Size(r, k) == run[r].files[k]
File(r) == <<r, run[r].k>>

NoRun == [at |-> "none", files |-> <<>>, k |-> 0, next |-> 0, completed |-> 0]
NoWorker == [at |-> "done", idx |-> 0, tries |-> 0]

Init ==
    /\ status = "none" /\ abort = FALSE /\ paused = FALSE /\ resume = Idle
    /\ hide = FALSE /\ mounted = TRUE /\ gen = 0
    /\ run = [r \in Batches |-> NoRun] /\ worker = [c \in Coroutines |-> NoWorker]
    /\ up = TRUE /\ wire = TRUE /\ held = <<>> /\ chan = <<>>
    /\ transfers = <<>> /\ saved = {} /\ accepted = {} /\ mishaps = {} /\ faults = 0

-----------------------------------------------------------------------------
(* Sending *)

Message(kind, f, idx, last) == [kind |-> kind, file |-> f, idx |-> idx, last |-> last]
Start(f) == Message("file_start", f, 0, FALSE)
Abort(f) == Message("file_abort", f, 0, FALSE)

\* Mutant of IsLast: one too early.
OneEarly(idx, size) == idx + 2 >= size

\* isLast, of the chunks 0 .. size - 1
IsLast(idx, size) == idx = size - 1

\* onSendCommand, which succeeds if and only if the phone takes the connection for
\* usable.  Otherwise the commands are queued.
Send(cmds) ==
    \/ /\ up /\ Len(chan) + Len(cmds) <= MaxWaiting
       /\ chan' = (IF wire THEN chan \o cmds ELSE chan) /\ UNCHANGED held
    \/ ~up /\ held' = held \o cmds /\ UNCHANGED chan

\* updateBatch: whichever batch is shown, if one is.
Show(s) == status' = IF status = "none" THEN "none" ELSE s
ShowProgress == Show(IF paused THEN "paused" ELSE "active")

\* The first file that is not empty, from the k-th on.
FirstSized(files, k) ==
    k + Cardinality({j \in k .. Len(files) : \A i \in k .. j : files[i] = 0})

\* What the loop over the files sends until it waits: an empty file is done at once.
Opening(r, files, k) ==
    LET first == FirstSized(files, k)
        starts == IF first <= Len(files) THEN 1 ELSE 0
    IN [i \in 1 .. 2 * (first - k) + starts |->
          LET f == <<r, k + (i - 1) \div 2>>
          IN IF i % 2 = 1 THEN Start(f) ELSE Message("file_chunk", f, 0, TRUE)]

\* The loop goes on with the k-th file of a batch: the first one that has chunks gets
\* its coroutines.  After the last file the batch is shown as completed.
GoOn(r, files, k) ==
    LET first == FirstSized(files, k) IN
    /\ Send(Opening(r, files, k))
    /\ run' = [run EXCEPT ![r] = [at |-> IF first <= Len(files) THEN "sending" ELSE "over",
                                  files |-> files, k |-> first, next |-> 0,
                                  completed |-> 0]]
    /\ worker' = IF first > Len(files) THEN worker
                 ELSE [c \in Coroutines |-> IF c[1] = r /\ c[2] <= files[first]
                                            THEN [NoWorker EXCEPT !.at = "loop"]
                                            ELSE worker[c]]

Working(r) == run[r].at = "sending" \/ \E w \in Senders : worker[<<r, w>>].at # "done"

Overlaps == IF \E r \in Batches : Working(r) THEN {"overlap"} ELSE {}
Empties(files) == IF 0 \in Range(files) THEN {"empty"} ELSE {}

-----------------------------------------------------------------------------
(* What the user does *)

\* sendFiles: the flags are reset, whatever still runs.
SendFiles(files) ==
    LET r == gen + 1
        over == FirstSized(files, 1) > Len(files)
    IN
    /\ mounted /\ status \notin Busy /\ files # <<>> /\ gen + faults < MaxEvents
    /\ gen' = r /\ abort' = FALSE /\ paused' = FALSE
    /\ status' = IF over THEN "completed" ELSE "active"
    /\ hide' = over
    /\ GoOn(r, files, 1)
    /\ mishaps' = mishaps \cup Overlaps \cup Empties(files)
    /\ UNCHANGED <<resume, mounted, up, wire, pcVars, accepted, faults>>

\* sendFiles, when a file is too large
Refuse ==
    /\ mounted /\ status \notin Busy
    /\ status' = "none" /\ hide' = FALSE
    /\ UNCHANGED <<abort, paused, resume, mounted, gen, run, worker, linkVars, pcVars,
                   accepted, mishaps, faults>>

\* Mutant of ResumeIfNeeded: the coroutine is left waiting.
OnlyUnpause == paused' = FALSE /\ resume' = Idle /\ UNCHANGED worker

\* resumeIfNeeded
ResumeIfNeeded ==
    /\ paused' = FALSE /\ resume' = Idle
    /\ worker' = [c \in Coroutines |->
                    IF c = resume THEN [worker[c] EXCEPT !.at = "woken"] ELSE worker[c]]

TogglePause ==
    /\ mounted /\ status \in Busy
    /\ IF status = "paused"
       THEN status' = "active" /\ ResumeIfNeeded
       ELSE status' = "paused" /\ paused' = TRUE /\ UNCHANGED <<resume, worker>>
    /\ UNCHANGED <<abort, hide, mounted, gen, run, linkVars, pcVars, accepted, mishaps,
                   faults>>

Cancel ==
    /\ mounted /\ status \in Busy
    /\ abort' = TRUE /\ ResumeIfNeeded
    /\ status' = "cancelled" /\ hide' = TRUE
    /\ UNCHANGED <<mounted, gen, run, linkVars, pcVars, accepted, mishaps, faults>>

\* scheduleBatchClear, after its 2.4 s
HideBatch ==
    /\ hide /\ hide' = FALSE /\ status' = "none"
    /\ UNCHANGED <<abort, paused, resume, mounted, gen, run, worker, linkVars, pcVars,
                   accepted, mishaps, faults>>

\* The component goes: its web workers are ended, so what they encode is never
\* delivered.  The coroutines go on, nobody can pause or cancel them.
Unmount ==
    /\ mounted /\ gen + faults < MaxEvents
    /\ mounted' = FALSE /\ faults' = faults + 1
    /\ worker' = [c \in Coroutines |->
                    IF worker[c].at = "encoding" THEN [worker[c] EXCEPT !.at = "stuck"]
                    ELSE worker[c]]
    /\ mishaps' = mishaps \cup {"unmount"}
    /\ UNCHANGED <<phoneVars, gen, run, linkVars, pcVars, accepted>>

-----------------------------------------------------------------------------
(* The coroutines of a file: sendChunk *)

\* waitWhilePaused looks at the flags: the chunk is encoded, or the coroutine waits and
\* is the one that the next resume wakes.
Proceed(c, idx) ==
    IF paused /\ ~abort
    THEN /\ worker' = [worker EXCEPT ![c] = [at |-> "waiting", idx |-> idx, tries |-> 0]]
         /\ resume' = c
         /\ mishaps' = mishaps \cup (IF resume # Idle THEN {"lost wakeup"} ELSE {})
    ELSE /\ worker' = [worker EXCEPT ![c] = [at |-> "encoding", idx |-> idx, tries |-> 0]]
         /\ UNCHANGED <<resume, mishaps>>

End(c) == worker' = [worker EXCEPT ![c] = NoWorker]

\* It takes the next chunk, or ends.
Take(c) ==
    LET r == c[1] IN
    /\ worker[c].at = "loop"
    /\ IF run[r].next < Size(r, run[r].k)
       THEN /\ run' = [run EXCEPT ![r].next = @ + 1]
            /\ IF abort THEN End(c) /\ UNCHANGED <<resume, mishaps>>
               ELSE Proceed(c, run[r].next)
       ELSE End(c) /\ UNCHANGED <<run, resume, mishaps>>
    /\ UNCHANGED <<status, abort, paused, hide, mounted, gen, linkVars, pcVars, accepted,
                   faults>>

\* The resume function was called.
Wake(c) ==
    /\ worker[c].at = "woken" /\ Proceed(c, worker[c].idx)
    /\ UNCHANGED <<status, abort, paused, hide, mounted, gen, run, linkVars, pcVars,
                   accepted, faults>>

\* One attempt to send the chunk.
Attempt(c) ==
    LET r == c[1]
        idx == worker[c].idx
        f == File(r)
        earlier == \E i \in 0 .. idx - 1 : <<f, i>> \notin accepted
    IN
    /\ Send(<<Message("file_chunk", f, idx, IsLast(idx, Size(r, run[r].k)))>>)
    /\ worker' = [worker EXCEPT ![c].at = IF up THEN "sent" ELSE "failed",
                                ![c].tries = @ + 1]
    /\ accepted' = IF up THEN accepted \cup {<<f, idx>>} ELSE accepted
    /\ mishaps' = mishaps \cup (IF earlier THEN {"disorder"} ELSE {})

\* The chunk is encoded.
Encoded(c) ==
    /\ worker[c].at = "encoding"
    /\ IF abort THEN End(c) /\ UNCHANGED <<linkVars, accepted, mishaps>>
       ELSE Attempt(c) /\ UNCHANGED <<up, wire>>
    /\ UNCHANGED <<phoneVars, mounted, gen, run, pcVars, faults>>

\* The file cannot be read: Promise.all fails at once, the other coroutines go on.
ReadFails(c) ==
    /\ worker[c].at = "encoding" /\ run[c[1]].at = "sending"
    /\ gen + faults < MaxEvents /\ faults' = faults + 1
    /\ End(c) /\ run' = [run EXCEPT ![c[1]].at = "failed"]
    /\ Show("failed") /\ hide' = TRUE
    /\ mishaps' = mishaps \cup {"unread"}
    /\ UNCHANGED <<abort, paused, resume, mounted, gen, linkVars, pcVars, accepted>>

\* onSendCommand has returned true.
ChunkSent(c) ==
    LET r == c[1] IN
    /\ worker[c].at = "sent"
    /\ worker' = [worker EXCEPT ![c].at = "loop"]
    /\ run' = [run EXCEPT ![r].completed = @ + 1]
    /\ ShowProgress
    /\ UNCHANGED <<abort, paused, resume, hide, mounted, gen, linkVars, pcVars, accepted,
                   mishaps, faults>>

\* Mutant of Retry: the chunk that could not be sent is passed over.
PassOver(c) ==
    /\ worker[c].at = "failed"
    /\ \/ /\ worker[c].tries = MaxRetries
          /\ worker' = [worker EXCEPT ![c].at = "loop"]
          /\ UNCHANGED <<abort, held, chan, accepted, mishaps>>
       \/ /\ worker[c].tries < MaxRetries /\ abort
          /\ End(c) /\ UNCHANGED <<abort, held, chan, accepted, mishaps>>
       \/ /\ worker[c].tries < MaxRetries /\ ~abort
          /\ Attempt(c) /\ UNCHANGED abort
    /\ UNCHANGED <<status, paused, resume, hide, mounted, gen, run, up, wire, pcVars,
                   faults>>

\* A second after it has returned false: after the last attempt everything is aborted.
Retry(c) ==
    /\ worker[c].at = "failed"
    /\ \/ /\ worker[c].tries = MaxRetries /\ abort' = TRUE
          /\ End(c) /\ UNCHANGED <<held, chan, accepted, mishaps>>
       \/ /\ worker[c].tries < MaxRetries /\ abort
          /\ End(c) /\ UNCHANGED <<abort, held, chan, accepted, mishaps>>
       \/ /\ worker[c].tries < MaxRetries /\ ~abort
          /\ Attempt(c) /\ UNCHANGED abort
    /\ UNCHANGED <<status, paused, resume, hide, mounted, gen, run, up, wire, pcVars,
                   faults>>

Joined(r) == run[r].at = "sending" /\ \A w \in Senders : worker[<<r, w>>].at = "done"

\* Mutant of JoinAborted: the PC is not told.
SilentAbort(r) ==
    /\ Joined(r) /\ abort
    /\ run' = [run EXCEPT ![r].at = "over"]
    /\ Show("cancelled") /\ hide' = TRUE
    /\ UNCHANGED <<abort, paused, resume, mounted, gen, worker, linkVars, pcVars, accepted,
                   mishaps, faults>>

\* All the coroutines of the file have ended, and the batch is aborted.
JoinAborted(r) ==
    /\ Joined(r) /\ abort
    /\ Send(<<Abort(File(r))>>)
    /\ run' = [run EXCEPT ![r].at = "over"]
    /\ Show("cancelled") /\ hide' = TRUE
    /\ UNCHANGED <<abort, paused, resume, mounted, gen, worker, up, wire, pcVars, accepted,
                   mishaps, faults>>

\* They have ended, and the next file is due.
Join(r) ==
    LET files == run[r].files
        over == FirstSized(files, run[r].k + 1) > Len(files)
    IN
    /\ Joined(r) /\ ~abort
    /\ GoOn(r, files, run[r].k + 1)
    /\ IF over THEN Show("completed") /\ hide' = TRUE
       ELSE ShowProgress /\ UNCHANGED hide
    /\ UNCHANGED <<abort, paused, resume, mounted, gen, up, wire, pcVars, accepted, mishaps,
                   faults>>

-----------------------------------------------------------------------------
(* The connection *)

\* What is on the way is lost; neither side knows yet.
Break ==
    /\ wire /\ gen + faults < MaxEvents
    /\ wire' = FALSE /\ chan' = <<>> /\ faults' = faults + 1
    /\ mishaps' = mishaps \cup {"break"}
    /\ UNCHANGED <<phoneVars, mounted, gen, run, worker, up, held, pcVars, accepted>>

PhoneNotices ==
    /\ ~wire /\ up /\ up' = FALSE
    /\ UNCHANGED <<phoneVars, mounted, gen, run, worker, wire, held, chan, pcVars, accepted,
                   mishaps, faults>>

\* The phone is back: the PC has cleared its transfers when it left
\* (CancelOngoingTransfers), the phone sends what it has queued or has dropped it.
Reconnect ==
    /\ ~up /\ up' = TRUE /\ wire' = TRUE
    /\ transfers' = <<>>
    /\ chan' \in {held, <<>>} /\ held' = <<>>
    /\ mishaps' = mishaps \cup
         (IF \E i \in DOMAIN chan' : chan'[i].kind = "file_chunk" THEN {"resent"} ELSE {})
    /\ UNCHANGED <<phoneVars, mounted, gen, run, worker, saved, accepted, faults>>

-----------------------------------------------------------------------------
(* The PC: HandleInputCommand *)

Without(f) == [g \in DOMAIN transfers \ {f} |-> transfers[g]]

\* A chunk is appended, whatever its number; the last one completes the file.
TakeChunk(m) ==
    LET chunks == Append(transfers[m.file], m.idx) IN
    IF m.last
    THEN /\ transfers' = Without(m.file)
         /\ saved' = saved \cup {[file |-> m.file, chunks |-> chunks]}
    ELSE transfers' = [transfers EXCEPT ![m.file] = chunks] /\ UNCHANGED saved

\* An empty chunk and one of an unknown file are ignored.
Ignored(m) == m.file \notin DOMAIN transfers \/ run[m.file[1]].files[m.file[2]] = 0

Receive ==
    /\ chan # <<>> /\ chan' = Tail(chan)
    /\ LET m == Head(chan) IN
       CASE m.kind = "file_start" ->
              /\ transfers' = [g \in DOMAIN transfers \cup {m.file} |->
                                 IF g = m.file THEN <<>> ELSE transfers[g]]
              /\ UNCHANGED saved
         [] m.kind = "file_chunk" ->
              IF Ignored(m) THEN UNCHANGED pcVars ELSE TakeChunk(m)
         [] m.kind = "file_abort" -> transfers' = Without(m.file) /\ UNCHANGED saved
    /\ UNCHANGED <<phoneVars, mounted, gen, run, worker, up, wire, held, accepted, mishaps,
                   faults>>

-----------------------------------------------------------------------------
User ==
    \/ gen < MaxBatches /\ \E files \in Selections[gen + 1] : SendFiles(files)
    \/ Refuse \/ TogglePause \/ Cancel \/ Unmount

Steps(c) == Take(c) \/ Wake(c) \/ Encoded(c) \/ ChunkSent(c) \/ Retry(c)

Next ==
    \/ User \/ HideBatch
    \/ (\E c \in Coroutines : Steps(c) \/ ReadFails(c))
    \/ (\E r \in Batches : Join(r) \/ JoinAborted(r))
    \/ Break \/ PhoneNotices \/ Reconnect \/ Receive

Spec == Init /\ [][Next]_vars

\* The event loop of the phone runs whatever is ready, and the PC reads what arrives.
Fairness ==
    /\ \A c \in Coroutines : WF_vars(Steps(c))
    /\ \A r \in Batches : WF_vars(Join(r) \/ JoinAborted(r))
    /\ WF_vars(Receive)

FairSpec == Spec /\ Fairness

-----------------------------------------------------------------------------
(* Properties *)

Spared(exceptions) == mishaps \cap exceptions = {}

Chunks(f) == run[f[1]].files[f[2]]

\* A file that the PC saves is the file that the phone read: every chunk, once, in
\* order.  Except when chunks overtook each other, one was queued and then sent again,
\* one could not be read, or a batch was started while an aborted one still ran.
SavedIsWhole ==
    Spared({"disorder", "resent", "unread", "overlap"}) =>
        \A s \in saved : s.chunks = [i \in 1 .. Chunks(s.file) |-> i - 1]

\* A batch shown as completed has been sent: no chunk of it was given up after its
\* attempts failed.  Except when an earlier batch still ran, which writes into it.
CompletedMeansSent ==
    status = "completed" /\ Spared({"overlap"}) =>
        \A k \in DOMAIN run[gen].files :
            \A i \in 0 .. Chunks(<<gen, k>>) - 1 : <<<<gen, k>>, i>> \in accepted

Quiet == chan = <<>> /\ held = <<>> /\ \A r \in Batches : ~Working(r)

\* Once the phone has finished, the PC keeps no part of a file in its memory: it was
\* saved or given up.  Except an empty file, which is never saved, and what a broken
\* connection, an unreadable file or an overlapping batch left behind.
NothingLeftOver ==
    Quiet /\ Spared({"empty", "break", "unread", "overlap"}) => DOMAIN transfers = {}

\* A batch comes to its end, a cancelled one too, unless it is left paused and the user
\* can still resume it.  Except when two coroutines waited for the one resume function,
\* the component went, or what an earlier coroutine left behind hides the batch.
UploadEnds ==
    \A r \in Batches :
        []Spared({"lost wakeup", "unmount", "unread", "overlap"}) =>
            (run[r].at = "sending" ~> (run[r].at # "sending" \/ (paused /\ status \in Busy)))
=============================================================================
