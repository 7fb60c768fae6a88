------------------------------ MODULE InputSync ------------------------------
(***************************************************************************)
(* How the text on the phone gets into a window of the PC: InputArea.tsx   *)
(* and diff.ts on the phone, ProcessCommandQueue and the focus handlers of *)
(* MainWindow.xaml.cs on the PC.                                           *)
(*                                                                         *)
(* The phone sends what changed since the text that it counts as sent,     *)
(* 60 ms after the last key; the PC gathers such diffs for 100 ms, types   *)
(* the result into the window that has the focus and tells the phone to    *)
(* start anew when the focus moves.  A character is a keystroke, numbered  *)
(* from 1: two equal letters are two characters, each of one UTF-16 unit.  *)
(* Regex filters are applied before; their result is what counts as typed. *)
(***************************************************************************)
EXTENDS Naturals, Sequences, FiniteSets, SequencesExt

CONSTANTS
    Windows,   \* the windows of other programs
    NoWindow,  \* IntPtr.Zero
    MaxKeys,   \* bound: characters typed
    MaxTurns,  \* bound: paragraphs committed and changes of the focus, together
    MaxDrops,  \* bound: losses of the encrypted session, and changes of the sender
    MaxWaiting \* bound: commands on their way, and clear messages

ASSUME InputSyncAssumption ==
    /\ NoWindow \notin Windows
    /\ {MaxKeys, MaxTurns, MaxDrops, MaxWaiting} \subseteq Nat

VARIABLES
    \* the phone
    mounted,    \* InputArea is shown, not the scanner
    text,       \* textRef, which the text box shows
    lastSent,   \* lastSentRef
    armed,      \* the debounce timer is running
    pending,    \* pendingDiffTextRef
    lastReason, \* clearResetReason: "none" before the first clear
    enc,        \* encryptionReady
    queue,      \* queuedCommandsRef: commands that wait for the reconnection
    \* what has arrived and is not handled
    chan,       \* _cmdChannel
    toPhone,    \* reasons of clear messages
    \* the PC
    buffer,     \* _appliedInputBuffer
    batching,   \* a batch of diffs is being gathered
    next,       \* its nextText
    deferred,   \* deferredCommand is an enter
    target,     \* _inputTargetWindow
    clearArmed, \* _focusClearCts is running
    clearOwed,  \* _pendingClearOnReconnect
    recovering, \* _inputTargetRecoveryCts is set
    focus,      \* the foreground window
    line,       \* what the PC has typed into each window since the last Enter
    done,       \* the paragraphs it has ended there with Enter
    \* history and bookkeeping
    committed,  \* the paragraphs that the user has ended
    parted,     \* what the phone counts as sent has parted from what gets to the PC
    unsent,     \* the text does not count as sent: changed without encryption, or shown
                \* anew, and nothing is armed to send it
    ghost,      \* a debounce timer has outlived its paragraph
    overtaken,  \* the PC handled commands before an Enter that was sent earlier
    rebound,    \* the target was given up with text in the buffer
    edited,     \* the user changed something before the end of the text
    keys, moves, drops

phoneVars == <<text, lastSent, armed, pending, unsent>>
netVars == <<queue, chan, parted>>
loopVars == <<buffer, batching, next, deferred>>
targetVars == <<target, recovering, clearArmed, clearOwed>>
screenVars == <<line, done>>
userVars == <<committed, ghost, edited, keys>>
vars == <<mounted, phoneVars, lastReason, enc, netVars, toPhone, loopVars, targetVars, focus,
          screenVars, userVars, overtaken, rebound, moves, drops>>

Text == Seq(Nat)
Command == [type : {"diff", "enter"}, back : Nat, ins : Text]

-----------------------------------------------------------------------------
(* Diffs *)

\* The length of the common prefix.
PrefixLen(a, b) ==
    Cardinality({n \in 1 .. Len(a) : n <= Len(b) /\ \A i \in 1 .. n : a[i] = b[i]})

\* computeDiff
Diff(old, new) ==
    [type |-> "diff", back |-> Len(old) - PrefixLen(old, new),
     ins |-> SubSeq(new, PrefixLen(old, new) + 1, Len(new))]

\* flushDiffToCommand: what is sent, if anything.
Flushed(old, new) == IF old = new THEN <<>> ELSE <<Diff(old, new)>>

Enter == [type |-> "enter", back |-> 0, ins |-> <<>>]

\* ApplyDiffToBuffer
Applied(current, cmd) ==
    SubSeq(current, 1, IF cmd.back > Len(current) THEN 0 ELSE Len(current) - cmd.back)
    \o cmd.ins

-----------------------------------------------------------------------------
Init ==
    /\ mounted = TRUE
    /\ text = <<>> /\ lastSent = <<>> /\ armed = FALSE /\ pending = <<>>
    /\ lastReason = "none" /\ enc = TRUE /\ unsent = FALSE
    /\ queue = <<>> /\ chan = <<>> /\ parted = FALSE /\ toPhone = <<>>
    /\ buffer = <<>> /\ batching = FALSE /\ next = <<>> /\ deferred = FALSE
    /\ target = NoWindow /\ recovering = TRUE /\ clearArmed = FALSE /\ clearOwed = FALSE
    /\ focus \in Windows
    /\ line = [w \in Windows |-> <<>>] /\ done = [w \in Windows |-> <<>>]
    /\ committed = <<>> /\ ghost = FALSE /\ overtaken = FALSE /\ rebound = FALSE
    /\ edited = FALSE /\ keys = 0 /\ moves = 0 /\ drops = 0

-----------------------------------------------------------------------------
(* The phone *)

\* onSendCommand (sendEncrypted).  Without an encrypted session the commands may get to
\* the PC at once (the socket is open, the handshake under way), wait for it (a
\* connection is under way that was started while BLE was ready) or be lost: dropped
\* by the cleanup of the connection that the call starts, or sent where no PC is.
Send(cmds) ==
    /\ \/ chan' = chan \o cmds /\ UNCHANGED queue
       \/ ~enc /\ queue' = queue \o cmds /\ UNCHANGED chan
       \/ ~enc /\ UNCHANGED <<queue, chan>>
    /\ parted' = (parted \/ (~enc /\ cmds # <<>>))
    /\ Len(chan') + Len(queue') <= MaxWaiting

\* The debounce timer as an immediate flush leaves it: stopped if there was
\* something to send.
TimerAfter(cmds) ==
    /\ armed' = (armed /\ cmds = <<>>)
    /\ pending' = IF armed' THEN pending ELSE <<>>

phoneRest == <<mounted, lastReason, enc, toPhone, loopVars, targetVars, focus, screenVars,
               overtaken, rebound, moves, drops>>

\* The user changes one character: the new value, whether it is the last one, and
\* the number of keys.
Edit(v, atEnd, k) ==
    /\ mounted
    /\ \/ /\ keys < MaxKeys /\ k = keys + 1
          /\ \E i \in {1, Len(text) + 1} :
                v = InsertAt(text, i, k) /\ atEnd = (i = Len(text) + 1)
       \/ /\ k = keys
          /\ \E i \in {1, Len(text)} \cap DOMAIN text :
                v = RemoveAt(text, i) /\ atEnd = (i = Len(text))

\* processTextValue of a value without line end: sent later, if encrypted.  The flag
\* that is asked outlives the socket, until the next connection.
Type(v, atEnd, k) ==
    /\ Edit(v, atEnd, k)
    /\ text' = v /\ keys' = k /\ edited' = (edited \/ ~atEnd)
    /\ \/ armed' = TRUE /\ pending' = v /\ unsent' = FALSE
       \/ ~enc /\ unsent' = TRUE /\ UNCHANGED <<armed, pending>>
    /\ UNCHANGED <<lastSent, netVars, committed, ghost, phoneRest>>

\* handleCompositionEnd: sent at once.
Compose(v, atEnd, k) ==
    /\ Edit(v, atEnd, k)
    /\ text' = v /\ keys' = k /\ edited' = (edited \/ ~atEnd)
    /\ armed' = FALSE /\ pending' = <<>> /\ unsent' = FALSE
    /\ Send(Flushed(lastSent, v)) /\ lastSent' = v
    /\ UNCHANGED <<committed, ghost, phoneRest>>

\* Mutant of Commit: what was sent is not forgotten.
KeepBaseline ==
    LET cmds == Flushed(lastSent, text) IN
    /\ mounted /\ Len(committed) + moves < MaxTurns
    /\ Send(cmds \o <<Enter>>)
    /\ TimerAfter(cmds) /\ ghost' = (ghost \/ armed')
    /\ text' = <<>> /\ lastSent' = text /\ unsent' = FALSE
    /\ committed' = Append(committed, text)
    /\ UNCHANGED <<edited, keys, phoneRest>>

\* The Enter key: commitParagraph
Commit ==
    LET cmds == Flushed(lastSent, text) IN
    /\ mounted /\ Len(committed) + moves < MaxTurns
    /\ Send(cmds \o <<Enter>>)
    /\ TimerAfter(cmds) /\ ghost' = (ghost \/ armed')
    /\ text' = <<>> /\ lastSent' = <<>> /\ unsent' = FALSE
    /\ committed' = Append(committed, text)
    /\ UNCHANGED <<edited, keys, phoneRest>>

\* processTextValue of a value with line ends (voice input, a paste): each completed
\* line is sent at once, the remainder later.  The value is the text, a character
\* and a line end, and perhaps a second such line.
Paste(two) ==
    LET first == Append(text, keys + 1)
        cmds == Flushed(lastSent, first) \o <<Enter>>
                \o (IF two THEN Flushed(<<>>, <<keys + 2>>) \o <<Enter>> ELSE <<>>)
        rest == IF two THEN <<>> ELSE <<keys + 2>>
    IN
    /\ mounted /\ keys + 2 <= MaxKeys
    /\ Len(committed) + moves + (IF two THEN 2 ELSE 1) <= MaxTurns
    /\ Send(cmds)
    /\ text' = rest /\ lastSent' = <<>> /\ unsent' = FALSE
    /\ armed' = (rest # <<>>) /\ pending' = rest
    /\ keys' = keys + 2
    /\ committed' = committed \o (IF two THEN <<first, <<keys + 2>>>> ELSE <<first>>)
    /\ UNCHANGED <<ghost, edited, phoneRest>>

\* The debounce timer fires.
Debounce ==
    /\ armed
    /\ armed' = FALSE /\ pending' = <<>>
    /\ Send(Flushed(lastSent, pending)) /\ lastSent' = pending
    /\ UNCHANGED <<text, unsent, userVars, phoneRest>>

\* Mutant of ClearEffect: the timer is left running.
LeaveTimer(reason) ==
    /\ UNCHANGED <<armed, pending>> /\ unsent' = FALSE
    /\ IF reason = "focus"
       THEN text' = <<>> /\ lastSent' = <<>> /\ UNCHANGED netVars
       ELSE lastSent' = text /\ Send(Flushed(<<>>, text)) /\ UNCHANGED text

\* Mutant of ClearEffect: the text stays, and counts as not sent.
KeepText(reason) ==
    /\ armed' = FALSE /\ pending' = <<>> /\ unsent' = TRUE
    /\ IF reason = "focus"
       THEN lastSent' = <<>> /\ UNCHANGED <<text, netVars>>
       ELSE lastSent' = text /\ Send(Flushed(<<>>, text)) /\ UNCHANGED text

\* The effect of inputResetVersion: the text is given up, or sent anew.
ClearEffect(reason) ==
    /\ armed' = FALSE /\ pending' = <<>> /\ unsent' = FALSE
    /\ IF reason = "focus"
       THEN text' = <<>> /\ lastSent' = <<>> /\ UNCHANGED netVars
       ELSE lastSent' = text /\ Send(Flushed(<<>>, text)) /\ UNCHANGED text

\* clear: React may render several of them at once, with the reason of the last.
ReceiveClear(n) ==
    /\ enc /\ ClearEffect(toPhone[n])
    /\ lastReason' = toPhone[n]
    /\ toPhone' = SubSeq(toPhone, n + 1, Len(toPhone))
    /\ UNCHANGED <<mounted, enc, loopVars, targetVars, focus, screenVars, userVars,
                   overtaken, rebound, moves, drops>>

\* BLE becomes ready or is lost: onSendCommand is another function, which makes
\* React run the effect again.
SenderChanges ==
    /\ mounted /\ lastReason # "none" /\ drops < MaxDrops /\ drops' = drops + 1
    /\ ClearEffect(lastReason)
    /\ UNCHANGED <<mounted, lastReason, enc, toPhone, loopVars, targetVars, focus, screenVars,
                   userVars, overtaken, rebound, moves>>

\* The phone shows the scanner: it is disconnected and not encrypted.  The timer ends
\* with InputArea.  The user who cancels a pending connection clears the text.
Unmount(cancels) ==
    /\ mounted /\ ~enc
    /\ mounted' = FALSE
    /\ text' = IF cancels THEN <<>> ELSE text
    /\ lastSent' = <<>> /\ armed' = FALSE /\ pending' = <<>>
    /\ unsent' = (text' # <<>>) /\ parted' = (parted \/ lastSent # <<>>)
    /\ UNCHANGED <<lastReason, enc, queue, chan, toPhone, loopVars, targetVars, focus,
                   screenVars, userVars, overtaken, rebound, moves, drops>>

\* InputArea is back, with the text and nothing that counts as sent.  Its effects run,
\* that of the last clear as well.
Remount ==
    /\ ~mounted /\ mounted' = TRUE
    /\ IF lastReason = "none" THEN UNCHANGED <<phoneVars, netVars>>
       ELSE ClearEffect(lastReason)
    /\ UNCHANGED <<lastReason, enc, toPhone, loopVars, targetVars, focus, screenVars,
                   userVars, overtaken, rebound, moves, drops>>

\* The cleanup of a new connection, or the end of the offline grace
DropQueue ==
    /\ ~enc /\ queue # <<>>
    /\ queue' = <<>>
    /\ UNCHANGED <<phoneVars, chan, parted, userVars, phoneRest>>

-----------------------------------------------------------------------------
(* The PC *)

pcRest == <<mounted, phoneVars, lastReason, enc, queue, parted, userVars, drops>>

\* What EnsureInputTarget finds: the target has the focus, or there is none yet.
OnTarget == target \in {focus, NoWindow}

\* EnsureInputTarget, when it succeeds
Capture ==
    /\ target' = focus
    /\ recovering' = (recovering /\ target = focus)
    /\ UNCHANGED <<clearArmed, clearOwed, toPhone>>

\* EnsureInputTarget, when the focus has moved: the phone is told to start anew; a
\* message that cannot be sent is lost.
Release ==
    /\ target' = NoWindow /\ recovering' = TRUE /\ clearArmed' = FALSE
    /\ toPhone' = IF enc THEN Append(toPhone, "focus") ELSE toPhone
    /\ UNCHANGED clearOwed

\* Mutant of PressEnter: the buffer is kept.
KeepBuffer ==
    /\ IF OnTarget
       THEN /\ Capture
            /\ done' = [done EXCEPT ![focus] = Append(@, line[focus])]
            /\ line' = [line EXCEPT ![focus] = <<>>]
       ELSE Release /\ UNCHANGED screenVars
    /\ UNCHANGED buffer

\* HandleInputCommand of an enter
PressEnter ==
    /\ IF OnTarget
       THEN /\ Capture
            /\ done' = [done EXCEPT ![focus] = Append(@, line[focus])]
            /\ line' = [line EXCEPT ![focus] = <<>>]
       ELSE Release /\ UNCHANGED screenVars
    /\ buffer' = <<>>

\* ProcessCommandQueue takes a command.
TakeDiff ==
    /\ ~batching /\ ~deferred /\ chan # <<>> /\ Head(chan).type = "diff"
    /\ batching' = TRUE /\ next' = Applied(buffer, Head(chan))
    /\ chan' = Tail(chan)
    /\ UNCHANGED <<buffer, deferred, toPhone, targetVars, focus, screenVars, pcRest,
                   overtaken, rebound, moves>>

TakeEnter ==
    /\ ~batching
    /\ deferred \/ (chan # <<>> /\ Head(chan).type = "enter")
    /\ PressEnter
    /\ deferred' = FALSE /\ chan' = IF deferred THEN chan ELSE Tail(chan)
    /\ UNCHANGED <<batching, next, focus, pcRest, overtaken, rebound, moves>>

\* A further diff arrives while a batch is gathered.
GatherDiff ==
    /\ batching /\ ~deferred /\ chan # <<>> /\ Head(chan).type = "diff"
    /\ next' = Applied(next, Head(chan))
    /\ chan' = Tail(chan)
    /\ UNCHANGED <<buffer, batching, deferred, toPhone, targetVars, focus, screenVars,
                   pcRest, overtaken, rebound, moves>>

\* An enter arrives and is deferred.
GatherEnter ==
    /\ batching /\ ~deferred /\ chan # <<>> /\ Head(chan).type = "enter"
    /\ deferred' = TRUE /\ chan' = Tail(chan)
    /\ UNCHANGED <<buffer, batching, next, toPhone, targetVars, focus, screenVars,
                   pcRest, overtaken, rebound, moves>>

\* What has arrived behind it is read at once: a diff joins the batch, any other
\* command is discarded.
Drain ==
    /\ batching /\ deferred /\ chan # <<>>
    /\ next' = IF Head(chan).type = "diff" THEN Applied(next, Head(chan)) ELSE next
    /\ chan' = Tail(chan) /\ overtaken' = TRUE
    /\ UNCHANGED <<buffer, batching, deferred, toPhone, targetVars, focus, screenVars,
                   pcRest, rebound, moves>>

\* What a window shows after `back` backspaces and the insertion.
Retyped(s, back, ins) ==
    SubSeq(s, 1, IF back > Len(s) THEN 0 ELSE Len(s) - back) \o ins

\* FlushBufferedDiff: 100 ms have passed, or an enter is deferred.
Flush ==
    /\ batching /\ (deferred => chan = <<>>) /\ batching' = FALSE
    /\ IF OnTarget
       THEN LET cmd == Diff(buffer, next) IN
            /\ Capture
            /\ line' = [line EXCEPT ![focus] = Retyped(@, cmd.back, cmd.ins)]
            /\ buffer' = next
            /\ UNCHANGED done
       ELSE Release /\ buffer' = <<>> /\ UNCHANGED screenVars
    /\ UNCHANGED <<next, deferred, chan, focus, pcRest, overtaken, rebound, moves>>

\* OnForegroundWindowChanged
FocusMoves(w) ==
    /\ w # focus /\ Len(committed) + moves < MaxTurns
    /\ focus' = w /\ moves' = moves + 1
    /\ recovering' = FALSE
    /\ clearArmed' = CASE target = NoWindow -> clearArmed
                       [] target = w -> FALSE
                       [] OTHER -> TRUE
    /\ UNCHANGED <<target, clearOwed, chan, toPhone, loopVars, screenVars, pcRest,
                   overtaken, rebound>>

\* ResetMobileInputAfterFocusChangeAsync, after its 300 ms.  The target is kept.
FocusClear ==
    /\ clearArmed /\ clearArmed' = FALSE
    /\ buffer' = <<>>
    /\ IF enc
       THEN toPhone' = Append(toPhone, "focus") /\ UNCHANGED clearOwed
       ELSE clearOwed' = TRUE /\ UNCHANGED toPhone
    /\ UNCHANGED <<target, recovering, batching, next, deferred, chan, focus,
                   screenVars, pcRest, overtaken, rebound, moves>>

\* RestorePreviousExternalWindowAsync finds a window of another program in front, at
\* once or after some of its attempts.
Recovers ==
    /\ recovering /\ recovering' = FALSE
    /\ target' = focus
    /\ UNCHANGED <<clearArmed, clearOwed, chan, toPhone, loopVars, focus, screenVars,
                   pcRest, overtaken, rebound, moves>>

-----------------------------------------------------------------------------
(* The session between them *)

\* The session is lost, and with it the newest of the commands on their way;
\* OnMobileDisconnected gives up the target, not the buffer.
SessionDrops ==
    /\ enc /\ drops < MaxDrops
    /\ enc' = FALSE /\ drops' = drops + 1
    /\ \E n \in 0 .. Len(chan) :
          chan' = SubSeq(chan, 1, n) /\ parted' = (parted \/ n < Len(chan))
    /\ toPhone' = <<>>
    /\ target' = NoWindow /\ rebound' = (rebound \/ buffer # <<>>)
    /\ UNCHANGED <<mounted, phoneVars, lastReason, queue, loopVars, recovering,
                   clearArmed, clearOwed, focus, screenVars, userVars, overtaken, moves>>

\* The session is encrypted again: flushQueuedCommands and OnEncryptionReady.
SessionResumes ==
    /\ mounted /\ ~enc /\ enc' = TRUE
    /\ chan' = chan \o queue /\ queue' = <<>> /\ UNCHANGED parted
    /\ target' = NoWindow /\ recovering' = TRUE
    /\ clearOwed' = FALSE
    /\ buffer' = IF clearOwed THEN <<>> ELSE buffer
    /\ toPhone' = IF clearOwed THEN Append(toPhone, "resync") ELSE toPhone
    /\ rebound' = (rebound \/ buffer' # <<>>)
    /\ UNCHANGED <<mounted, phoneVars, lastReason, batching, next, deferred, clearArmed, focus,
                   screenVars, userVars, overtaken, moves, drops>>

-----------------------------------------------------------------------------
Edits ==
    \E k \in {keys, keys + 1}, atEnd \in BOOLEAN :
        \E v \in {InsertAt(text, i, k) : i \in 1 .. Len(text) + 1}
                 \cup {RemoveAt(text, i) : i \in DOMAIN text} :
            Type(v, atEnd, k) \/ Compose(v, atEnd, k)

Phone ==
    \/ Edits \/ Commit \/ (\E two \in BOOLEAN : Paste(two)) \/ Debounce
    \/ (\E n \in DOMAIN toPhone : ReceiveClear(n)) \/ SenderChanges
    \/ (\E cancels \in BOOLEAN : Unmount(cancels)) \/ Remount \/ DropQueue

PC ==
    \/ TakeDiff \/ TakeEnter \/ GatherDiff \/ GatherEnter \/ Drain \/ Flush
    \/ (\E w \in Windows : FocusMoves(w)) \/ FocusClear \/ Recovers

Next == Phone \/ PC \/ SessionDrops \/ SessionResumes

Spec == Init /\ [][Next]_vars

-----------------------------------------------------------------------------
(* Properties *)

FlagType ==
    /\ mounted \in BOOLEAN /\ armed \in BOOLEAN /\ enc \in BOOLEAN
    /\ unsent \in BOOLEAN /\ parted \in BOOLEAN
    /\ batching \in BOOLEAN /\ deferred \in BOOLEAN
    /\ recovering \in BOOLEAN /\ clearArmed \in BOOLEAN /\ clearOwed \in BOOLEAN
    /\ ghost \in BOOLEAN /\ overtaken \in BOOLEAN /\ rebound \in BOOLEAN
    /\ edited \in BOOLEAN

DataType ==
    /\ text \in Text /\ lastSent \in Text /\ pending \in Text
    /\ lastReason \in {"none", "focus", "resync"}
    /\ queue \in Seq(Command) /\ chan \in Seq(Command)
    /\ toPhone \in Seq({"focus", "resync"})
    /\ buffer \in Text /\ next \in Text
    /\ target \in Windows \cup {NoWindow} /\ focus \in Windows
    /\ line \in [Windows -> Text] /\ done \in [Windows -> Seq(Text)]
    /\ committed \in Seq(Text)
    /\ keys \in Nat /\ moves \in 0 .. MaxTurns /\ drops \in 0 .. MaxDrops

TypeOK == FlagType /\ DataType

EndsWith(s, t) ==
    /\ Len(t) <= Len(s)
    /\ \A i \in 1 .. Len(t) : s[Len(s) - Len(t) + i] = t[i]

\* The PC deletes only what it has typed itself, in this window and since the last
\* Enter, whatever the phone asks for: its buffer is always the end of that.  Except
\* after a reconnection that gives up the target and keeps the buffer.
DeletesOnlyItsOwn ==
    \/ rebound
    \/ IF target = NoWindow THEN buffer = <<>> ELSE EndsWith(line[target], buffer)

\* No text is stranded on the phone: what is shown has been sent or will be when the
\* timer fires.  Except what was typed without encryption and what the box showed when
\* it gave way to the scanner, up to the next edit or clear; and except when an earlier
\* paragraph's timer was left running.
NothingStranded ==
    text = (IF armed THEN pending ELSE lastSent) \/ unsent \/ ghost

Quiet == chan = <<>> /\ queue = <<>> /\ ~batching /\ ~deferred

\* While the focus stays where it is: once the PC has handled everything, the window
\* holds the paragraphs that the user has ended and the text counted as sent.
ParagraphsArrive ==
    Quiet /\ moves = 0 => done[focus] = committed /\ line[focus] = lastSent

\* They do through lost sessions and reconnections, but for two ways: the PC handles
\* commands before an Enter that was sent earlier; or a command was sent without a
\* session, or lost with it, or the box gave way to the scanner and has forgotten what
\* it had sent.
ParagraphsArriveInOrder == overtaken \/ parted \/ ParagraphsArrive

Typed(w) == UNION {Range(p) : p \in Range(done[w]) \cup {line[w]}}

\* "This prevents the mobile from resending its full accumulated state (which includes
\* characters already injected into the OLD target), which would create duplicates in
\* the NEW target": while the user types on, and the session holds, no character is
\* typed into two windows.
NoDuplicates ==
    drops = 0 /\ ~edited /\ ~ghost =>
        \A v, w \in Windows : v # w => Typed(v) \cap Typed(w) = {}
=============================================================================
