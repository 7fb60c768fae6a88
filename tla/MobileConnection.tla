--------------------------- MODULE MobileConnection ---------------------------
(***************************************************************************)
(* The phone's connection to the relay (useWebSocket.ts): its socket, the  *)
(* timers around it, the reconnection after a loss and the queue of        *)
(* commands typed meanwhile.                                               *)
(*                                                                         *)
(* The page is single-threaded: a socket event, a timer, a page event or a *)
(* click is one task and one action.  Timers fire in any order.  The relay *)
(* and the PC answer in the order in which they can, at any time.          *)
(*                                                                         *)
(* The heartbeat is left out: each ping sets its timer anew, before it is  *)
(* due, so that it never fires (no handler of pong stops it either).       *)
(***************************************************************************)
EXTENDS Naturals

CONSTANTS
    MaxAttempts,  \* MAX_RECONNECT_ATTEMPTS
    MaxQueue,     \* bound: commands in the queue
    MaxFails      \* bound: losses of the socket or of the PC, over the behaviour

ASSUME MobileConnectionAssumption ==
    MaxAttempts \in Nat /\ MaxQueue \in Nat /\ MaxFails \in Nat

VARIABLES
    sock,        \* wsRef: "none", "connecting" or "open"
    stale,       \* a socket closed while it was connecting will report an error
    link,        \* how far the relay is: "no" (not joined), "alone", "paired", "gone"
    asked,       \* the PC owes a pc_ratchet_init
    state,       \* connectionState
    enc,         \* encryptionReady
    had,         \* hadEncryptedSessionRef
    buffered,    \* bufferedInputActive
    queued,      \* how many commands are in queuedCommandsRef
    info,        \* connInfoRef is set
    stored,      \* the connection is in localStorage
    intentional, \* intentionalCloseRef
    suspended,   \* suspendedRef
    visible,     \* document.visibilityState is "visible"
    attempts,    \* reconnectAttemptRef
    timers,      \* the timers that are armed
    ble,         \* bleTransportReadyRef
    sending,     \* a batch of files or a debounced diff is under way: it sends by itself
    dropped,     \* history: a reconnection dropped what the user had typed
    ousted,      \* history: preempted, and its user has not acted on it since
    misled,      \* history: "connecting" is what a failed send shows, not a connection
    fails        \* bookkeeping: losses of the socket or of the PC

sockVars == <<sock, stale, link, asked>>
keepVars == <<info, stored, intentional, suspended, attempts>>
worldVars == <<visible, ble, sending, fails>>
inputVars == <<had, buffered, queued>>
histVars == <<dropped, ousted, misled>>
vars == <<sockVars, state, enc, inputVars, keepVars, timers, worldVars, histVars>>

-----------------------------------------------------------------------------
\* closeSocket.  A socket that was connecting reports an error afterwards.
CloseSocket ==
    /\ sock' = "none" /\ link' = "no" /\ asked' = FALSE
    /\ stale' = (stale \/ sock = "connecting")

\* cleanup, but for connInfoRef, intentionalCloseRef and connectionState.  While
\* BLE is ready the session counts as encrypted.
Cleanup(armed) ==
    /\ timers' = armed
    /\ enc' = (enc /\ ble) /\ had' = (had /\ ble)
    /\ buffered' = FALSE /\ queued' = 0

\* Mutant of Connect: the reconnect timer is left armed.
KeepReconnect ==
    /\ Cleanup((timers \cap {"reconnect"}) \cup {"connect"})
    /\ sock' = "connecting" /\ link' = "no" /\ asked' = FALSE
    /\ stale' = (stale \/ sock = "connecting")
    /\ info' = TRUE /\ intentional' = FALSE /\ state' = "connecting" /\ misled' = FALSE

\* connectWs, when the present socket is not for the same connection
Connect ==
    /\ Cleanup({"connect"})
    /\ sock' = "connecting" /\ link' = "no" /\ asked' = FALSE
    /\ stale' = (stale \/ sock = "connecting")
    /\ info' = TRUE /\ intentional' = FALSE /\ state' = "connecting" /\ misled' = FALSE

\* startOfflineGrace does nothing without an earlier encrypted session.
GraceStarts == had /\ state # "preempted"

Init ==
    /\ sock = "none" /\ stale = FALSE /\ link = "no" /\ asked = FALSE
    /\ state = "disconnected" /\ enc = FALSE
    /\ had = FALSE /\ buffered = FALSE /\ queued = 0
    /\ info = FALSE /\ stored \in BOOLEAN /\ intentional = FALSE /\ suspended = FALSE
    /\ visible = TRUE /\ attempts = 0 /\ timers = {} /\ ble = FALSE
    /\ sending = FALSE /\ dropped = FALSE /\ ousted = FALSE /\ misled = FALSE /\ fails = 0

-----------------------------------------------------------------------------
(* The user and the page *)

\* The user scans a code, or a nearby PC answers over BLE.
Scan ==
    /\ Connect
    /\ stored' = TRUE /\ ousted' = FALSE
    /\ UNCHANGED <<suspended, attempts, worldVars, dropped>>

\* The page is loaded with a stored connection, or the user tries again: unless
\* its socket is still there.
Retry ==
    /\ stored /\ (sock = "none" \/ ~info)
    /\ Connect
    /\ ousted' = FALSE
    /\ UNCHANGED <<stored, suspended, attempts, worldVars, dropped>>

\* "Cancel and go back": disconnect
Cancel ==
    /\ Cleanup({}) /\ CloseSocket
    /\ info' = FALSE /\ stored' = FALSE /\ intentional' = TRUE
    /\ state' = "disconnected" /\ ousted' = FALSE
    /\ UNCHANGED <<suspended, attempts, worldVars, dropped, misled>>

\* The user, who may type and send as long as the input is enabled, starts something
\* that sends by itself: a batch of files, whose chunks are retried each second, or a
\* diff that waits for 60 ms.  Neither ends with the connection.
Begin ==
    /\ ~sending /\ (enc \/ buffered)
    /\ sending' = TRUE /\ ousted' = FALSE
    /\ UNCHANGED <<sockVars, state, enc, inputVars, keepVars, timers, visible, ble, fails,
                   dropped, misled>>

Finish ==
    /\ sending
    /\ sending' = FALSE
    /\ UNCHANGED <<sockVars, state, enc, inputVars, keepVars, timers, visible, ble, fails,
                   histVars>>

\* sendEncrypted of a command that the socket cannot take, nor BLE: while BLE is
\* ready the phone only connects; else the command is queued and the phone connects
\* at once, or it is lost and the phone shows "connecting".
Send ==
    /\ enc \/ buffered \/ sending
    /\ sock # "open"
    /\ CASE (ble \/ GraceStarts) /\ info /\ sock = "none" ->
               Connect /\ dropped' = (dropped \/ ~ble \/ queued > 0)
         [] ble /\ ~(info /\ sock = "none") ->
               UNCHANGED <<sockVars, state, enc, inputVars, info, intentional, timers,
                           dropped, misled>>
         [] ~ble /\ GraceStarts /\ ~(info /\ sock = "none") ->
               /\ queued < MaxQueue
               /\ queued' = queued + 1 /\ buffered' = TRUE
               /\ timers' = timers \cup {"grace"}
               /\ state' = "connecting" /\ misled' = FALSE
               /\ UNCHANGED <<sockVars, enc, had, info, intentional, dropped>>
         [] ~ble /\ ~GraceStarts ->
               /\ enc' = FALSE /\ state' = "connecting"
               /\ misled' = (misled \/ state # "connecting")
               /\ UNCHANGED <<sockVars, inputVars, info, intentional, timers, dropped>>
    /\ ousted' = (ousted /\ sock' = sock)
    /\ UNCHANGED <<stored, suspended, attempts, worldVars>>

Hide ==
    /\ visible
    /\ visible' = FALSE
    /\ UNCHANGED <<sockVars, state, enc, inputVars, keepVars, timers, ble, sending,
                   fails, histVars>>

\* The page appears, or the network comes back: reconnectIfNeeded; and App connects
\* with the stored connection when a page that shows "disconnected" appears.
MayReconnect == info /\ ~intentional /\ state # "preempted"
Show(appears) ==
    LET again == stored /\ state = "disconnected" /\ appears IN
    /\ visible' = (visible \/ appears) /\ suspended' = FALSE
    /\ ousted' = (ousted /\ ~again)
    /\ IF (sock = "none" /\ MayReconnect) \/ ((sock = "none" \/ ~info) /\ again)
       THEN /\ Connect /\ dropped' = (dropped \/ queued > 0)
            /\ attempts' = IF MayReconnect /\ sock = "none" THEN 0 ELSE attempts
       ELSE UNCHANGED <<sockVars, state, enc, inputVars, info, intentional,
                       attempts, timers, dropped, misled>>
    /\ UNCHANGED <<stored, ble, sending, fails>>

\* pagehide.  A browser does not keep a page that uses Bluetooth.
PageHide ==
    /\ ~ble
    /\ visible' = FALSE /\ suspended' = TRUE
    /\ timers' = {} /\ enc' = FALSE /\ state' = "disconnected"
    /\ IF sock = "open" THEN CloseSocket ELSE UNCHANGED sockVars
    /\ UNCHANGED <<inputVars, info, stored, intentional, attempts, ble, sending,
                   fails, histVars>>

BleVerified ==
    /\ ~ble /\ enc /\ link = "paired"
    /\ ble' = TRUE
    /\ UNCHANGED <<sockVars, state, enc, inputVars, keepVars, timers, visible,
                   sending, fails, histVars>>

BleLost ==
    /\ ble
    /\ ble' = FALSE
    /\ UNCHANGED <<sockVars, state, enc, inputVars, keepVars, timers, visible,
                   sending, fails, histVars>>

-----------------------------------------------------------------------------
(* The socket *)

\* onopen: the phone sends join_session.  The error of an earlier socket, which
\* was closed at once, is reported before.
Opens ==
    /\ sock = "connecting" /\ ~stale
    /\ sock' = "open" /\ suspended' = FALSE /\ attempts' = 0
    /\ UNCHANGED <<stale, link, asked, state, enc, inputVars, info, stored,
                   intentional,
                   timers, worldVars, histVars>>

\* The phone reconnects by itself after a loss.
MayRetry == info /\ state # "preempted" /\ attempts < MaxAttempts

\* onclose, after onerror if `error`: a page in view retries, up to MaxAttempts
\* times, and buffers what the user types when there was an encrypted session.
Closes(error) ==
    LET grace == ~ble /\ (enc \/ buffered) /\ GraceStarts
        away == ~visible \/ suspended
        retry == ~intentional /\ ~away /\ MayRetry
    IN
    /\ sock # "none" /\ fails < MaxFails
    /\ fails' = fails + 1
    /\ sock' = "none" /\ link' = "no" /\ asked' = FALSE
    /\ attempts' = IF retry THEN attempts + 1 ELSE attempts
    /\ state' = IF retry THEN "connecting" ELSE "disconnected"
    /\ buffered' = IF ~intentional /\ away THEN FALSE
                   ELSE buffered \/ (grace /\ (error \/ ~intentional))
    /\ timers' = (timers \ {"connect", "handshake"})
                 \cup (IF grace /\ (error \/ ~(intentional \/ away))
                       THEN {"grace"} ELSE {})
                 \cup (IF retry THEN {"reconnect"} ELSE {})
    /\ UNCHANGED <<stale, enc, had, queued, info, stored, intentional, suspended,
                   visible, ble, sending, histVars>>

\* onerror of a socket that was closed while it was connecting
StaleError ==
    /\ stale
    /\ stale' = FALSE
    /\ IF ble
       THEN state' = "connecting" /\ UNCHANGED <<buffered, timers>>
       ELSE IF (enc \/ buffered) /\ GraceStarts
       THEN /\ state' = "connecting" /\ buffered' = TRUE
            /\ timers' = timers \cup {"grace"}
       ELSE UNCHANGED <<state, buffered, timers>>
    /\ UNCHANGED <<sock, link, asked, enc, had, queued, keepVars, worldVars,
                   histVars>>

-----------------------------------------------------------------------------
(* Messages *)

\* joined
Joined ==
    /\ sock = "open" /\ link = "no"
    /\ link' = "alone" /\ state' = "connected"
    /\ timers' = timers \ {"connect"}
    /\ UNCHANGED <<sock, stale, asked, enc, inputVars, keepVars, worldVars,
                   histVars>>

\* peer_joined: a handshake begins, unless BLE is ready.
PeerJoined ==
    /\ sock = "open" /\ link = "alone"
    /\ link' = "paired"
    /\ IF ble
       THEN timers' = timers \ {"connect"} /\ UNCHANGED <<asked, enc>>
       ELSE /\ timers' = (timers \ {"connect"}) \cup {"handshake"}
            /\ asked' = TRUE /\ enc' = FALSE
    /\ UNCHANGED <<sock, stale, state, inputVars, keepVars, worldVars, histVars>>

\* Mutant of PcAnswers: the grace timer is not stopped.
KeepGrace ==
    /\ sock = "open" /\ link = "paired" /\ asked
    /\ asked' = FALSE
    /\ enc' = TRUE /\ had' = TRUE /\ buffered' = FALSE /\ queued' = 0
    /\ timers' = timers \ {"handshake"}
    /\ UNCHANGED <<sock, stale, link, state, keepVars, worldVars, histVars>>

\* pc_ratchet_init: the session is encrypted and the queue is flushed.
PcAnswers ==
    /\ sock = "open" /\ link = "paired" /\ asked
    /\ asked' = FALSE
    /\ enc' = TRUE /\ had' = TRUE /\ buffered' = FALSE /\ queued' = 0
    /\ timers' = timers \ {"handshake", "grace"}
    /\ UNCHANGED <<sock, stale, link, state, keepVars, worldVars, histVars>>

\* Mutant of PeerLeft: no time limit for the PC to come back.
WaitForPC ==
    /\ sock = "open" /\ link = "paired" /\ fails < MaxFails
    /\ fails' = fails + 1
    /\ link' = "alone" /\ asked' = FALSE
    /\ enc' = (enc /\ ble) /\ state' = "connecting"
    /\ timers' = timers \ {"handshake"}
    /\ UNCHANGED <<sock, stale, inputVars, keepVars, visible, ble, sending,
                   histVars>>

\* peer_left, temporary: the PC's connection is lost.
PeerLeft ==
    /\ sock = "open" /\ link = "paired" /\ fails < MaxFails
    /\ fails' = fails + 1
    /\ link' = "alone" /\ asked' = FALSE
    /\ enc' = (enc /\ ble) /\ state' = "connecting"
    /\ timers' = (timers \ {"handshake"}) \cup {"connect"}
    /\ UNCHANGED <<sock, stale, inputVars, keepVars, visible, ble, sending,
                   histVars>>

\* peer_left: the session is destroyed.
SessionGone ==
    /\ sock = "open" /\ link \in {"alone", "paired"}
    /\ link' = "gone" /\ asked' = FALSE
    /\ enc' = FALSE /\ state' = "disconnected"
    /\ info' = FALSE /\ intentional' = TRUE
    /\ timers' = timers \ {"handshake"}
    /\ UNCHANGED <<sock, stale, inputVars, stored, suspended, attempts,
                   worldVars, histVars>>

\* error: there is no PC to relay to.
NoPeer ==
    /\ sock = "open" /\ link = "alone"
    /\ timers' = timers \ {"connect", "handshake"}
    /\ state' = IF enc THEN state ELSE "connected"
    /\ UNCHANGED <<sockVars, enc, inputVars, keepVars, worldVars, histVars>>

\* Any other error: the token is not accepted, the server shuts down.
ServerError ==
    /\ sock = "open"
    /\ timers' = timers \ {"connect", "handshake"}
    /\ IF enc
       THEN UNCHANGED <<sockVars, state, intentional>>
       ELSE CloseSocket /\ state' = "disconnected" /\ intentional' = TRUE
    /\ UNCHANGED <<enc, inputVars, info, stored, suspended, attempts, worldVars,
                   histVars>>

\* Mutant of Preempted: the close does not count as intended.
PreemptedOnce ==
    /\ sock = "open" /\ link \in {"alone", "paired"}
    /\ CloseSocket
    /\ state' = "preempted" /\ ousted' = ~sending
    /\ timers' = timers \ {"connect", "handshake"}
    /\ UNCHANGED <<enc, inputVars, keepVars, worldVars, dropped, misled>>

\* preempted: another device joined the session.
Preempted ==
    /\ sock = "open" /\ link \in {"alone", "paired"}
    /\ CloseSocket
    /\ state' = "preempted" /\ intentional' = TRUE /\ ousted' = ~sending
    /\ timers' = timers \ {"connect", "handshake"}
    /\ UNCHANGED <<enc, inputVars, info, stored, suspended, attempts, worldVars,
                   dropped, misled>>

-----------------------------------------------------------------------------
(* Timers *)

ReconnectFires ==
    /\ "reconnect" \in timers
    /\ IF info /\ sock = "none"
       THEN Connect /\ dropped' = (dropped \/ queued > 0)
       ELSE /\ timers' = timers \ {"reconnect"}
            /\ UNCHANGED <<sockVars, state, enc, inputVars, info, intentional,
                           dropped, misled>>
    /\ UNCHANGED <<stored, suspended, attempts, worldVars, ousted>>

\* The connect timer gives up, unless the session is encrypted by now.
ConnectFires ==
    /\ "connect" \in timers
    /\ timers' = timers \ {"connect"}
    /\ IF enc \/ state = "preempted"
       THEN UNCHANGED <<sockVars, state, intentional>>
       ELSE CloseSocket /\ state' = "disconnected" /\ intentional' = TRUE
    /\ UNCHANGED <<enc, inputVars, info, stored, suspended, attempts, worldVars,
                   histVars>>

\* failHandshake
HandshakeFires ==
    /\ "handshake" \in timers
    /\ IF enc
       THEN timers' = timers \ {"handshake"} /\ UNCHANGED <<sockVars, state,
                                                            intentional>>
       ELSE /\ timers' = timers \ {"handshake", "reconnect"}
            /\ CloseSocket /\ state' = "disconnected" /\ intentional' = TRUE
    /\ UNCHANGED <<enc, inputVars, info, stored, suspended, attempts, worldVars,
                   histVars>>

\* The end of the offline grace: the buffered input is given up.
GraceFires ==
    /\ "grace" \in timers
    /\ timers' = timers \ {"grace"}
    /\ buffered' = FALSE /\ queued' = 0
    /\ enc' = FALSE /\ state' = "disconnected"
    /\ UNCHANGED <<sockVars, had, keepVars, worldVars, histVars>>

-----------------------------------------------------------------------------
User == Scan \/ Retry \/ Cancel \/ Begin \/ Finish \/ Send \/ Hide
        \/ (\E appears \in BOOLEAN : Show(appears)) \/ PageHide
Message == Joined \/ PeerJoined \/ PcAnswers \/ PeerLeft \/ SessionGone \/ NoPeer
           \/ ServerError \/ Preempted
Timer == ReconnectFires \/ ConnectFires \/ HandshakeFires \/ GraceFires

Next ==
    \/ User \/ BleVerified \/ BleLost
    \/ Opens \/ (\E error \in BOOLEAN : Closes(error)) \/ StaleError
    \/ Message \/ Timer

Spec == Init /\ [][Next]_vars

\* The browser fires the timers that are armed.
Fairness ==
    /\ WF_vars(ReconnectFires) /\ WF_vars(ConnectFires)
    /\ WF_vars(HandshakeFires) /\ WF_vars(GraceFires)
FairSpec == Spec /\ Fairness

-----------------------------------------------------------------------------
(* Properties *)

FlagType ==
    /\ stale \in BOOLEAN /\ asked \in BOOLEAN
    /\ enc \in BOOLEAN /\ had \in BOOLEAN /\ buffered \in BOOLEAN
    /\ info \in BOOLEAN /\ stored \in BOOLEAN /\ intentional \in BOOLEAN
    /\ suspended \in BOOLEAN /\ visible \in BOOLEAN
    /\ ble \in BOOLEAN

HistType ==
    sending \in BOOLEAN /\ dropped \in BOOLEAN /\ ousted \in BOOLEAN /\ misled \in BOOLEAN

DataType ==
    /\ sock \in {"none", "connecting", "open"}
    /\ link \in {"no", "alone", "paired", "gone"}
    /\ state \in {"disconnected", "connecting", "connected", "preempted"}
    /\ queued \in 0 .. MaxQueue /\ attempts \in 0 .. MaxAttempts
    /\ fails \in 0 .. MaxFails
    /\ timers \subseteq {"reconnect", "connect", "handshake", "grace"}

TypeOK == FlagType /\ HistType /\ DataType

\* The phone never has two connections under way: while it has a socket, no timer
\* is armed that would make another.
OneAttempt == "reconnect" \in timers => sock = "none"

\* No timer is left over from the loss of an earlier connection that could end a
\* session whose handshake is complete.
SecureSessionIsSafe ==
    sock = "open" /\ link = "paired" /\ enc => timers \cap {"handshake", "grace"} = {}

\* A phone that another one has replaced, and that had nothing under way, stays off
\* the relay until its user acts on it again (scans, retries, types, sends, brings back
\* a page that shows it as disconnected); no timer and no event of the network fights
\* back.  What was under way does: a chunk that fails shows "connecting" instead of
\* "preempted", and the next one, or its own retry, connects.
OustedStays == ousted => sock = "none"

\* On a phone without BLE, which has not ended the connection itself, "connecting"
\* without an encrypted session does not last: it gets through or says that it does
\* not.  Except where a send that has failed shows it on a phone that had given up.
ConnectingEnds ==
    []~ble => (state = "connecting" /\ ~enc /\ ~intentional /\ ~misled
               ~> state # "connecting" \/ enc \/ misled)

\* "You can keep typing. n buffered commands will replay after reconnect.": what the
\* user types without a connection waits for the reconnection, which does not drop it.
BufferedReplays == ~dropped
=============================================================================
