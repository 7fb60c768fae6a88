----------------------------- MODULE BlePairing -----------------------------
(***************************************************************************)
(* How the phone brings the session onto Bluetooth: useBlePairing.ts, the  *)
(* authorization in App.tsx, and DesktopBlePairingService.cs on the PC.    *)
(*                                                                         *)
(* requestPairing connects, announces a new key, has it authorized in the  *)
(* encrypted session, and then presents it over Bluetooth (client_hello).  *)
(* When the connection is lost, each listener starts a coroutine that      *)
(* connects and authorizes again; nothing ends such a coroutine but its    *)
(* own success or its last attempt.  A key is the number of its request.   *)
(*                                                                         *)
(* As in FileUpload, "mishaps" names the defects of the code that have     *)
(* shown, and a property makes an exception of those that can break it.    *)
(***************************************************************************)
EXTENDS Naturals, Sequences, FiniteSets, SequencesExt

CONSTANTS
    MaxAttempts, \* of a reconnection: 5 in the code
    MaxRequests, \* bound: calls of requestPairing
    MaxLosses,   \* bound: losses of the connection or of the encrypted session
    MaxLoops     \* bound: reconnections that run when the connection is ended or lost

ASSUME BlePairingAssumption ==
    MaxAttempts \in Nat \ {0} /\ {MaxRequests, MaxLosses, MaxLoops} \subseteq Nat

NoKey == 0

VARIABLES
    \* the phone
    requests,       \* where each call of requestPairing is, by its key
    connecting,     \* isConnecting
    loops,          \* the reconnections that run: where each is, and its attempt
    key,            \* handshakeRef
    authKey,        \* bleAuthorizedPublicKey
    helloSent,      \* helloSentRef
    writing,        \* the hellos that are being written: key, whether they can be
    channelReady,   \* isBleChannelReady
    transportReady, \* isTransportReady
    hasChar,        \* writeCharacteristicRef is set
    named,          \* deviceName is set
    listeners,      \* listeners of gattserverdisconnected
    watched,        \* gattDisconnectHandlerRef holds one of them
    timers,         \* that of authTimeoutRef ("held"), one that nobody can stop ("stray")
    error,          \* what the user is told
    \* between them
    linked,         \* the Bluetooth connection
    asks, oks,      \* ble_auth and ble_auth_ok in the encrypted session
    notices,        \* notifications on the way to the phone
    \* the PC
    authorized,     \* _authorizedRemotePublicKeys
    notifyReady,    \* _notificationReadyPublicKeys
    pending,        \* the keys of _pendingVerifiedEnvelopes
    tasks,          \* the writes that are being handled
    \* history
    off,            \* whether the user has disconnected and not asked for a pairing since;
                    \* "partly": something of the phone's ran on
    mishaps, losses

phoneVars == <<key, authKey, helloSent, writing, channelReady, transportReady, hasChar,
               named, listeners, watched, timers, error>>
sessionVars == <<asks, oks>>
pcVars == <<authorized, notifyReady, pending, tasks>>
requestVars == <<requests, connecting>>
vars == <<requestVars, loops, phoneVars, linked, sessionVars, notices, pcVars, off, mishaps,
          losses>>

Mishaps == {"unwatched", "skipped", "raced", "session", "early", "failed"}

Init ==
    /\ requests = [r \in 1..MaxRequests |-> "idle"] /\ connecting = FALSE
    /\ loops = <<>> /\ key = NoKey /\ authKey = NoKey
    /\ helloSent = FALSE /\ writing = {} /\ channelReady = FALSE /\ transportReady = FALSE
    /\ hasChar = FALSE /\ named = FALSE /\ listeners = 0 /\ watched = FALSE
    /\ timers = {} /\ error = "none"
    /\ linked = FALSE /\ asks = <<>> /\ oks = <<>> /\ notices = <<>>
    /\ authorized = {} /\ notifyReady = {} /\ pending = {} /\ tasks = {}
    /\ off = "no" /\ mishaps = {} /\ losses = 0

-----------------------------------------------------------------------------
(* The connection *)

Task(kind, k, at) == [kind |-> kind, key |-> k, at |-> at]

\* With the connection ends what goes on over it, the given writes too.
BreakOff(writes) ==
    /\ linked' = FALSE /\ notices' = <<>>
    /\ writing' = {[w EXCEPT !.ok = FALSE] : w \in writes}

\* The coroutines after a loss that n listeners notice: one more for each.
LoopsAfter(n) ==
    [i \in DOMAIN loops |-> IF loops[i].at = "asleep" THEN loops[i]
                            ELSE [loops[i] EXCEPT !.at = "broken"]]
    \o [i \in 1 .. n |-> [at |-> "asleep", attempt |-> 1]]

Room == linked => Len(loops) + listeners <= MaxLoops

\* onGattDisconnected of n listeners.  Without one nobody notices.
Notice(n) ==
    /\ loops' = LoopsAfter(n)
    /\ BreakOff(writing)
    /\ IF n = 0 THEN UNCHANGED <<channelReady, transportReady>>
       ELSE channelReady' = FALSE /\ transportReady' = FALSE

\* A connection is made; the characteristics are got and their notifications started.
Connected ==
    /\ linked' = TRUE /\ hasChar' = TRUE
    /\ mishaps' = mishaps \cup (IF listeners = 0 THEN {"unwatched"} ELSE {})

\* Mutant of Disconnect: the last listener is forgotten before it is removed.
KeepListener(writes) ==
    /\ timers' = timers \ {"held"} /\ connecting' = FALSE
    /\ watched' = FALSE /\ UNCHANGED listeners
    /\ loops' = IF linked THEN LoopsAfter(listeners) ELSE loops
    /\ BreakOff(writes)
    /\ hasChar' = FALSE /\ channelReady' = FALSE /\ transportReady' = FALSE
    /\ named' = FALSE /\ helloSent' = FALSE

\* disconnect: the last listener is removed; any other one starts a reconnection.  A
\* request that runs runs on, and another one can be made beside it.
Disconnect(writes) ==
    LET n == IF watched THEN listeners - 1 ELSE listeners IN
    /\ timers' = timers \ {"held"} /\ connecting' = FALSE
    /\ listeners' = n /\ watched' = FALSE
    /\ loops' = IF linked THEN LoopsAfter(n) ELSE loops
    /\ BreakOff(writes)
    /\ hasChar' = FALSE /\ channelReady' = FALSE /\ transportReady' = FALSE
    /\ named' = FALSE /\ helloSent' = FALSE

\* onAuthorizePublicKey, by authorizeBle: the key is sent in the encrypted session.
Authorize ==
    /\ authKey' = NoKey
    /\ asks' = Append(asks, key)

\* notify_ready has been written: the channel is ready, the key is to be authorized.
Announce ==
    /\ linked
    /\ tasks' = tasks \cup {Task("notify_ready", key, "new")}
    /\ channelReady' = TRUE /\ Authorize

-----------------------------------------------------------------------------
(* requestPairing *)

requestRest == <<sessionVars, notices, pcVars, losses>>

\* With the connection the requests that use it fail.
RequestsBreak ==
    requests' = [r \in DOMAIN requests |->
                    IF requests[r] = "connected" THEN "broken" ELSE requests[r]]

Moves(r, from, to) == requests[r] = from /\ requests' = [requests EXCEPT ![r] = to]

\* The panel offers it while the transport is not ready.
RequestPairing ==
    /\ ~connecting /\ ~transportReady /\ key < MaxRequests
    /\ key' = key + 1 /\ connecting' = TRUE /\ Moves(key', "idle", "choosing")
    /\ error' = "none" /\ off' = "no"
    /\ timers' = timers \ {"held"} /\ helloSent' = FALSE /\ channelReady' = FALSE
    /\ UNCHANGED <<loops, authKey, writing, transportReady, hasChar, named, listeners,
                   watched, linked, requestRest, mishaps>>

ChooseDevice(r) ==
    /\ Moves(r, "choosing", "connecting")
    /\ listeners' = listeners + 1 /\ watched' = TRUE /\ named' = TRUE
    /\ UNCHANGED <<connecting, loops, key, authKey, helloSent, writing, channelReady,
                   transportReady, hasChar, timers, error, linked, requestRest, off, mishaps>>

Connect(r) ==
    /\ Moves(r, "connecting", "connected")
    /\ Connected
    /\ UNCHANGED <<connecting, loops, key, authKey, helloSent, writing, channelReady,
                   transportReady, named, listeners, watched, timers, error, requestRest, off>>

\* What is announced is the present key, which may be another request's.  The last call
\* of sendClientHelloIfAuthorized does nothing: it sees the key that was authorized
\* before this request.
FinishRequest(r) ==
    /\ Moves(r, "connected", "idle") /\ connecting' = FALSE
    /\ Announce
    /\ timers' = {"held"} \cup (IF timers = {} THEN {} ELSE {"stray"})
    /\ UNCHANGED <<loops, key, helloSent, writing, transportReady, hasChar, named,
                   listeners, watched, error, linked, oks, notices, authorized, notifyReady,
                   pending, off, mishaps, losses>>

\* Its disconnect ends the connection that others may have made.
RequestFails(r) ==
    /\ requests[r] # "idle" /\ Room
    /\ requests' = [q \in DOMAIN requests |->
                       IF q = r THEN "idle"
                       ELSE IF requests[q] = "connected" THEN "broken" ELSE requests[q]]
    /\ error' = "failed" /\ Disconnect(writing)
    /\ UNCHANGED <<key, authKey, sessionVars, pcVars, off, mishaps, losses>>

\* No coroutine runs, and there is no listener but the one that disconnect removes.
Alone ==
    /\ loops = <<>> /\ \A r \in DOMAIN requests : requests[r] = "idle"
    /\ listeners = IF watched THEN 1 ELSE 0

\* The user disconnects, in the same panel.
UserDisconnects ==
    /\ named /\ ~transportReady /\ Room
    /\ Disconnect(writing) /\ RequestsBreak
    /\ off' = IF Alone THEN "yes" ELSE "partly"
    /\ UNCHANGED <<key, authKey, error, sessionVars, pcVars, mishaps,
                   losses>>

\* The timer of 8 s: nobody has confirmed the key.
AuthTimeout ==
    /\ \E t \in timers : timers' = timers \ {t}
    /\ error' = IF helloSent THEN error ELSE "timeout"
    /\ UNCHANGED <<requestVars, loops, key, authKey, helloSent, writing, channelReady,
                   transportReady, hasChar, named, listeners, watched, linked, requestRest,
                   off, mishaps>>

-----------------------------------------------------------------------------
(* The reconnections *)

GattDrops ==
    /\ linked /\ losses < MaxLosses /\ losses' = losses + 1 /\ Room
    /\ Notice(listeners) /\ RequestsBreak
    /\ UNCHANGED <<connecting, key, authKey, helloSent, hasChar, named, listeners,
                   watched, timers, error, sessionVars, pcVars, off, mishaps>>

LoopConnects(i) ==
    /\ loops[i].at = "asleep"
    /\ loops' = [loops EXCEPT ![i].at = "connected"]
    /\ Connected
    /\ UNCHANGED <<requestVars, key, authKey, helloSent, writing, channelReady, transportReady,
                   named, listeners, watched, timers, error, requestRest, off>>

LoopFinishes(i) ==
    /\ loops[i].at = "connected"
    /\ loops' = RemoveAt(loops, i)
    /\ Announce
    /\ UNCHANGED <<requestVars, key, helloSent, writing, transportReady, hasChar, named,
                   listeners, watched, timers, error, linked, oks, notices, authorized,
                   notifyReady, pending, off, mishaps, losses>>

\* An attempt fails; the last one ends the reconnection.
LoopFails(i) ==
    /\ loops' = IF loops[i].attempt < MaxAttempts
                THEN [loops EXCEPT ![i] = [at |-> "asleep", attempt |-> @.attempt + 1]]
                ELSE RemoveAt(loops, i)
    /\ UNCHANGED <<requestVars, phoneVars, linked, requestRest, off, mishaps>>

-----------------------------------------------------------------------------
(* The hello *)

\* Mutant of MaySend: any confirmation will do.
AnyKey(k) == hasChar /\ channelReady /\ ~helloSent /\ k # NoKey

\* sendClientHelloIfAuthorized may send.
MaySend(k) == hasChar /\ channelReady /\ ~helloSent /\ k = key

\* ble_auth_ok arrives, and the effect of authorizedPublicKey runs.
TakeOk ==
    /\ oks # <<>> /\ oks' = Tail(oks) /\ authKey' = Head(oks)
    /\ IF MaySend(authKey')
       THEN /\ helloSent' = TRUE /\ timers' = timers \ {"held"}
            /\ writing' = writing \cup {[key |-> key, ok |-> linked]}
       ELSE UNCHANGED <<helloSent, timers, writing>>
    /\ mishaps' = mishaps
         \cup (IF channelReady /\ helloSent /\ authKey' = key /\ writing = {}
               THEN {"skipped"} ELSE {})
         \cup (IF authKey' = key /\ MaySend(key) /\ key \in Range(asks)
               THEN {"early"} ELSE {})
    /\ UNCHANGED <<requestVars, loops, key, channelReady, transportReady, hasChar, named,
                   listeners, watched, error, linked, asks, notices, pcVars, off, losses>>

\* SendAsync: without a subscriber the notice is lost.  If the PC fails with it, another
\* one says so (WriteCharacteristic_WriteRequested).
Send(notice) ==
    IF linked THEN \E n \in {notice, "failed"} : notices' = Append(notices, n)
              ELSE UNCHANGED notices

\* HandleClientHelloAsync up to its first await: an authorization serves once.
Consume(k) ==
    IF k \in authorized
    THEN /\ authorized' = authorized \ {k}
         /\ tasks' = tasks \cup {Task("client_hello", k, "gate")}
         /\ UNCHANGED notices
    ELSE Send("refused") /\ UNCHANGED <<authorized, tasks>>

\* client_hello has been written.
HelloWritten(w) ==
    /\ w.ok /\ writing' = writing \ {w}
    /\ transportReady' = TRUE /\ error' = "none"
    /\ Consume(w.key)
    /\ UNCHANGED <<requestVars, loops, key, authKey, helloSent, channelReady, hasChar, named,
                   listeners, watched, timers, linked, sessionVars, notifyReady, pending,
                   off, mishaps, losses>>

\* It cannot be written.
HelloFails(w) ==
    /\ ~w.ok /\ error' = "failed"
    /\ Disconnect(writing \ {w}) /\ RequestsBreak
    /\ UNCHANGED <<key, authKey, sessionVars, pcVars, off, mishaps, losses>>

\* handleNotify
TakeNotice ==
    /\ notices # <<>> /\ notices' = Tail(notices)
    /\ transportReady' = (Head(notices) = "verified")
    /\ error' = IF Head(notices) = "verified" THEN "none" ELSE Head(notices)
    /\ mishaps' = IF Head(notices) = "failed" THEN mishaps \cup {"failed"} ELSE mishaps
    /\ UNCHANGED <<requestVars, loops, key, authKey, helloSent, writing, channelReady, hasChar,
                   named, listeners, watched, timers, linked, sessionVars, pcVars, off,
                   losses>>

\* sendEncryptedMessage has failed three times.
GiveUp ==
    /\ transportReady /\ ~linked
    /\ transportReady' = FALSE /\ error' = "failed"
    /\ UNCHANGED <<requestVars, loops, key, authKey, helloSent, writing, channelReady, hasChar,
                   named, listeners, watched, timers, linked, requestRest, off, mishaps>>

-----------------------------------------------------------------------------
(* The PC *)

pcRest == <<requestVars, loops, phoneVars, linked, off, losses>>

\* Mutant of TakeAsk: it is not confirmed.
SilentAsk ==
    /\ asks # <<>> /\ asks' = Tail(asks)
    /\ authorized' = authorized \cup {Head(asks)}
    /\ UNCHANGED <<oks, notices, notifyReady, pending, tasks, pcRest, mishaps>>

\* ble_auth: AuthorizeRemotePublicKey
TakeAsk ==
    /\ asks # <<>> /\ asks' = Tail(asks)
    /\ authorized' = authorized \cup {Head(asks)}
    /\ oks' = Append(oks, Head(asks))
    /\ UNCHANGED <<notices, notifyReady, pending, tasks, pcRest, mishaps>>

Handled(t, at) == (tasks \ {t}) \cup {[t EXCEPT !.at = at]}

\* Mutant of HandleNotifyReady: a cached answer is not sent.
OnlyMark(t) ==
    /\ t.kind = "notify_ready" /\ tasks' = tasks \ {t}
    /\ notifyReady' = notifyReady \cup {t.key}
    /\ mishaps' = IF Task("client_hello", t.key, "cache") \in tasks
                  THEN mishaps \cup {"raced"} ELSE mishaps
    /\ UNCHANGED <<pending, notices, sessionVars, authorized, pcRest>>

\* HandleNotifyReadyAsync
HandleNotifyReady(t) ==
    /\ t.kind = "notify_ready" /\ tasks' = tasks \ {t}
    /\ notifyReady' = notifyReady \cup {t.key}
    /\ IF t.key \in pending
       THEN pending' = pending \ {t.key} /\ Send("verified")
       ELSE UNCHANGED <<pending, notices>>
    /\ mishaps' = IF Task("client_hello", t.key, "cache") \in tasks
                  THEN mishaps \cup {"raced"} ELSE mishaps
    /\ UNCHANGED <<sessionVars, authorized, pcRest>>

\* Behind _pairingGate it finds the PC without a session, ...
NoSession(t) ==
    /\ t.at = "gate" /\ \A u \in tasks : u.at \notin {"send", "cache"}
    /\ tasks' = tasks \ {t} /\ Send("failed")
    /\ UNCHANGED <<sessionVars, authorized, notifyReady, pending, pcRest, mishaps>>

\* ... or looks whether the phone takes notifications, ...
CheckReady(t) ==
    /\ t.at = "gate" /\ \A u \in tasks : u.at \notin {"send", "cache"}
    /\ tasks' = Handled(t, IF t.key \in notifyReady THEN "send" ELSE "cache")
    /\ UNCHANGED <<sessionVars, notices, authorized, notifyReady, pending, pcRest, mishaps>>

\* ... and then answers or keeps the answer.
Answer(t) ==
    /\ t.at \in {"send", "cache"} /\ tasks' = tasks \ {t}
    /\ IF t.at = "send" THEN Send("verified") /\ UNCHANGED pending
       ELSE pending' = pending \cup {t.key} /\ UNCHANGED notices
    /\ UNCHANGED <<sessionVars, authorized, notifyReady, pcRest, mishaps>>

\* The encrypted session is lost, with what is on the way.
SessionDrops ==
    /\ losses < MaxLosses /\ losses' = losses + 1
    /\ asks \o oks # <<>> /\ asks' = <<>> /\ oks' = <<>>
    /\ mishaps' = mishaps \cup {"session"}
    /\ UNCHANGED <<requestVars, loops, phoneVars, linked, notices, pcVars, off>>

-----------------------------------------------------------------------------
Request ==
    \/ RequestPairing
    \/ \E r \in DOMAIN requests :
          ChooseDevice(r) \/ Connect(r) \/ FinishRequest(r) \/ RequestFails(r)
Loop(i) == LoopConnects(i) \/ LoopFinishes(i) \/ LoopFails(i)
Hello(w) == w \in writing /\ (HelloWritten(w) \/ HelloFails(w))
Handle(t) == HandleNotifyReady(t) \/ NoSession(t) \/ CheckReady(t) \/ Answer(t)

Next ==
    \/ Request \/ UserDisconnects \/ AuthTimeout \/ GattDrops
    \/ (\E i \in DOMAIN loops : Loop(i))
    \/ TakeOk \/ (\E w \in writing : Hello(w)) \/ TakeNotice \/ GiveUp
    \/ TakeAsk \/ (\E t \in tasks : Handle(t)) \/ SessionDrops

Spec == Init /\ [][Next]_vars

\* What arrives is handled, and a write ends.
FairSpec ==
    /\ Spec
    /\ WF_vars(TakeAsk) /\ WF_vars(TakeOk) /\ WF_vars(TakeNotice)
    /\ WF_vars(\E w \in writing : Hello(w))

-----------------------------------------------------------------------------
(* Properties *)

Spared(exceptions) == mishaps \cap exceptions = {}

\* A connection that the user has ended stays ended, and nobody tries to make it again:
\* disconnect leaves no listener that would.  Except when a reconnection or a request was
\* running or an older listener was left ("partly"), none of which disconnect ends.
OffStaysOff == off = "yes" => ~linked /\ loops = <<>>

\* The PC never refuses a hello of the phone: its key is authorized first.  Except when
\* the phone takes the answer to an earlier request for the same key for this one's.
NeverRefused == Spared({"early"}) => error # "refused" /\ "refused" \notin Range(notices)

\* The PC keeps no answer back from a phone that takes notifications.  Except when its
\* notify_ready was handled between the look at it and the keeping of the answer.
NoAnswerKept == Spared({"raced"}) => pending \cap notifyReady = {}

\* A channel is used: Bluetooth becomes ready or the channel is lost.  Except when the
\* session loses the authorization, when a loss goes unnoticed, when a hello is refused (as
\* above) or the PC fails with it, and when the connection was lost and regained: helloSent
\* is still set, and the key is never presented again.
ChannelIsUsed ==
    []Spared({"session", "unwatched", "early", "skipped", "failed"})
    => (channelReady ~> (transportReady \/ ~channelReady))
=============================================================================
