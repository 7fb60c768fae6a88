# Fluentia: verification project

Fluentia lets a phone type on a PC. A page on the phone (`src/mobile`, TypeScript) and a
desktop program (`src/client`, C#) meet in a session of a relay server (`src/server`, Go),
agree on ratchet keys and exchange end-to-end encrypted commands: text diffs, clipboard,
file chunks. When both have Bluetooth they also pair over BLE, which takes over while the
phone's socket is down.

This directory holds TLA+ models of that system, TLC configurations that check them, and
TLAPS proofs. `PROJECT.json` maps each definition to the source lines it models and lists
runs, mutants, hazards, findings and theorems.

    tlc -config relay_links.cfg MCRelayHub       # any run: <run>.cfg and its module
    tlapm RelayHub_proofs.tla                    # any *_proofs module

## 1. Inventory

| part | code | state | operations | interacts through |
|---|---|---|---|---|
| relay hub | `server/hub.go`, `room.go` | sessions, clients, device codes, fingerprints, grace timers | create, rejoin, join, device code request/join/confirm/reject, relay, unregister, expire | the clients' send channels; all handlers hold `Hub.mu` |
| session store | `server/session_store.go` | a JSON file | snapshot, write in a goroutine, load | goroutines started under `Hub.mu`, ordered by nothing |
| relay connections | `server/client.go`, `main.go` | send channel, closed once | admission, read loop, write loop, kick | `Register`, `HandleMessage`, `Unregister` |
| secure link | `useWebSocket.ts`, `crypto.ts`; `RoomManager.cs`, `CryptoService.cs` | key pairs, send and receive chains, replay window, "confirmed" | handshake, encrypt, decrypt, reset | relayed messages, BLE writes |
| phone connection | `useWebSocket.ts`, `App.tsx` | socket, timers, attempts, command queue | connect, heartbeat, back-off, offline grace, suspend, flush | secure link, input, files |
| device-code pairing | `QRScanner.tsx`, `App.tsx`, `hub.go`, `MainWindow.xaml.cs` | scanner, pairing sockets, two refs, pending phone, dialogs | scan, submit, cancel, leave, hand over, confirm, reject | sockets of its own, then the phone connection |
| desktop session | `RoomManager.cs`, `WebSocketService.cs`, `MainWindow.*.cs` | socket, connect lock, reconnect task; token, keys, rejoin flag; QR code, settings file, button | connect, reconnect, rejoin, fall back to create, refresh, save, restart | relay hub; thread pool and dispatcher |
| BLE pairing | `useBlePairing.ts`, `DesktopBlePairingService.cs` | keys, ready flags, listeners, reconnection coroutines; authorized keys, kept answers | request, reconnect, authorize, hello, notify, disconnect | authorizes over the secure link |
| transport health | `transportHealth.ts`, `DesktopTransportHealth.cs` | success and failure counters | select, probe | not passed to the hook by `App.tsx`, no BLE transport registered on the PC |
| text input | `InputArea.tsx`, `diff.ts`, `MainWindow.xaml.cs` | text shown, text counted as sent; command queue, target window, buffer | type, compose, paste, commit, debounce; batch, inject, clear | secure link; windows of the PC |
| file transfer | `FileTransfer.tsx`, `MainWindow.TransferUi.cs`, `useWebSocket.ts` | chunks sent and received, pause and cancel flags | start, chunk, retry, pause, cancel, complete, hide | secure link; the flags are shared by all batches |
| the rest | UI, settings, localisation, regex filters, QR, focus recovery, rate limits, build | | | |

What is hard:

* **Relay hub.** Handlers are serialised, so the danger is not a data race but pointers:
  a pair PC-phone is four pointers (`session.PC`, `session.Mobile`, twice `c.session`), and
  a kick, a preemption, a disconnect, a refresh and an expiry each clear some of them in a
  place of its own. Device codes keep two more. Timers fire while the PC is rejoining.
  Correct: the pointers stay mutual, nobody sends on a closed channel, a session lives until
  its deadline and not longer, each client knows whether it has a peer.
* **Session store.** The process may stop between a change and its write, and writes have
  no order. Correct: no session that the hub still counts as valid is missing from what will
  be the file's content.
* **Secure link.** A handshake of four messages between two sides that reconnect and restart
  on their own, over two transports of which one reorders. Correct: no message is
  accepted twice or after a newer one, a session shown as encrypted has the same keys on
  both sides, and the handshake completes when the network lets it.
* **Phone connection.** Asynchronous callbacks against timers: a queue flushed while it grows,
  connections that must be neither doubled nor missing.
* **Desktop session.** A user, a loop and a lock between them that make connections, and
  token and keys that change at different times, in different places, by answers that may
  never come. Correct: the PC is connected or somebody is at it, and at rest hub, PC, QR
  code, settings and phone have the same session and keys.
* **Text input.** Three clocks (60 ms on the phone, 100 ms and 300 ms on the PC), two texts that
  each side believes to have been sent or typed, and a focus that moves in between. Correct: the PC
  deletes nothing but what it has typed, nothing stays behind on the phone, paragraphs
  arrive in order, and no character in two windows.
* **File transfer.** Coroutines that share their flags with those of the next batch, chunks
  that carry a number which the PC ignores. Correct: a file that is saved or offered is
  whole, one that was cancelled is not offered, "completed" means sent, and a batch ends.
* **BLE and device-code pairing.** Coroutines and sockets that outlive the screen that started them,
  and answers that do not say which request they belong to. Correct: what the user has ended
  stays ended, the phone that is admitted entered the code no earlier than the confirmed one, a key is presented
  when it has been authorized, and a channel that is ready is used.

## 2. Plan

| step | module | what | state |
|---|---|---|---|
| 1 | `RelayHub`, `MCRelayHub`, `RelayHub_proofs` | hub, connections, session store | done |
| 2 | `OrderedDelivery`, `SecureLink`, `SecureLink_proofs` | handshake and phone-to-PC ratchet; implements `OrderedDelivery` | done |
| 3 | `MobileConnection`, `MobileConnection_proofs` | socket, timers, page events and command queue of the phone | done, but for the heartbeat |
| 4 | `InputSync`, `MCInputSync`, `InputSync_proofs` | typing, diffs, focus, the PC's buffer | done |
| 5 | `FileUpload`, `FileDownload`, `FileTransfer`, `FileTransfer_proofs`, `MCFileTransfer` | batches of files in both directions | done |
| 6 | `BlePairing`, `BlePairing_proofs` | requests, reconnections, authorization, hello | done |
| 7 | `DeviceCode`, `DeviceCode_proofs` | camera, code, hand-over, confirmation | done |
| 8 | `DesktopSocket`, `DesktopSession`, `Desktop`, `Desktop_proofs` | the PC's connections; its session, keys, QR code and settings | done |
| - | PC-to-phone ratchet, transport health | | not modelled (section 14) |

Every safety invariant and action property that a passing run checks is proved (section 13).

## 3. RelayHub

**State.** A session is named by its token, numbered in the order of creation; 0 is nil.
`pcOf`, `mobileOf`, `timer` are the fields of `Session`; `live` is the key set of
`Hub.sessions` and `persisted` that of `Hub.persistedSessions`. A session that is not
live may still be pointed to by clients or by a device code, as in the code. `role`,
`sessionOf`, `device` are fields of `Client`, `clients` is `Hub.clients`, `closed` says whose
send channel is closed, `phase` where the goroutine of the connection is. `codePC` and
`pending` are a `DeviceCodeEntry`; the generator keeps at most one per session, so it is filed
under the session. `told` abstracts the status messages queued to a client: the peer named
by the last of them. `file` and `writes` are the store and the goroutines on their way to it.

**Time.** All sessions have the same validity, so they expire in the order of creation:
`horizon` says how many have. `Tick` moves it. `RejoinSession` has an alternative in which
the deadline passes between the expiry test and `GraceTimer.Stop`: `Stop` then returns false
(which the code ignores) and the timer's goroutine is left waiting for the mutex.

**Actions.** A handler under `Hub.mu` is one action, with the early returns as guards; a
return that only sends an error is a stutter and is left out. Outside the mutex: `Accept` and
`Register` (admission), the end of a read loop, `TimerFires` and
`ExpireNothing`/`ExpireSession`, `LandWrite`, `Stop`, `Restart`. A send on a closed Go
channel panics even inside `select`, and a panic in a read loop ends the process, so a
handler with such a receiver is `Panic`. A kicked phone's read loop runs on until its
socket is closed, and each further message of it is such a send. After a stop or a panic
`Restart` loads the file (`docker-compose.yml` says `restart: unless-stopped`).

**Clients.** A phone sends one join message when its socket opens; a PC starts with
`rejoin_session` or `create_session` (`Fresh`). `CreateSession` on a PC that already has a
session is the refresh of the desktop's menu.

**Proved** (`RelayHub_proofs`, every value of the constants): `TypeCorrect`,
`LinksConsistent`, `RelayMutual`. `RelayIsMutual` is not inductive: that the peer of a
running client is registered needs to know who owns which pointer after a kick, that a
fingerprint is only hydrated when no PC holds the session, and that a pending phone is in no
session. Those are the parts of `LinkInv` (`ConnInv`, `OwnerInv`, `PhoneInv`, `PCInv`,
`HydrateInv`, `PendingInv`). The proof shows `LinkInv` preserved action by action, part by
part, and derives `RelayIsMutual` from it. The only assumptions are those of
`ConstantsAssumption`: `None` and `PCPeer` are no connection or device, bounds are naturals.

**Proved on top of that.** `SpecOnlyItsPCDestroys` needs `ExpiringInv`
(the goroutine of a grace timer is only on its way past the deadline, so what it destroys was no
longer valid); `SpecLinkedPairStays` rests on `LinkInv`.
`SpecOfflineSessionsAreTimed` assumes `Restarts = FALSE`: its `TimedInv` adds that whatever could
be hydrated has expired (`HydratesExpired`), which a restart makes false.
`SpecFileIsCurrent` needs `CurrentInv`: as long as the youngest snapshot has not been written before an
older one (`overtaken`, which the code does nothing to prevent), it is the last of `writes`, or the file,
and agrees with the hub on every valid session. `SpecToldTheTruth` assumes `StaleCodes = FALSE`; a phone
can be linked to a session that the map no longer has, and `MateInv` adds that its PC is
in that session all the same, so that both are told when one goes. The two assumptions are
the settings of `relay_promises` that section 12 explains; each theorem needs only one.

## 4. SecureLink

**State.** Keys are numbers in the order in which each side generates them; 0 is null. The
phone has `sendKey`, `sendSeq`, `recvKey`, `started`; the PC `pcRecvKey`, `expectedSeq` (how
far its chain has been advanced), `highestSeen` (the replay window), `pcSendKey` and
`confirmed`. `toPc` and `toPhone` are the relayed messages, in order; `ble` holds the BLE
writes on their way, a set, because each is handled by an `async void` handler of its own.
`sent` and `last` are history.

**Encryption** is modelled by what it tells apart: a ratcheted message opens under the same
key when the chain has not passed its number; a `crypto_box` opens once the PC has the
phone's public key. `DecryptRatcheted` moves chain and window before it tries to open the
box, so a message under another key that passes the window has an effect though it is refused.

**Loss.** A connection that breaks loses the newest messages of its owner, which had not reached
the relay, and the oldest for it, which had left the relay. A BLE write can be lost by itself.
A PC restart keeps the key pair (stored with the session) and loses the ratchets.

**OrderedDelivery** is the abstract promise: messages are named by key and number; the PC
accepts only messages that were sent, each later than the one before. `DeliveredInOrder`
is that specification over `sent` and `last`.

**Proved** (`SecureLink_proofs`): `DeliveryInvariant` and `Implements`, that every step of
`SecureLink` is a `Send`, an `Accept` or a stutter of `OrderedDelivery`. Why it needs an
invariant: after a new seed `highestSeen` starts again at -1, so that nothing old is accepted
has to come from the keys. `DeliveryInv` says that whatever is numbered was sent below the
present number (`SentInv`, `WireInv`), that seeds lie in `toPc` in the order of their keys,
all newer than the PC's key and than what it accepted last (`SeedInv`), and that the window
covers what was accepted under the present key (`LastInv`). Losing connections cuts both
ends of the queue; lemmas about queues that consist of an old one's messages
(`From`) carry each part over such a step. `NeverAhead` is about the behaviours over the relay:
`AheadInv` adds that in the queue no message under an older key follows a newer seed (`OrderInv`),
so that what the PC counts under the present key are numbers the phone has used; a BLE write
that a seed overtakes breaks just that. `TypeCorrect` is the first half of `DeliveryInvariant`.

`SpecConfirmedMeansAgreed` covers relay, BLE and restarts alike. "Agreed" is not inductive, because the
two seeds travel separately: `AgreeInv` (checked by TLC before it was proved) says where the missing one
is. The PC's seeds reach the phone in the order of their keys (`AnswerOrder`); behind every public key on
its way comes a seed that the other side has yet to get (`ExchangeInv`); the PC has both ratchets or none,
and the phone confirms under a ratchet only (`PcInv`, `AckInv`); a phone without ratchet is told that the PC
is there before any seed reaches it (`NoticeInv`); while the BLE channel lasts there is no other handshake (`BleInv`). So once the
two are `Linked`, the PC has the phone's newest key or a seed is on its way (`SeedAgrees`), and the other way
round (`AnswerAgrees`).

The assumptions of all are those of `SecureLinkAssumption`: the bounds are naturals.

## 5. MobileConnection

**State.** `sock` is `wsRef` (a closed socket is not kept), `link` how far the relay is with
it, `asked` whether the PC still owes the answer of the handshake. `state`, `enc`, `had`,
`buffered`, `info`, `intentional`, `suspended`, `attempts` and `ble` are the hook's refs of the same
meaning, `queued` the length of `queuedCommandsRef`, `stored` whether the connection is in
`localStorage`. `timers` holds the names of the armed timers, `sending` whether the user has started
something that sends by itself (`Begin`, `Finish`). `dropped`, `ousted` and `misled` are history.

**Actions.** The page is single-threaded and every `await` on these paths resolves in a
microtask, so a socket event, a message, a timer, a page event or a click is one action with
all it calls: `Connect` is `connectWs` with the `cleanup` in it. Timers fire in any order, since the
delays (2 s doubling, 8 s, 12 s, 10 s of offline grace) start at different moments. `onclose` ignores
sockets that are not the present one, `onerror` does not: `stale` is the error that a socket
closed while connecting still reports (`StaleError`); browsers queue it at once, so it comes before
the next socket can open. A page with Bluetooth is not kept on `pagehide`.

**Sending.** `Send` is a `sendEncrypted` that no transport takes. Nothing in it asks whether the phone may
send: what the user does is held back by the input, which is enabled while `enc` or `buffered`
(`InputArea.tsx:59`), but a debounced diff and the chunks of a file batch, each retried for three
seconds (`FileTransfer.tsx:276`), send whatever has happened to the connection. A preemption does not end them:
the first failing chunk replaces "preempted" by "connecting", the next one calls `connectWs`, and the
phone takes the session back with no action of its user. `OustedStays` is therefore about phones that
had nothing under way when they were preempted.

**Heartbeat.** It is left out because it has no effect in this code: each ping (3 s) replaces the
timeout of the one before (8 s) and no handler of `pong` is needed to prevent it from firing, so a
connection that is silently dead stays "connected" until the browser closes it.

**"Connecting" for good.** `ConnectingEnds` is about a phone without BLE that has not closed the
connection itself. The exceptions are real: a send that fails on a phone that had given up shows "connecting" with
nothing under way (`misled`), the late error of a stale socket does so while BLE is ready, and `peer_joined`
begins no handshake while BLE is ready, even if encryption has been lost meanwhile.

**Proved** (`MobileConnection_proofs`, for every limit): `TypeCorrect`, `NeverTwoConnections`,
`SecureSessionsAreSafe`, `OustedPhonesStay`. The last two are not inductive. `IInv` adds
that no handshake or grace timer runs while BLE is ready (`BleIsQuiet`: the encrypted session
survives there although its pairing does not), that an open socket has no stale error ahead and a
socket that is not open has not joined (`Fresh`), and that a replaced phone has closed on purpose
and has neither a reconnection armed nor anything that sends (`StaysAway`). The assumptions are those of
`MobileConnectionAssumption`: the bounds are naturals.

## 6. InputSync

**State.** A character is a keystroke, numbered from 1, so that "the same text" means the
same keystrokes. On the phone `text`, `lastSent`, `armed` and `pending` are `textRef`,
`lastSentRef`, the debounce timer and `pendingDiffTextRef`; `mounted` says that `InputArea` is
shown and not the scanner; `queue` is what waits for the reconnection. `chan` is the PC's `_cmdChannel` and `toPhone` the clear messages on their way. On the
PC `buffer`, `target`, `recovering`, `clearArmed` and `clearOwed` are `_appliedInputBuffer`,
`_inputTargetWindow`, `_inputTargetRecoveryCts`, `_focusClearCts` and `_pendingClearOnReconnect`;
`batching`, `next` and `deferred` are the locals of the command loop. `line` and `done` are
what the PC has typed into each window. The rest is history.

**Actions.** A React event handler, an effect, a timer, one turn of `ProcessCommandQueue` between
two waits and one focus event are an action each. `ReceiveClear(n)` lets React render several clears
at once. `SenderChanges` carries the last clear out again, because the effect depends on the
function that sends, which is another one when BLE comes or goes. `Drain` is the loop
behind a deferred enter, which drops everything but diffs. `Recovers` ends `recovering` with a
window of another program in front; a focus event ends it too. Fluentia's own window in front
is covered only as "recovering".

Without a session, what becomes of a command depends on `useWebSocket`: it may get to the PC over a
socket whose handshake is under way, stay in the queue, or be lost, because the call that queues it
starts a connection whose cleanup drops the queue (`useWebSocket.ts:1065-1069`, `444-445`). `Send`
allows all three, and `DropQueue` empties the queue later. `SessionDrops` loses the newest of the commands
on their way. `Unmount` and `Remount` are the scanner that takes the place of `InputArea` while the phone is
disconnected (`App.tsx:476`): the timer is stopped and the baseline forgotten, and the
text, which `App.tsx` keeps, is shown again.

**What the properties except.** `DeletesOnlyItsOwn`: losing the session gives up the target but keeps
the buffer (`MainWindow.xaml.cs:321`), so that afterwards the PC may backspace over text of another
window (`rebound`). `NothingStranded`: what is typed without encryption is only counted as
shown, and so is the text of a box that comes back after the scanner (`unsent`, until the next edit
or clear), and an empty paragraph leaves the timer running (`ghost`).
`ParagraphsArriveInOrder`: a diff that the drain pulls in front of an enter (`overtaken`), and a command
sent without a session or lost with one, or a baseline forgotten with the box (`parted`): after either
nothing brings the two sides together again, short of a clear. A session that is lost and back with
nothing on its way is covered.
`NoDuplicates`, a comment of the code (`MainWindow.xaml.cs:869-872`): only for a user who types on
at the end and while the session holds.

**Proved** (`InputSync_proofs`, for every set of windows and all bounds): `SpecTypeOK`,
`SpecNothingStranded`, which is inductive as it stands, `SpecDeletesOnlyItsOwn`,
`SpecParagraphsArriveInOrder` and `SpecNoDuplicates`. `DeletesOnlyItsOwn` is not inductive: `Recovers` sets a target, and then the buffer has
to be the end of that window's line. `OwnInv` adds that there is no target while a recovery
runs, hence, by the property itself, that the buffer is empty. The step that matters is `Flush`: backspaces
back to the common prefix of buffer and batch and the insertion of the rest turn a line that ends with
the buffer into one that ends with the batch (`RetypedEndsWith`). The assumption is that of
`InputSyncAssumption`: `NoWindow` is no window, the bounds are naturals.

`ParagraphsArriveInOrder` speaks of a PC that has handled everything; what holds while commands are on their way is
`ArrivalInv`: handled in their order, they turn the page that the window shows (its paragraphs, and its line or the batch
gathered for it) into the one that the phone counts as sent. What a sequence of commands
does is a recursion; `Leads` says it without one, by the existence of the pages in between, so
that a step extends that sequence at the end (the phone sends) or takes its first page off (the PC handles a
command) and no induction is needed. It rests on `DiffApplies`: `ApplyDiffToBuffer` of a text and the
`computeDiff` of it and another is that other text.

`NoDuplicates` follows from `PlainInv`, of three parts under its own hypotheses: the phone's text has grown out of what it
has sent last (`GrowthInv`), so that a diff brings new characters only; no character is in two of the
commands, or both in a command and at the PC (`FreshInv`); and what the PC's buffer or batch
holds is in no window but its target (`ApartInv`), so that a `Flush` after the focus has moved
types nothing again.

## 7. FileUpload and FileDownload

**State.** A chunk is its number, a file `<<batch, place in the batch>>`; a file of no chunks is
empty. In `FileUpload` each batch has a coroutine (`run`) with up to `Concurrency` coroutines for
chunks (`worker`: in the loop, waiting, encoding, sent, failed); `abort`, `paused` and `resume` are the three
refs that all of them share, `status` and `hide` are what is shown and the timer that hides it. `up`
is what the phone takes the connection for, `wire` what it is, `held` the commands queued
meanwhile. `transfers` is `_fileTransfers` of the PC. In `FileDownload` the PC's coroutines
share `cancelled`, `paused` and the task that the paused ones await (`awaiting`); `incoming`,
`batch` and `hide` are the phone's refs. `FileTransfer` puts the two side by side; they share no
state, so that a behaviour moves one of them (`direction`), and `MCFileTransfer` says what the user
chooses when TLC runs it.

**Actions.** What happens between two awaits is one action. The phone's `sendFiles` runs from the
start of a batch to the first file that has chunks; `Take`, `Encoded`, `ChunkSent` and `Retry` are the
pieces of `sendChunk`; `Join` and `JoinAborted` are the end of `Promise.all`. `Reconnect` lets the phone's
queue survive or not, as both happen (section 5). The receivers are one action per message.
`ReadFails` is the PC's catch: a file that is gone before it is announced, or that cannot be opened or
read after. The batch ends, and no `file_abort` is sent (`TransferUi.cs:951-960`): the phone keeps what it
has of such a file and shows it as being received until the next batch, a cleanup or the timer. What
`NothingKept` and `ReceivedIsShown` say is therefore said of the other files (`Unread`).

**Mishaps.** These components, like those that follow, have defects that break what one would
like to say of them. Leaving the defects out would make the models unfaithful, and leaving the
properties out would say nothing about the rest. So `mishaps` records which defects have shown in a
behaviour, and each property makes an exception of those, and only those, that can break it
(`Spared`). In `FileUpload`: a chunk sent before an earlier one ("disorder"), one sent twice
because it was queued as well ("resent"), one that could not be read ("unread"), a batch started
while an aborted one still runs ("overlap"), two coroutines waiting for one resume function
("lost wakeup"), an empty file, whose only chunk the PC ignores ("empty"), a broken connection
("break"), the component's end, after which no chunk is encoded ("unmount"). In
`FileDownload`: a chunk sent after the cancellation by a coroutine that was paused ("late"), a batch
started while another runs ("overlap") or waits ("stranded"), and a reconnection of the phone's socket
while Bluetooth carries the session ("cleanup").

**Proved of `FileUpload`** (`FileTransfer_proofs`, for every number of batches, files, chunks, coroutines and
events): `SpecTypeOK`, `SpecCompletedMeansSent`, `SpecSavedIsWhole`, `SpecNothingLeftOver`. None
of the three properties is inductive, and what they need overlaps, so there is one invariant with a
part for each place where a chunk can be. On the phone: a chunk that was handed out is in the hands of
exactly one coroutine of its batch or was accepted, and is accepted once (`WorkerInv`); only chunks that
exist and were handed out are (`RunInv`); while nothing is aborted none gets lost and a coroutine
ends only when all were handed out (`SentInv`). That is `CompletedMeansSent`: when all coroutines
have ended there is no third place left. On the connection: whatever names a file came after its
sending began (`BegunInv`), so that its start, which is sent before that, is in front of everything else
about it (`StartInv`). At the PC: while no mishap has broken the order, what was accepted of a file has no
gap, the PC has the first chunks, and those on their way continue them one by one (`OrderInv`);
hence the chunk marked last is appended to all the others, which is `SavedIsWhole`. And a file that the
PC has begun is the one that the phone is sending, or its end is on the way (`CloseInv`), from which
`NothingLeftOver` follows when nothing moves. TLC has checked these parts on two batches of
three and two files before they were proved.

`FirstSized` and `Opening` say in one expression what the loop over the files does until it waits: it
passes over the empty files. That they do (`FirstSizedIs`, `OpeningIs`) is shown by the least file
that is not empty, as the provers here have no induction over data. The assumption is `FileUploadAssumption`:
there is at least one coroutine, `Idle` is none, selections are sequences of numbers of chunks.

**Proved of `FileDownload`** (`FileTransfer_proofs`, for every number of batches, files, chunks and
events): `SpecDownloadsAreWhole`, `SpecNothingKept`, `SpecReceivedIsShown`,
`SpecNoDownloadAfterAbort`; and `TransferIsBoth`, by which what is proved of either direction holds in
the specification that the run checks. The invariant is `DownInv`. Whatever names a file came after
its announcement (`AnnouncedInv`), and what was on its way is lost when the connection breaks
(`DownLinkInv`). Of each file that the phone has begun or hears of, the end is behind it on the way, or
the PC is still in the middle of the file, or its reading failed there, of which the phone is told nothing
(`Reached`, `KeptInv`): `NothingKept` is the case in which only the last is left. Only aborts follow an abort, and a file that was aborted is one that the
PC has cancelled (`AbortedInv`), hence `NoDownloadAfterAbort`. While the batches do not overlap the messages come in
the order of the files (`DownOrderInv`). Then before each chunk come the start and the chunks before it, at
the phone or on the way, and nothing between them makes the phone forget (`ChunksInv`), so that with
the last chunk the phone has them all, which is `DownloadsAreWhole`; and the start has made the batch
active and has stopped the timer that hides it (`ShownInv`), which is `ReceivedIsShown`. A file whose reading
failed stays so (`LostStays`), as its batch has ended; both properties leave it aside. TLC has checked these parts
on the run's constants before they were proved. The assumption is `FileTransferAssumption`: what
the user chooses are sequences of numbers of chunks.

## 8. BlePairing

**State.** A key is the number of the request that made it. `requests` says where each call of
`requestPairing` is, and `connecting` is `isConnecting`, which a disconnect resets while a request may go on,
so that two can run; the timer of the earlier one is then nobody's ("stray"). `loops` holds the reconnection coroutines that run, `listeners` counts the listeners of
`gattserverdisconnected` that are registered, of which `gattDisconnectHandlerRef` holds one at most
(`watched`). `writing` are the hellos that are being written. `asks` and `oks` are `ble_auth` and
`ble_auth_ok` in the encrypted session, `notices` the notifications of the PC; `tasks` are the PC's
`async` handlers of writes, each at its own await.

**Actions.** As above, one per stretch between two awaits. A loss of the connection is noticed
by every listener, and each of them starts a coroutine that tries `MaxAttempts` times (5 in the
code) and is ended by nothing else. `SendAsync` of the PC polls for a subscriber; the model takes
the outcome: the notice, nothing, or the notice that the PC has failed with it
(`DesktopBlePairingService.cs:195-205`), as where the PC has no session (`231`). `off` is history: the
user has disconnected, and nothing ran on then ("yes") or a request, a reconnection or an older
listener did ("partly").

**Mishaps.** "unwatched": a connection is made without a listener (a request whose listener another
disconnect has removed). "skipped": a key is authorized again
while `helloSentRef` is still set, so that it is never presented. "early": the answer to an
earlier request for the same key is taken for this one's. "raced": `notify_ready` is handled between the
PC's look at it and its keeping of the answer. "session": the authorization is lost with the
session. "failed": the PC has failed with a hello, and the phone's channel stays there unused.

`OffStaysOff` speaks of a disconnect beside which nothing ran: only then does the code keep what the
button promises. It fails as soon as disconnect leaves its listener or undercounts listeners. After
any other disconnect a coroutine may connect again, and an older listener makes it do so for ever; the
button is then disabled, since the device's name is gone.

**Proved** (`BlePairing_proofs`, for every number of requests, losses and attempts): `SpecNoAnswerKept`,
`SpecOffStaysOff` and `SpecNeverRefused`. The second needs `OffInv`: after such a disconnect there are no
request, no coroutine and no listener, and `watched` never counts a listener that is not there. The first needs `AnswerInv`: a handler
that is about to keep an answer has not been overtaken by `notify_ready` (`KeptInTime`), and handlers
of the two kinds of writes go through no other awaits (`TaskShape`). The third needs to know of
the keys on their way: one that a hello is being written for is authorized and is the present key or an
older one (`HelloInv`), and a key whose confirmation is on the way has been authorized or is being
asked for again (`OkInv`), which is why taking the confirmation for the wrong request ("early") is
the only way to be refused.

## 9. DeviceCode

**State.** `ref`, `cams` and `scanning` are the scanner; `autos` the timers of 80 ms; `wsRef`,
`timeoutRef` and `waiting` the refs and state of the `ManualConnect` on the page. A socket has a
`state`, its timers (`armed`, `closers`) and an `inbox`. The refs die with their component, sockets
and timers do not: `mine` are the sockets of the present instance. Which timer the `timeoutRef` of
an earlier instance still holds is not kept: a handler of its sockets stops one of theirs or none
(`StopTimer`). `main` is the socket of `useWebSocket`. `pending`, `mobile` and `asked`, the order in
which phones entered the code, are the hub's, `dialogs` and `answers` are the PC's. The verification ID of
a socket is its number. `confirmed` and `refused` record what the PC's user and the hub have said.

**Actions.** One per event handler of the page, per message of a socket, per handler of the hub,
per answer of the PC's user. `HandOff` is `handleScan`: the connection is begun and the page goes,
whose effect (`Unmount`) closes the socket now or, when it is the one that was admitted, in 5 s.

**Mishaps.** "double": submitted by the timer and by hand. "wiped": the end of an earlier
socket clears the refs of the next. "late": a timer of 80 ms acts for a user who has turned away.
"early": a camera is left while it starts. "denied": a camera could not start. `MaxMishaps` bounds how many *kinds* of them show
in one behaviour, which keeps the state space in reach; behaviours with none and with any one
are complete.

**Proved** (`DeviceCode_proofs`, for every number of sockets, cameras and mishaps):
`SpecAdmittedInTurn`, `SpecCameraCanStart`, `SpecSocketsAreHeld` and
`SpecTurnedAwayStaysAway`. Several phones may enter the code while the PC's user looks at a dialog, and
`device_code_confirm` names the code only, so that the phone admitted need not be the one compared.
`AdmittedInTurn` says, with no exception, what the hub keeps up: the admitted phone is the compared one or
came after it, and was not refused. `AdmissionInv` proves it: the
pending phone is the last that entered the code and has no answer yet, a code that has an entry has admitted
nobody (`PendingInv`), and whoever is in a dialog, confirmed or refused has entered the code
(`AskersInv`). `TurnInv` proves the last two
together, because each is needed for the other: the socket in the ref belongs to a page on which the user
still wants the connection (`ManualInv`), a camera that runs is the page's and wanted (`CameraInv`),
and a code admits once, so that no second "joined" comes to a socket that was handed over and waits for its
5 s (`JoinedInv`). To press "connect" by hand is to want the connection again, whatever was
cancelled before; the timer of 80 ms, which submits the same way, is no such wish, and that is "late".

## 10. DesktopSocket and DesktopSession

**DesktopSocket** is `WebSocketService` with the connect button of the window. `lock` says whose
attempt is in `ConnectInternal` (the user's, the loop's, or an "orphan" whose loop was cancelled
meanwhile), `waiting` counts the calls of `ConnectAsync` that wait for it, `loop` is where the task in
`_reconnectLoopTask` is, `reader` whose token `ReceiveLoop` and `HeartbeatLoop` watch, `handled` is
`_disconnectHandled`. `events` are the calls of `Dispatcher.BeginInvoke` on their way, `shown` and
`button` are what the window has made of them, `online` is `CanUseConfiguredServer`. What a task does between two awaits is one action; only
where another task can run between two statements of it and that matters ("finishing", between the
success of the loop's attempt and its return) is there a state of its own.

**DesktopSession** takes the connections as given (one opens and breaks at any time, with what is on
its way in both directions) and has the rest: `token`, `key`, `rejoinPending` and `trusted` of
`RoomManager`, the QR code, the settings file, the hub's `live`, `pcOf` and `sessionOf`. The hub goes
on reading what a broken connection has sent before it finds it gone, so that a rejoin can meet
a session that still belongs to the PC's old connection and is refused. The PC then acts as on a
session that has "expired/not found" (`RoomManager.cs:449`): it asks for another one. The handshake is
one step (`Pair`), possible with the PC's present keys only; `SecureLink` has what is in it.

**Mishaps.** "twice": a second failure since the last connection is not handled
(`WebSocketService.cs:127`), and a PC whose loop the user's click has just cancelled is left without
one until the next click. "finishing": the loop that is about to return is taken for one that will
connect (`WebSocketService.cs:102`). "crossed": a loop is started beside a call that waits for the lock,
and its attempt takes down the connection that the call makes, without a word to the window.
"unstarted": the program was started without a network or without a URL, and `TryConnectAsync`, which
runs once by itself, has returned early (`MainWindow.xaml.cs:522`, `524`); when the network comes back the
window enables its button and does no more (`1102`), so the PC stays off until its user clicks.
"unanswered": a request for another session is lost, or its answer is, after the keys have been
replaced or the token given up; until the next answer, settings and phone are behind. Each exception
is needed: without it TLC finds the violation.

The refresh of `DesktopSession` has no guard: the tray's menu calls `Refresh_Click` at any time
(`MainWindow.Tray.cs:27`), whatever the button in the settings shows.

**Desktop** runs one or the other; they share no state but the fact that connections come and go,
which `DesktopSession` allows at any time. Its fairness (`Progress`) is of a PC that was started with a
URL and a network, or whose user has clicked since.

**Proved** (`Desktop_proofs`, for any number of clicks, failures, sessions, connections, refreshes and
restarts; it assumes that the bounds are naturals): `SpecSocketInv`, `SpecSessionInv`, and
`DesktopIsEither`, by which both hold of the composition.

None of the three parts of `SocketInv` is inductive. `ServiceInv` adds whose the lock is and that an
orphan only has it beside the call that cancelled its loop (`LockIsRight`); that a program that was not
started has done nothing (`NotStarted`); that tasks which watch a
connection have not reported it (`Watched`) and a loop about to return has made one that nothing was
reported of (`FinishesWell`), so that `SomebodyElse` can do without counting on that loop; that calls
and loops do not run side by side and a loop comes after a report (`NoCrossing`); and what the window
will have heard last (`Told`), from which `WindowIsRight` follows once nothing is on its way.

`SessionInv` speaks of rest only; `IInv` says what holds until then. Where the PC and the hub are of
different minds, what settles it is on its way (`AnswerInv`): the last answer is about the session the
hub has the connection in, and a PC without a token has asked for one (`Asking`). A rejoin is the first
request of its connection and for the token the PC still has (`RejoinInv`), a token that the PC is
told of is newer than every token known to PC, phone, QR code and settings (`FreshInv`), and no
connection keeps a session that the hub has given to another one (`RegisterInv`). A QR code that is
behind will be drawn again (`QrInv`: `Renewing`), settings that are behind will be saved (`SavedInv`:
`Saving`), and the keys that a phone has scanned are those of its session in PC and settings, or
one of them is about to change (`PhoneInv`). The proof first shows what each action does in
first-order terms (`Effect`, `StepIs`), so that sequences are dealt with once, and then takes the parts
one at a time. TLC has checked `IInv` on the instance of the `desktop` run.

## 11. Runs

| run | checks | instance and why it is enough |
|---|---|---|
| `relay_links` | `LinkInv`, `RelayIsMutual`, `FileIsCurrent`, `LinkedPairStays`, `OnlyItsPCDestroys` | 3 connections (a pair and an intruder), 2 devices, 2 sessions (an old one and a refresh), unordered writes, restarts, stale codes; symmetric |
| `relay_promises` | `ToldTheTruth`, `OfflineSessionsAreTimed` | 3 connections, 2 devices, 3 sessions, without restarts or stale codes, under which these promises are known not to hold (section 12), and without a store |
| `relay_panics` | violated: `NeverPanics` | the live session's own code suffices |
| `link` | `DeliveryInv`, `ConfirmedMeansAgreed`, `DeliveredInOrder`, `PcNeverAhead`, `RelayHandshakeCompletes` | relay and BLE, 2 losses or restarts, 3 messages per key, so that writes overtake, leave gaps and straddle a handshake; the last two are about the behaviours in which BLE has not been used |
| `link_ble_stuck` | violated: `HandshakeCompletes` | one lost socket of the PC |
| `mobile_connection` | `OneAttempt`, `SecureSessionIsSafe`, `OustedStays`, `ConnectingEnds` | 3 losses of the socket or the PC, 2 attempts (so that they run out), 2 queued commands |
| `mobile_replay` | violated: `BufferedReplays` | one loss, one command |
| `input_sync` | `DeletesOnlyItsOwn`, `NothingStranded`, `NoDuplicates`, `ParagraphsArriveInOrder` | 2 windows (symmetric), 2 characters, 2 paragraphs or moves of the focus (`MaxTurns`: both paragraphs, both moves, so that the focus comes back, or one of each), one loss, 4 commands on their way: enough for an edit at the front, for a batch of two diffs and an enter, for a paste of both paragraphs, for text in both windows and for each exception |
| `file_transfer` | `SavedIsWhole`, `CompletedMeansSent`, `NothingLeftOver`, `UploadEnds`; `DownloadsAreWhole`, `NothingKept`, `ReceivedIsShown`, `NoDownloadAfterAbort`, `DownloadEnds` | a behaviour moves files in one direction (the two share no state here). Up: 2 coroutines, batches of a file of 2 chunks or of an empty and a small one, a second batch, 2 events out of batches, breaks, unreadable chunks, unmounts. Down: batches of two files, of a file of 3 chunks or of an empty one, any of which may turn out unreadable, a second batch of one file, 2 events |
| `desktop` | `SocketInv`, `SessionInv`, `SessionReturnsWhenItMoves` | socket: started with or without a network, which may come and go; 3 failures and 3 clicks besides the first attempt, so that a second failure, a cancelled attempt and a loop beside a waiting call all occur. Session: 3 connections, 1 refresh or click, 1 restart, 1 expired session, and as many sessions as those can ask for (4), so that no request is left unanswered by the bound |
| `ble_pairing` | `OffStaysOff`, `NeverRefused`, `NoAnswerKept`, `ChannelIsUsed` | 2 requests, one loss, 2 coroutines at once, one attempt each |
| `device_code` | `AdmittedInTurn`, `TurnedAwayStaysAway`, `SocketsAreHeld`, `CameraCanStart` | 2 sockets (two submissions, or one and another phone's), one delayed submission, one camera, one kind of mishap |

**Bounds.** `MaxSessions`, `MaxWrites` and the numbers of connections and devices in
`RelayHub`; `MaxSent`, `MaxQueue` (user messages only; handshake messages are not held up) and
`MaxDrops` in `SecureLink`; `MaxQueue` and `MaxFails` in `MobileConnection`, whose
`MaxAttempts` is a constant of the code, as is that of `BlePairing` (5 there, 1 here: a failed
attempt is followed by another one or by the end, and neither depends on the number). `MaxKeys`,
`MaxTurns`, `MaxDrops`, `MaxWaiting` in `InputSync`; `MaxBatches`, `MaxEvents`,
`MaxWaiting` in the file modules (`CHUNK_CONCURRENCY` is `Concurrency`, 2 here);
`MaxRequests`, `MaxLosses`, `MaxLoops` in `BlePairing`; `MaxSockets`, `MaxAutos`, `MaxCameras`,
`MaxMishaps` in `DeviceCode`; `MaxFails`, `MaxClicks` in `DesktopSocket` and `Desktop`; `MaxTokens`, `MaxConns`, `MaxExpired`,
`MaxRefresh`, `MaxRestarts` in `DesktopSession`. A step that would exceed a bound is not taken. `MaxSeqGap` is
1000 in the code and 2 or 3 here, so that a gap at the limit can occur. `MaxConnections` is
a parameter of the code and 0 (off) in the runs; the theorems cover every value.

**Fairness.** `SecureLink`: sockets reconnect and what has arrived is handled (both sides retry, the
relay's queue is served); no fairness for users, for losses or for BLE. Losses are bounded,
which is what "once connections are no longer lost" means. `MobileConnection`: armed timers fire
(the browser); none for messages, users or BLE, so `ConnectingEnds` holds also when the relay
and the PC never answer. `FileUpload`, `FileDownload`: what is ready to run runs (the event loop, the
dispatcher, web workers answer), and the PC reads what has arrived; none for the user, so a
batch may stay paused. `BlePairing`: messages of the session and notifications are handled and
a started write ends; none for users or reconnections. `DesktopSession`: the PC reconnects (`DesktopSocket`'s
subject), hub, PC and dispatcher handle what has arrived, and of these somebody goes on as long as one of
them can; none for users, phones, losses or deadlines, and
losses are bounded.

**Deadlock** is checked in `relay_links` and `mobile_connection`. In the other passing runs
everything is bounded and comes to rest, or (`relay_promises`) a panic ends the system when
nothing restarts it.

## 12. Findings

1. `relay_panics`: a phone that enters the device code of a PC that is gone ends the server
   process (`hub.go:617`).
2. `link_ble_stuck`: the phone skips the handshake because "the existing ratchet handles both",
   while the PC has dropped its confirmation and sends nothing to the phone any more
   (`useWebSocket.ts:610`, `RoomManager.cs:417-430`).
3. `mobile_replay`: what is typed while the phone waits to reconnect is dropped, although the page
   says that it "will replay after reconnect" (`useWebSocket.ts:1065-1069`, `InputArea.tsx:292`).

Two more of the hub: after a refresh the file may lack the session that the PC is in, because the
goroutines of its two snapshots are ordered by nothing (`hub.go:389`, `401`), although the file is there
for "session persistence across restarts" (`src/README.md:156`): `FileIsCurrent` is false without its
exception. And, which `relay_promises` steers clear of, a session brought back after a restart has no
grace timer and is not destroyed at its deadline (`hub.go:322`).
The defects named by the exceptions of sections 6 to 10 are known in the same sense: the models
have them, and the properties say what holds beside them.

## 13. What is proved and what is only model-checked

Proved, for every value of the constants, by an inductive invariant each (named in sections 3 to 10; `TypeCorrect` and
`SpecTypeOK` are about the `TypeOK` of the module, which no run repeats where it is proved):

| module | theorems | property of the runs |
|---|---|---|
| `RelayHub_proofs` | `TypeCorrect`, `LinksConsistent`, `RelayMutual` | `LinkInv`, `RelayIsMutual` |
| | `SpecOnlyItsPCDestroys`, `SpecLinkedPairStays` | action properties of the same names |
| | `SpecOfflineSessionsAreTimed` | without restarts (`Restarts = FALSE`) |
| | `SpecFileIsCurrent` | `FileIsCurrent` |
| | `SpecToldTheTruth` | without stale codes (`StaleCodes = FALSE`) |
| `SecureLink_proofs` | `TypeCorrect`, `DeliveryInvariant`, `Implements`, `NeverAhead`, `SpecConfirmedMeansAgreed` | `DeliveryInv`, `DeliveredInOrder` (the refinement), `PcNeverAhead`, `ConfirmedMeansAgreed` |
| `MobileConnection_proofs` | `TypeCorrect`, `NeverTwoConnections`, `SecureSessionsAreSafe`, `OustedPhonesStay` | `OneAttempt`, `SecureSessionIsSafe`, `OustedStays` |
| `InputSync_proofs` | `SpecTypeOK`, `SpecNothingStranded`, `SpecDeletesOnlyItsOwn`, `SpecParagraphsArriveInOrder`, `SpecNoDuplicates` | `NothingStranded`, `DeletesOnlyItsOwn`, `ParagraphsArriveInOrder`, `NoDuplicates` |
| `FileTransfer_proofs` | `SpecTypeOK`, `SpecCompletedMeansSent`, `SpecSavedIsWhole`, `SpecNothingLeftOver` | `CompletedMeansSent`, `SavedIsWhole`, `NothingLeftOver` |
| | `SpecDownloadsAreWhole`, `SpecNothingKept`, `SpecReceivedIsShown`, `SpecNoDownloadAfterAbort`, `TransferIsBoth` | `DownloadsAreWhole`, `NothingKept`, `ReceivedIsShown`, `NoDownloadAfterAbort` |
| `BlePairing_proofs` | `SpecNoAnswerKept`, `SpecNeverRefused`, `SpecOffStaysOff` | `NoAnswerKept`, `NeverRefused`, `OffStaysOff` |
| `DeviceCode_proofs` | `SpecAdmittedInTurn`, `SpecCameraCanStart`, `SpecSocketsAreHeld`, `SpecTurnedAwayStaysAway` | `AdmittedInTurn`, `CameraCanStart`, `SocketsAreHeld`, `TurnedAwayStaysAway` |
| `Desktop_proofs` | `SpecSocketInv`, `SpecSessionInv`, `DesktopIsEither` | `SocketInv`, `SessionInv` |

The proofs rest on the named assumptions about the constants (`ConstantsAssumption`,
`SecureLinkAssumption`, `MobileConnectionAssumption`, ...: bounds are naturals, null values are no
members), which TLC evaluates in every run, and on the two hypotheses in the table.

Only model-checked: liveness (`RelayHandshakeCompletes`, `ConnectingEnds`, `UploadEnds`,
`DownloadEnds`, `ChannelIsUsed`, `SessionReturns`), which is out of the prover's reach, and the
runs that find a violation.

## 14. Not modelled

Left out of `RelayHub`: full send buffers (256 messages), write errors of the store, rate
limits, error replies, the notice of `ShutdownAll`. Connections admitted together may exceed
`MaxConnections` (`main.go:185`: `Accept` and `Register` are two actions); nothing promises a hard
limit. Sessions past their deadline that a join removes from the map while still linked are
modelled (`ExpiredToken`), with no property about them.

Left out of `MobileConnection`: the heartbeat (section 5), the protocol version check of `joined`,
incoming files (in `FileDownload`).

Left out of `SecureLink`: the order of keys inside `crypto_box`; `ResetPeerState` outside the
lock (the `InitRatchet` that follows writes every field again); what the phone should do about a gap
of more than `MaxSeqGap` lost messages; the order in which commands are applied after decryption when
relay and BLE handlers run on different threads; the phone's timers (give up after 8 s and 12 s) and
offline grace, which `MobileConnection` has; the permanent `peer_left` that ends the phone's session;
the health monitor, which production code does not pass, so that the phone prefers the socket and
falls back to BLE.

Left out of `InputSync`: clipboard and backspace commands, the phone's own `clear`, regex filters
(their result counts as typed), Fluentia's window in front of the target, an exception of the text
injector (which gives up target and buffer and asks for a resync), and that the phone counts
graphemes while the PC's buffer counts UTF-16 units (`diff.ts:33`, `MainWindow.xaml.cs:636`): for characters
of more than one unit the two disagree on what a backspace removes.

Left out of the file modules: contents and sizes in bytes, the PC's progress card, its
refusal of a file that is too large, the 40 ms between files, the write to disk. Left out of
`BlePairing`: advertisement, the framing of envelopes, invalid ones, a session that changes on the
PC meanwhile. Left out of `DeviceCode`: expiry and generation of codes (in `RelayHub`), the panic
when the pending phone or the PC has gone (`RelayHub.Panic`), invalid QR codes.

Left out of `DesktopSocket`: `Dispose` and the refusal of a protocol version, which both set
`_intentionalClose` and stop everything; back-off delays; how long the heartbeat takes to notice (it
does). Left out of `DesktopSession`: errors other than the answer to a rejoin, of which one that comes
while a rejoin is pending would be taken for it (`RoomManager.cs:451` looks at no more than the
flag); the handshake's own messages; phones of the session other than the last one.

Hazards of the code that no property here is about, besides those in `PROJECT.json`: a full send
buffer drops messages (`client.go:116`).

Without a module: the PC-to-phone ratchet, of which no property holds as soon as two sends on the PC
overlap; transport health, which is
tested but not wired into either program. User interface, settings, localisation, regex filters,
rate limits and deployment have no interleaving of their own or depend on the window system.
