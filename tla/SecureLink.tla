----------------------------- MODULE SecureLink -----------------------------
(***************************************************************************)
(* The end-to-end session between a phone (useWebSocket.ts, crypto.ts) and *)
(* a PC (RoomManager.cs, CryptoService.cs): the handshake that gives both  *)
(* of them ratchet keys, and the encrypted messages from phone to PC.      *)
(*                                                                         *)
(* When the relay says that the PC is there, the phone sends key_exchange  *)
(* and ratchet_init with a new key; the PC answers with pc_ratchet_init    *)
(* and its own new key; the phone confirms with handshake_ack, the first   *)
(* message under its ratchet.  Until then the PC sends nothing.            *)
(*                                                                         *)
(* Messages travel over the relay, in order, or over Bluetooth (BLE) when  *)
(* the phone's socket is not open.  Either side loses its connection at    *)
(* any time, with part of what is on its way; the PC may also restart.     *)
(***************************************************************************)
EXTENDS Integers, Sequences, SequencesExt

CONSTANTS
    MaxSeqGap,  \* CryptoService.MaxSeqGap: how many messages in a row may get lost
    Ble,        \* the phone is paired over BLE as well
    MaxSent,    \* bound: messages the user sends under one key
    MaxQueue,   \* bound: messages on their way when the user sends one
    MaxDrops    \* bound: connections lost, over the relay and BLE

ASSUME SecureLinkAssumption ==
    /\ MaxSeqGap \in Nat /\ MaxSent \in Nat /\ MaxQueue \in Nat /\ MaxDrops \in Nat
    /\ Ble \in BOOLEAN

VARIABLES
    \* the phone: its socket, the BLE channel, the ratchets
    ws,          \* "closed", "connecting", "open" (and joined to the PC's session)
    bleReady,    \* bleTransportReadyRef
    sendKey,     \* the key of sendChainKey; keys are numbered, 0 stands for null
    sendSeq,
    recvKey,     \* the key of recvChainKey
    started,     \* handshakeStartedRef
    \* the PC
    online,      \* its socket is open and rejoined to the session
    isReady,     \* CryptoService.IsReady: it has the phone's public key
    pcRecvKey,   \* the key of _recvChainKey, 0 when RatchetReady is false
    expectedSeq, \* how far the chain of that key has been advanced
    highestSeen, \* _highestSeenSeq
    pcSendKey,   \* the key of _sendChainKey
    confirmed,   \* _encryptionConfirmed
    \* what is on its way
    toPc, toPhone,  \* through the relay, in order
    ble,            \* BLE writes, handled by the PC in any order
    \* bookkeeping
    phoneKeys, pcKeys,  \* how many keys each side has generated
    drops,              \* how many connections were lost
    sent, last          \* history: the messages sent, the message accepted last

phoneVars == <<ws, bleReady, sendKey, sendSeq, recvKey, started, phoneKeys>>
ratchetVars == <<isReady, pcRecvKey, expectedSeq, highestSeen, pcSendKey>>
pcVars == <<online, ratchetVars, confirmed, pcKeys>>
wireVars == <<toPc, toPhone, ble>>
histVars == <<sent, last>>
vars == <<phoneVars, pcVars, wireVars, drops, histVars>>

-----------------------------------------------------------------------------
\* The relay's notices, a public key, a ratchet seed
PeerJoined == [type |-> "peer_joined"]
PeerLeft == [type |-> "peer_left"]
KeyExchange == [type |-> "key_exchange"]
RatchetInit(k) == [type |-> "ratchet_init", key |-> k]
PcRatchetInit(k) == [type |-> "pc_ratchet_init", key |-> k]
NoPeer == [type |-> "error"]

\* "input" stands for every message but handshake_ack that phones encrypt.
\* A message under key 0 is a crypto_box and has no number.
Id(m) == <<m.key, m.seq>>

\* The phone's crypto.resetPeerState; the public key of the QR code is set again.
PhoneForgets == sendKey' = 0 /\ sendSeq' = 0 /\ recvKey' = 0

\* Mutant of InitRatchet: the seed is sent before the public key.
SeedFirst(first) ==
    /\ phoneKeys' = phoneKeys + 1
    /\ sendKey' = phoneKeys' /\ sendSeq' = 0
    /\ started' = TRUE
    /\ toPc' = toPc \o <<RatchetInit(phoneKeys')>> \o first

\* crypto.initRatchet: a new send key, sent to the PC after the messages `first`.
InitRatchet(first) ==
    /\ phoneKeys' = phoneKeys + 1
    /\ sendKey' = phoneKeys' /\ sendSeq' = 0
    /\ started' = TRUE
    /\ toPc' = toPc \o first \o <<RatchetInit(phoneKeys')>>

\* sendEncryptedPayload: the message is encrypted first, which advances the
\* ratchet, and then goes to the socket or else to BLE or else nowhere.  Without
\* a ratchet it is encrypted as a crypto_box, which has no number.
SendEncrypted(type) ==
    LET m == [type |-> type, key |-> sendKey, seq |-> sendSeq] IN
    /\ sendSeq' = IF sendKey = 0 THEN 0 ELSE sendSeq + 1
    /\ sent' = IF sendKey = 0 THEN sent ELSE sent \cup {Id(m)}
    /\ toPc' = IF ws = "open" THEN Append(toPc, m) ELSE toPc
    /\ ble' = IF ws # "open" /\ bleReady THEN ble \cup {m} ELSE ble
    /\ UNCHANGED last

\* CryptoService.ResetPeerState
PcForgets ==
    /\ pcRecvKey' = 0 /\ expectedSeq' = 0 /\ highestSeen' = -1
    /\ pcSendKey' = 0

\* The checks of DecryptRatcheted
InOrder(m) == m.seq > highestSeen /\ m.seq - highestSeen <= MaxSeqGap

\* m opens: a crypto_box with the phone's public key; or a ratcheted message under
\* the chain's key, when the chain is not past m's number.
Opens(m) ==
    /\ isReady
    /\ m.key # 0 => m.key = pcRecvKey /\ InOrder(m) /\ expectedSeq <= m.seq

\* Mutant of HandleEncrypted: the advanced chain is not stored.
ChainNotStored(m) ==
    /\ last' = IF Opens(m) /\ m.key # 0 THEN Id(m) ELSE last
    /\ confirmed' = (confirmed \/ (Opens(m) /\ m.type = "handshake_ack"))
    /\ UNCHANGED <<expectedSeq, highestSeen, online, isReady, pcRecvKey, pcSendKey,
                   pcKeys, sent>>

\* HandleEncrypted of an input command or a handshake_ack.  DecryptRatcheted
\* advances the chain to m's number, and past it, before it opens the box.
HandleEncrypted(m) ==
    /\ IF isReady /\ m.key # 0 /\ pcRecvKey # 0 /\ InOrder(m)
       THEN /\ expectedSeq' = (IF expectedSeq < m.seq THEN m.seq ELSE expectedSeq) + 1
            /\ highestSeen' = m.seq
       ELSE UNCHANGED <<expectedSeq, highestSeen>>
    /\ last' = IF Opens(m) /\ m.key # 0 THEN Id(m) ELSE last
    /\ confirmed' = (confirmed \/ (Opens(m) /\ m.type = "handshake_ack"))
    /\ UNCHANGED <<online, isReady, pcRecvKey, pcSendKey, pcKeys, sent>>

Init ==
    /\ ws = "closed" /\ bleReady = FALSE /\ started = FALSE
    /\ sendKey = 0 /\ sendSeq = 0 /\ recvKey = 0
    /\ online = TRUE /\ isReady = FALSE /\ confirmed = FALSE
    /\ pcRecvKey = 0 /\ expectedSeq = 0 /\ highestSeen = 0 /\ pcSendKey = 0
    /\ toPc = << >> /\ toPhone = << >> /\ ble = {}
    /\ phoneKeys = 0 /\ pcKeys = 0 /\ drops = 0
    /\ sent = {} /\ last = <<0, 0>>

-----------------------------------------------------------------------------
(* Connections *)

\* connectWs: without BLE the ratchets start afresh.
ConnectWs ==
    /\ ws = "closed"
    /\ ws' = "connecting" /\ started' = FALSE
    /\ IF bleReady THEN UNCHANGED <<sendKey, sendSeq, recvKey>> ELSE PhoneForgets
    /\ UNCHANGED <<bleReady, phoneKeys, pcVars, wireVars, drops, histVars>>

\* The socket opens, the phone joins, and the relay tells both sides.  What the
\* PC had sent while there was no phone comes after the notice, or is lost.
JoinSession ==
    /\ ws = "connecting"
    /\ ws' = "open"
    /\ IF online
       THEN /\ toPc' = Append(toPc, PeerJoined)
            /\ \E rest \in Suffixes(toPhone) : toPhone' = <<PeerJoined>> \o rest
       ELSE UNCHANGED <<toPc, toPhone>>
    /\ UNCHANGED <<bleReady, sendKey, sendSeq, recvKey, started, phoneKeys, pcVars, ble,
                   drops, histVars>>

\* The phone's connection is lost, with the newest of its messages, which never
\* reached the relay, and the oldest for it, which had left the relay; the relay
\* tells the PC.
PhoneDrops ==
    /\ ws = "open" /\ drops < MaxDrops
    /\ ws' = "closed" /\ drops' = drops + 1
    /\ IF online
       THEN /\ toPhone' \in Suffixes(toPhone)
            /\ \E rest \in Prefixes(toPc) : toPc' = Append(rest, PeerLeft)
       ELSE toPhone' = << >> /\ toPc' = << >>
    /\ UNCHANGED <<bleReady, sendKey, sendSeq, recvKey, started, phoneKeys, pcVars, ble,
                   histVars>>

\* The PC's connection is lost in the same way.
PcOffline ==
    /\ online /\ drops < MaxDrops
    /\ online' = FALSE /\ drops' = drops + 1
    /\ IF ws = "open"
       THEN /\ toPc' \in Suffixes(toPc)
            /\ \E rest \in Prefixes(toPhone) : toPhone' = Append(rest, PeerLeft)
       ELSE toPc' = << >> /\ toPhone' = << >>
    /\ UNCHANGED <<phoneVars, pcKeys, histVars>>

\* The PC's socket is lost; its ratchets and confirmed stay as they are.
PcDrops == PcOffline /\ UNCHANGED <<ratchetVars, confirmed, ble>>

\* The PC restarts, RestorePersistedSession: the key pair is the old one and the
\* ratchets are gone.
PcRestarts ==
    /\ PcOffline
    /\ PcForgets /\ isReady' = FALSE /\ confirmed' = FALSE
    /\ ble' = {}

\* The PC rejoins its session.
PcRejoins ==
    /\ ~online
    /\ online' = TRUE
    /\ IF ws = "open"
       THEN toPc' = <<PeerJoined>> \o toPc /\ toPhone' = Append(toPhone, PeerJoined)
       ELSE UNCHANGED <<toPc, toPhone>>
    /\ UNCHANGED <<phoneVars, ratchetVars, confirmed, pcKeys, ble, drops, histVars>>

\* handleRelay without a peer: the message is dropped and the phone gets an error.
RelayRefuses ==
    /\ ~online /\ toPc # << >>
    /\ toPc' = Tail(toPc)
    /\ toPhone' = IF ws = "open" THEN Append(toPhone, NoPeer) ELSE toPhone
    /\ UNCHANGED <<phoneVars, pcVars, ble, drops, histVars>>

\* BLE pairing: ble_auth and ble_auth_ok have been exchanged over the encrypted
\* session, each under the keys of both sides.
BleVerified ==
    /\ Ble /\ ~bleReady
    /\ confirmed /\ recvKey = pcSendKey /\ sendKey = pcRecvKey
    /\ bleReady' = TRUE
    /\ UNCHANGED <<ws, sendKey, sendSeq, recvKey, started, phoneKeys, pcVars, wireVars,
                   drops, histVars>>

\* gattserverdisconnected
BleDisconnects ==
    /\ bleReady /\ drops < MaxDrops
    /\ bleReady' = FALSE /\ drops' = drops + 1
    /\ UNCHANGED <<ws, sendKey, sendSeq, recvKey, started, phoneKeys, pcVars, wireVars,
                   histVars>>

-----------------------------------------------------------------------------
(* The phone *)

\* The next message of the relay is one of `types`.
PhoneReads(types) ==
    /\ ws = "open" /\ toPhone # << >> /\ Head(toPhone).type \in types
    /\ toPhone' = Tail(toPhone)
    /\ UNCHANGED <<ws, bleReady, pcVars, drops>>

\* peer_joined: with BLE the old ratchets are kept; otherwise a handshake begins.
OnPeerJoined ==
    /\ PhoneReads({"peer_joined"})
    /\ IF bleReady
       THEN UNCHANGED <<sendKey, sendSeq, recvKey, started, phoneKeys, toPc>>
       ELSE recvKey' = 0 /\ InitRatchet(<<KeyExchange>>)
    /\ UNCHANGED <<ble, histVars>>

\* key_exchange: beginSecureHandshake, unless it has begun
OnKeyExchange ==
    /\ PhoneReads({"key_exchange"})
    /\ IF started
       THEN UNCHANGED <<sendKey, sendSeq, started, phoneKeys, toPc>>
       ELSE InitRatchet(<< >>)
    /\ UNCHANGED <<recvKey, ble, histVars>>

\* Mutant of OnPcRatchetInit: a receive ratchet is initialised only once.
KeepRecvRatchet ==
    /\ PhoneReads({"pc_ratchet_init"})
    /\ recvKey' = IF recvKey = 0 THEN Head(toPhone).key ELSE recvKey
    /\ started' = FALSE
    /\ SendEncrypted("handshake_ack")
    /\ UNCHANGED <<sendKey, phoneKeys>>

\* pc_ratchet_init: initRecvRatchet and handshake_ack
OnPcRatchetInit ==
    /\ PhoneReads({"pc_ratchet_init"})
    /\ recvKey' = Head(toPhone).key
    /\ started' = FALSE
    /\ SendEncrypted("handshake_ack")
    /\ UNCHANGED <<sendKey, phoneKeys>>

\* peer_left, and an error while the session is encrypted
OnPeerLeft ==
    /\ PhoneReads({"peer_left", "error"})
    /\ started' = FALSE \/ (Head(toPhone) = NoPeer /\ UNCHANGED started)
    /\ UNCHANGED <<sendKey, sendSeq, recvKey, phoneKeys, toPc, ble, histVars>>

\* The user types, or sends again from the history.
Send ==
    /\ ws = "open" \/ sendKey # 0
    /\ sendSeq < MaxSent /\ Len(toPc \o toPhone) < MaxQueue
    /\ SendEncrypted("input")
    /\ UNCHANGED <<ws, bleReady, sendKey, recvKey, started, phoneKeys, pcVars, toPhone,
                   drops>>

-----------------------------------------------------------------------------
(* The PC *)

\* The next message of the relay is one of `types`.
PcReads(types) ==
    /\ online /\ toPc # << >> /\ Head(toPc).type \in types
    /\ toPc' = Tail(toPc)
    /\ UNCHANGED <<phoneVars, ble, drops>>

\* A message of the PC reaches the phone only if the relay has one.
PcSends(m) == toPhone' = IF ws = "open" THEN Append(toPhone, m) ELSE toPhone

OnPeerStatus ==
    /\ PcReads({"peer_joined", "peer_left"})
    /\ confirmed' = FALSE
    /\ UNCHANGED <<online, ratchetVars, pcKeys, toPhone, histVars>>

HandleKeyExchange ==
    /\ PcReads({"key_exchange"})
    /\ PcForgets /\ isReady' = TRUE /\ confirmed' = FALSE
    /\ PcSends(KeyExchange)
    /\ UNCHANGED <<online, pcKeys, histVars>>

\* Mutant of HandleRatchetInit: _highestSeenSeq is not reset.
KeepHighestSeen ==
    /\ PcReads({"ratchet_init"})
    /\ IF isReady
       THEN /\ pcRecvKey' = Head(toPc).key /\ expectedSeq' = 0
            /\ pcKeys' = pcKeys + 1 /\ pcSendKey' = pcKeys'
            /\ PcSends(PcRatchetInit(pcKeys'))
       ELSE UNCHANGED <<pcRecvKey, expectedSeq, pcKeys, pcSendKey, toPhone>>
    /\ UNCHANGED <<highestSeen, online, isReady, confirmed, histVars>>

\* ratchet_init: InitRatchet and InitSendRatchet, if the message opens
HandleRatchetInit ==
    /\ PcReads({"ratchet_init"})
    /\ IF isReady
       THEN /\ pcRecvKey' = Head(toPc).key /\ expectedSeq' = 0 /\ highestSeen' = -1
            /\ pcKeys' = pcKeys + 1 /\ pcSendKey' = pcKeys'
            /\ PcSends(PcRatchetInit(pcKeys'))
       ELSE UNCHANGED <<pcRecvKey, expectedSeq, highestSeen, pcKeys, pcSendKey, toPhone>>
    /\ UNCHANGED <<online, isReady, confirmed, histVars>>

HandleWsEncrypted ==
    /\ PcReads({"input", "handshake_ack"})
    /\ HandleEncrypted(Head(toPc))
    /\ UNCHANGED toPhone

\* HandleBleEncryptedMessage: each BLE write has a handler of its own; or it is
\* lost.
HandleBleEncrypted(m) ==
    /\ ble' = ble \ {m}
    /\ \/ HandleEncrypted(m)
       \/ UNCHANGED <<pcVars, histVars>>
    /\ UNCHANGED <<phoneVars, toPc, toPhone, drops>>

-----------------------------------------------------------------------------
PhoneHandles == OnPeerJoined \/ OnKeyExchange \/ OnPcRatchetInit \/ OnPeerLeft
PcHandles == OnPeerStatus \/ HandleKeyExchange \/ HandleRatchetInit \/ HandleWsEncrypted

Next ==
    \/ ConnectWs \/ JoinSession \/ PhoneDrops
    \/ PcDrops \/ PcRestarts \/ PcRejoins \/ RelayRefuses
    \/ BleVerified \/ BleDisconnects
    \/ PhoneHandles \/ Send
    \/ PcHandles \/ \E m \in ble : HandleBleEncrypted(m)

Spec == Init /\ [][Next]_vars

\* Sockets reconnect and what arrives is handled.
Fairness ==
    /\ WF_vars(ConnectWs) /\ WF_vars(JoinSession)
    /\ WF_vars(PcRejoins) /\ WF_vars(RelayRefuses)
    /\ WF_vars(PhoneHandles) /\ WF_vars(PcHandles)
FairSpec == Spec /\ Fairness

-----------------------------------------------------------------------------
(* Properties *)

Ratcheted == [type : {"input", "handshake_ack"}, key : Nat, seq : Nat]
ToPc == [type : {"peer_joined", "peer_left", "key_exchange"}]
        \cup [type : {"ratchet_init"}, key : Nat \ {0}] \cup Ratcheted
ToPhone == [type : {"peer_joined", "peer_left", "key_exchange", "error"}]
           \cup [type : {"pc_ratchet_init"}, key : Nat \ {0}]

FlagType ==
    /\ ws \in {"closed", "connecting", "open"}
    /\ bleReady \in BOOLEAN /\ started \in BOOLEAN
    /\ online \in BOOLEAN /\ isReady \in BOOLEAN /\ confirmed \in BOOLEAN
RatchetType ==
    /\ phoneKeys \in Nat /\ pcKeys \in Nat /\ drops \in 0 .. MaxDrops
    /\ sendKey \in {0, phoneKeys} /\ sendSeq \in Nat /\ recvKey \in Nat
    /\ pcRecvKey \in 0 .. phoneKeys /\ pcSendKey \in {0, pcKeys}
    /\ expectedSeq \in Nat /\ highestSeen \in Nat \cup {-1}
WireType ==
    /\ toPc \in Seq(ToPc) /\ toPhone \in Seq(ToPhone) /\ ble \subseteq Ratcheted
    /\ sent \subseteq (Nat \X Nat) /\ last \in Nat \X Nat

\* Every variable has its type.
TypeOK == FlagType /\ RatchetType /\ WireType

\* The inductive invariant behind DeliveredInOrder, part by part.
\* What was sent is numbered below what the phone sends next.
SentInv ==
    \A s \in sent : /\ s[1] \in 1 .. phoneKeys
                    /\ s[1] = sendKey => s[2] < sendSeq
\* Every numbered message on its way was sent.
WireInv ==
    /\ \A i \in DOMAIN toPc :
          toPc[i].type \in {"input", "handshake_ack"} /\ toPc[i].key # 0 =>
              Id(toPc[i]) \in sent
    /\ \A m \in ble : m.key # 0 => Id(m) \in sent
\* Seeds reach the PC in the order in which the phone generated them, each after
\* everything that was accepted under an older one.
SeedInv ==
    /\ \A i \in DOMAIN toPc : toPc[i].type = "ratchet_init" =>
          /\ toPc[i].key \in 1 .. phoneKeys
          /\ toPc[i].key > pcRecvKey /\ toPc[i].key > last[1]
    /\ \A i, j \in DOMAIN toPc :
          i < j /\ toPc[i].type = "ratchet_init" /\ toPc[j].type = "ratchet_init" =>
              toPc[i].key < toPc[j].key
\* The PC has seen whatever it accepted under its present key.
LastInv ==
    /\ last[1] <= phoneKeys
    /\ pcRecvKey # 0 =>
          last[1] < pcRecvKey \/ (last[1] = pcRecvKey /\ last[2] <= highestSeen)

DeliveryInv == SentInv /\ WireInv /\ SeedInv /\ LastInv

\* The PC accepts the ratcheted messages in the order in which the phone
\* encrypted them and none of them twice, over both transports and across
\* handshakes, reconnections and restarts of the PC.
Ordered == INSTANCE OrderedDelivery WITH sent <- sent, last <- last
DeliveredInOrder == Ordered!Spec

\* No handshake message is on its way.
Quiet ==
    /\ \A i \in DOMAIN toPc : toPc[i].type \in {"input", "handshake_ack"}
    /\ toPhone = << >>

\* Once the PC counts the session as encrypted, and nothing of a handshake is on
\* its way between the two, they hold the same keys in both directions.
ConfirmedMeansAgreed ==
    confirmed /\ ws = "open" /\ online /\ Quiet =>
        pcSendKey # 0 /\ recvKey = pcSendKey /\ sendKey = pcRecvKey

\* No BLE channel is used in the behaviour.
RelayOnly == []~bleReady

\* With the same key on both sides the PC has not run ahead of the phone, so
\* that it would take the phone's next message for a replay.  Over the relay: a BLE
\* write that was overtaken by a new seed can push the PC ahead (DecryptRatcheted).
PcNotAhead == sendKey # 0 /\ sendKey = pcRecvKey => highestSeen < sendSeq
PcNeverAhead == RelayOnly => []PcNotAhead

\* When connections are no longer lost, the handshake completes ("the existing
\* ratchet handles both WS and BLE", useWebSocket.ts).
HandshakeCompletes == <>[](confirmed /\ recvKey = pcSendKey /\ sendKey = pcRecvKey)

\* Over the relay it does.
RelayHandshakeCompletes == RelayOnly => HandshakeCompletes
=============================================================================
