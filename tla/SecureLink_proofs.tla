------------------------- MODULE SecureLink_proofs -------------------------
(* For every bound and with any use of BLE, SecureLink implements            *)
(* OrderedDelivery: what the PC accepts is in order and nothing is repeated. *)
(* Over the relay the PC is never ahead of the phone, and a confirmed PC     *)
(* and its phone use the same keys.                                          *)
EXTENDS SecureLink, SequenceTheorems, TLAPS

\* Both queues hold messages of one kind or the other, and the relay's own.
Messages == ToPc \cup ToPhone
Notices == {"peer_joined", "peer_left", "error"}

\* Apart from notices, the queue q holds messages of the queue p in their order.
From(q, p) ==
    /\ q \in Seq(Messages)
    /\ \A i \in DOMAIN q : q[i].type \in Notices \/ \E j \in DOMAIN p : p[j] = q[i]
    /\ \A i, k \in DOMAIN q :
          i < k /\ q[i].type \notin Notices /\ q[k].type \notin Notices =>
              \E j, l \in DOMAIN p : j < l /\ p[j] = q[i] /\ p[l] = q[k]

LEMMA NoticeType == {PeerJoined, PeerLeft, NoPeer} \subseteq Messages
BY DEF PeerJoined, PeerLeft, NoPeer, Messages, ToPc, ToPhone

LEMMA FromSame == ASSUME NEW p \in Seq(Messages) PROVE From(p, p)
BY DEF From

LEMMA FromNone == ASSUME NEW p PROVE From(<< >>, p)
BY DEF From

\* A part of a queue
LEMMA FromSubSeq ==
  ASSUME NEW p \in Seq(Messages), NEW a \in 1 .. Len(p) + 1, NEW b \in 0 .. Len(p)
  PROVE  From(SubSeq(p, a, b), p)
<1> DEFINE q == SubSeq(p, a, b)
<1>1. \A i \in a .. b : p[i] \in Messages
  OBVIOUS
<1>2. /\ q \in Seq(Messages)
      /\ Len(q) = IF a <= b THEN b - a + 1 ELSE 0
      /\ \A i \in 1 .. b - a + 1 : q[i] = p[a + i - 1]
  BY <1>1, SubSeqProperties
<1>3. \A i \in DOMAIN q : a + i - 1 \in DOMAIN p /\ q[i] = p[a + i - 1]
  BY <1>2
<1>4. ASSUME NEW r, r \in Seq(Messages),
             \A i \in DOMAIN r : a + i - 1 \in DOMAIN p /\ r[i] = p[a + i - 1]
      PROVE  From(r, p)
  <2>1. \A i, k \in DOMAIN r : i < k => a + i - 1 < a + k - 1
    BY <1>4
  <2> QED
    BY <1>4, <2>1 DEF From
<1> QED
  BY <1>2, <1>3, <1>4

LEMMA FromTail ==
  ASSUME NEW p \in Seq(Messages), p # << >>
  PROVE  From(Tail(p), p)
<1>1. Tail(p) = SubSeq(p, 2, Len(p)) /\ Len(p) \in Nat \ {0}
  BY TailIsSubSeq, EmptySeq
<1>2. 2 \in 1 .. Len(p) + 1 /\ Len(p) \in 0 .. Len(p)
  BY <1>1
<1> QED
  BY <1>1, <1>2, FromSubSeq

\* A notice behind a part of a queue, and one before it
LEMMA FromAppend ==
  ASSUME NEW p, NEW q, From(q, p), NEW m \in {PeerJoined, PeerLeft, NoPeer}
  PROVE  From(Append(q, m), p)
BY NoticeType DEF From, PeerJoined, PeerLeft, NoPeer, Notices

LEMMA FromNoticeBefore ==
  ASSUME NEW p, NEW q, From(q, p)
  PROVE  From(<<PeerJoined>> \o q, p)
<1> DEFINE r == <<PeerJoined>> \o q
<1>1. q \in Seq(Messages)
  BY DEF From
<1>2. /\ r \in Seq(Messages) /\ Len(r) = Len(q) + 1
      /\ \A i \in 1 .. Len(q) + 1 : r[i] = IF i = 1 THEN PeerJoined ELSE q[i - 1]
  BY <1>1, NoticeType
<1> HIDE DEF r
<1>3. \A i \in DOMAIN r : i \in Nat
         /\ (r[i] = PeerJoined \/ (i - 1 \in DOMAIN q /\ r[i] = q[i - 1]))
  BY <1>1, <1>2
<1>4. \A i, k \in DOMAIN r : i < k => i - 1 < k - 1
  BY <1>3
<1> QED
  BY <1>2, <1>3, <1>4 DEF From, PeerJoined, Notices

LEMMA FromBefore ==
  ASSUME NEW p \in Seq(Messages)
  PROVE  From(<<PeerJoined>> \o p, p)
BY FromSame, FromNoticeBefore

LEMMA QueueMessages ==
  ASSUME TypeOK
  PROVE  toPc \in Seq(Messages) /\ toPhone \in Seq(Messages)
BY DEF TypeOK, WireType, Messages

\* What the phone's and the PC's own messages add to a queue
LEMMA MessageTypes ==
  ASSUME NEW k \in Nat
  PROVE  /\ {PeerJoined, PeerLeft, KeyExchange} \subseteq ToPc
         /\ {PeerJoined, PeerLeft, KeyExchange, NoPeer} \subseteq ToPhone
         /\ k # 0 => RatchetInit(k) \in ToPc /\ PcRatchetInit(k) \in ToPhone
BY DEF PeerJoined, PeerLeft, KeyExchange, NoPeer, RatchetInit, PcRatchetInit, ToPc,
   ToPhone

\* The parts of a queue that survive a lost connection
LEMMA FromParts ==
  ASSUME NEW p \in Seq(Messages)
  PROVE  /\ \A q \in Suffixes(p) : From(q, p)
         /\ \A q \in Prefixes(p) : From(q, p)
<1>1. Len(p) \in Nat
  OBVIOUS
<1>2. \A l \in 1 .. Len(p) : From(SubSeq(p, l, Len(p)), p)
  <2> TAKE l \in 1 .. Len(p)
  <2>1. l \in 1 .. Len(p) + 1 /\ Len(p) \in 0 .. Len(p)
    BY <1>1
  <2> QED
    BY <2>1, FromSubSeq
<1>3. \A l \in 0 .. Len(p) : From(SubSeq(p, 1, l), p)
  <2> TAKE l \in 0 .. Len(p)
  <2>1. 1 \in 1 .. Len(p) + 1
    BY <1>1
  <2> QED
    BY <2>1, FromSubSeq
<1> QED
  BY <1>2, <1>3, FromNone DEF Suffixes, Prefixes

\* Messages that are only taken from the queue stay as they were promised.
LEMMA WireKeeps ==
  ASSUME WireInv, From(toPc', toPc), ble' \subseteq ble, sent \subseteq sent'
  PROVE  WireInv'
BY DEF WireInv, From, Notices, Id

\* Seeds stay in order, while the PC keeps its ratchet or forgets it.
LEMMA SeedsKeep ==
  ASSUME SeedInv, RatchetType, From(toPc', toPc), UNCHANGED phoneKeys,
         pcRecvKey' \in {0, pcRecvKey}, last'[1] \in {last[1], pcRecvKey}
  PROVE  SeedInv'
<1>1. \A i \in DOMAIN toPc' : toPc'[i].type = "ratchet_init" =>
         /\ toPc'[i].key \in 1 .. phoneKeys'
         /\ toPc'[i].key > pcRecvKey' /\ toPc'[i].key > last'[1]
  BY DEF SeedInv, From, Notices, RatchetType
<1>2. \A i, k \in DOMAIN toPc' :
         i < k /\ toPc'[i].type = "ratchet_init" /\ toPc'[k].type = "ratchet_init" =>
            toPc'[i].key < toPc'[k].key
  BY DEF SeedInv, From, Notices
<1> QED
  BY <1>1, <1>2 DEF SeedInv

\* The invariant survives when nothing is sent or accepted: queues only lose
\* messages, and each side keeps its ratchet or forgets it.
LEMMA QuietKeeps ==
  ASSUME TypeOK, DeliveryInv, From(toPc', toPc), ble' \subseteq ble,
         UNCHANGED <<phoneKeys, sent, last>>,
         UNCHANGED <<sendKey, sendSeq>> \/ sendKey' = 0,
         UNCHANGED <<pcRecvKey, highestSeen>> \/ pcRecvKey' = 0
  PROVE  DeliveryInv'
<1>1. SentInv'
  BY DEF DeliveryInv, SentInv, TypeOK, RatchetType
<1>2. WireInv'
  BY WireKeeps DEF DeliveryInv
<1>3. SeedInv'
  BY SeedsKeep DEF DeliveryInv, TypeOK
<1>4. LastInv'
  BY DEF DeliveryInv, LastInv
<1> QED
  BY <1>1, <1>2, <1>3, <1>4 DEF DeliveryInv

-----------------------------------------------------------------------------
(* Type correctness *)

LEMMA PartsType ==
  ASSUME NEW S, NEW p \in Seq(S)
  PROVE  Suffixes(p) \subseteq Seq(S) /\ Prefixes(p) \subseteq Seq(S)
<1>1. \A l \in 1 .. Len(p) : SubSeq(p, l, Len(p)) \in Seq(S)
  OBVIOUS
<1>2. \A l \in 0 .. Len(p) : SubSeq(p, 1, l) \in Seq(S)
  OBVIOUS
<1>3. << >> \in Seq(S)
  OBVIOUS
<1> QED
  BY <1>1, <1>2, <1>3 DEF Suffixes, Prefixes

LEMMA InitRatchetType ==
  ASSUME TypeOK, NEW first \in {<<KeyExchange>>, << >>}, InitRatchet(first)
  PROVE  /\ phoneKeys' = phoneKeys + 1 /\ sendKey' = phoneKeys' /\ sendSeq' = 0
         /\ started' = TRUE
         /\ toPc' \in Seq(ToPc)
<1>1. phoneKeys \in Nat /\ phoneKeys' \in Nat \ {0} /\ toPc \in Seq(ToPc)
  BY DEF TypeOK, RatchetType, WireType, InitRatchet
<1>2. {KeyExchange, RatchetInit(phoneKeys')} \subseteq ToPc
  BY <1>1, MessageTypes
<1>3. toPc \o first \o <<RatchetInit(phoneKeys')>> \in Seq(ToPc)
  <2>1. \A m \in ToPc : <<m>> \in Seq(ToPc)
    OBVIOUS
  <2>2. << >> \in Seq(ToPc)
    OBVIOUS
  <2>3. first \in Seq(ToPc) /\ <<RatchetInit(phoneKeys')>> \in Seq(ToPc)
    BY <1>2, <2>1, <2>2, Zenon
  <2> QED
    BY <1>1, <2>3
<1> QED
  BY <1>1, <1>3 DEF InitRatchet

LEMMA SendEncryptedType ==
  ASSUME TypeOK, NEW type \in {"input", "handshake_ack"}, SendEncrypted(type)
  PROVE  /\ sendSeq' \in Nat /\ last' = last
         /\ sent' \subseteq Nat \X Nat
         /\ toPc' \in Seq(ToPc) /\ ble' \subseteq Ratcheted
<1> DEFINE m == [type |-> type, key |-> sendKey, seq |-> sendSeq]
<1>1. m \in Ratcheted /\ m \in ToPc /\ Id(m) \in Nat \X Nat
  BY DEF TypeOK, RatchetType, Ratcheted, ToPc, Id
<1>2. toPc \in Seq(ToPc) /\ ble \subseteq Ratcheted /\ sendSeq \in Nat
      /\ sent \subseteq Nat \X Nat
  BY DEF TypeOK, RatchetType, WireType
<1>3. Append(toPc, m) \in Seq(ToPc)
  BY <1>1, <1>2
<1> QED
  BY <1>1, <1>2, <1>3 DEF SendEncrypted

LEMMA HandleEncryptedType ==
  ASSUME TypeOK, NEW m \in Ratcheted, HandleEncrypted(m)
  PROVE  /\ expectedSeq' \in Nat /\ highestSeen' \in Nat \cup {-1}
         /\ confirmed' \in BOOLEAN
         /\ last' \in Nat \X Nat
<1>1. /\ m.key \in Nat /\ m.seq \in Nat /\ Id(m) \in Nat \X Nat
  BY DEF Ratcheted, Id
<1> QED
  BY <1>1 DEF TypeOK, RatchetType, WireType, HandleEncrypted

\* A handler of the PC takes a message off its queue, one of the phone off its own.
LEMMA ReadType ==
  ASSUME TypeOK
  PROVE  /\ toPc # << >> => Head(toPc) \in ToPc /\ Tail(toPc) \in Seq(ToPc)
         /\ toPhone # << >> => Head(toPhone) \in ToPhone /\ Tail(toPhone) \in Seq(ToPhone)
BY DEF TypeOK, WireType

LEMMA TypeStep ==
  ASSUME TypeOK, SeedInv, [Next]_vars
  PROVE  TypeOK'
<1> USE DEF TypeOK
<1>1. CASE ConnectWs
  <2>1. RatchetType'
    BY <1>1 DEF ConnectWs, PhoneForgets, RatchetType, pcVars, ratchetVars
  <2>2. FlagType'
    BY <1>1 DEF ConnectWs, PhoneForgets, FlagType, pcVars, ratchetVars
  <2>3. WireType'
    BY <1>1 DEF ConnectWs, WireType, wireVars, histVars
  <2> QED
    BY <2>1, <2>2, <2>3
<1>2. CASE JoinSession
  <2>1. /\ PeerJoined \in ToPc /\ PeerJoined \in ToPhone
        /\ Suffixes(toPhone) \subseteq Seq(ToPhone)
    BY MessageTypes, PartsType DEF WireType
  <2>2. toPc' \in Seq(ToPc)
    <3>1. Append(toPc, PeerJoined) \in Seq(ToPc)
      BY <2>1 DEF WireType
    <3> QED
      BY <1>2, <3>1 DEF JoinSession, WireType
  <2>3. toPhone' \in Seq(ToPhone)
    <3>1. \A rest \in Seq(ToPhone) : <<PeerJoined>> \o rest \in Seq(ToPhone)
      BY <2>1
    <3> QED
      BY <1>2, <2>1, <3>1 DEF JoinSession, WireType
  <2> QED
    BY <1>2, <2>2, <2>3 DEF JoinSession, FlagType, RatchetType, WireType, pcVars,
       ratchetVars, histVars
<1>3. CASE PhoneDrops
  <2>1. /\ PeerLeft \in ToPc /\ << >> \in Seq(ToPc) /\ << >> \in Seq(ToPhone)
        /\ Suffixes(toPhone) \subseteq Seq(ToPhone) /\ Prefixes(toPc) \subseteq Seq(ToPc)
    BY MessageTypes, PartsType DEF WireType
  <2>2. toPc' \in Seq(ToPc) /\ toPhone' \in Seq(ToPhone)
    <3>1. \A rest \in Seq(ToPc) : Append(rest, PeerLeft) \in Seq(ToPc)
      BY <2>1
    <3> QED
      BY <1>3, <2>1, <3>1 DEF PhoneDrops
  <2>3. drops' \in 0 .. MaxDrops
    BY <1>3, SecureLinkAssumption DEF PhoneDrops, FlagType, RatchetType
  <2> QED
    BY <1>3, <2>2, <2>3 DEF PhoneDrops, FlagType, RatchetType, WireType, pcVars,
       ratchetVars, histVars
<1>4. ASSUME PcOffline
      PROVE  toPc' \in Seq(ToPc) /\ toPhone' \in Seq(ToPhone) /\ drops' \in 0 .. MaxDrops
  <2>1. /\ PeerLeft \in ToPhone /\ << >> \in Seq(ToPc) /\ << >> \in Seq(ToPhone)
        /\ Suffixes(toPc) \subseteq Seq(ToPc) /\ Prefixes(toPhone) \subseteq Seq(ToPhone)
    BY MessageTypes, PartsType DEF WireType
  <2>2. \A rest \in Seq(ToPhone) : Append(rest, PeerLeft) \in Seq(ToPhone)
    BY <2>1
  <2>3. drops' \in 0 .. MaxDrops
    BY <1>4, SecureLinkAssumption DEF PcOffline, FlagType, RatchetType
  <2> QED
    BY <1>4, <2>1, <2>2, <2>3 DEF PcOffline
<1>5. CASE PcDrops
  BY <1>4, <1>5 DEF PcDrops, PcOffline, FlagType, RatchetType, WireType, phoneVars,
     ratchetVars, histVars
<1>6. CASE PcRestarts
  <2>1. toPc' \in Seq(ToPc) /\ toPhone' \in Seq(ToPhone) /\ drops' \in 0 .. MaxDrops
    BY <1>4, <1>6 DEF PcRestarts
  <2>2. FlagType'
    BY <1>6 DEF PcRestarts, PcOffline, FlagType, phoneVars
  <2>3. RatchetType'
    BY <1>6, <2>1 DEF PcRestarts, PcForgets, PcOffline, RatchetType, phoneVars
  <2>4. WireType'
    BY <1>6, <2>1 DEF PcRestarts, PcOffline, WireType, histVars
  <2> QED
    BY <2>2, <2>3, <2>4
<1>7. CASE PcRejoins
  <2>1. PeerJoined \in ToPc /\ PeerJoined \in ToPhone
    BY MessageTypes
  <2>2. /\ <<PeerJoined>> \o toPc \in Seq(ToPc)
        /\ Append(toPhone, PeerJoined) \in Seq(ToPhone)
    BY <2>1 DEF WireType
  <2> QED
    BY <1>7, <2>2 DEF PcRejoins, FlagType, RatchetType, WireType, phoneVars,
       ratchetVars, histVars
<1>8. CASE RelayRefuses
  <2>1. NoPeer \in ToPhone
    BY MessageTypes
  <2>2. Append(toPhone, NoPeer) \in Seq(ToPhone)
    BY <2>1 DEF WireType
  <2> QED
    BY <1>8, <2>2, ReadType DEF RelayRefuses, FlagType, RatchetType, WireType,
       phoneVars, pcVars,
       ratchetVars, histVars
<1>9. CASE BleVerified
  BY <1>9 DEF BleVerified, FlagType, RatchetType, WireType, pcVars, ratchetVars,
     wireVars, histVars
<1>10. CASE BleDisconnects
  <2>1. RatchetType'
    BY <1>10, SecureLinkAssumption DEF BleDisconnects, RatchetType, pcVars, ratchetVars
  <2>2. FlagType'
    BY <1>10, SecureLinkAssumption DEF BleDisconnects, FlagType, pcVars, ratchetVars
  <2>3. WireType'
    BY <1>10 DEF BleDisconnects, WireType, wireVars, histVars
  <2> QED
    BY <2>1, <2>2, <2>3
<1>11. CASE OnPeerJoined
  <2>1. toPhone' \in Seq(ToPhone)
    BY <1>11, ReadType DEF OnPeerJoined, PhoneReads
  <2>2. CASE bleReady
    BY <1>11, <2>1, <2>2 DEF OnPeerJoined, PhoneReads, FlagType, RatchetType,
       WireType, pcVars,
       ratchetVars, histVars
  <2>3. CASE ~bleReady
    <3>1. InitRatchet(<<KeyExchange>>) /\ recvKey' = 0
      BY <1>11, <2>3 DEF OnPeerJoined
    <3>2. /\ phoneKeys' = phoneKeys + 1 /\ sendKey' = phoneKeys' /\ sendSeq' = 0
          /\ started' = TRUE /\ toPc' \in Seq(ToPc)
      BY <3>1, InitRatchetType
    <3>3. RatchetType'
      BY <1>11, <3>1, <3>2 DEF OnPeerJoined, PhoneReads, RatchetType, pcVars, ratchetVars
    <3>4. FlagType'
      BY <1>11, <3>2 DEF OnPeerJoined, PhoneReads, FlagType, pcVars, ratchetVars
    <3>5. WireType'
      BY <1>11, <2>1, <3>2 DEF OnPeerJoined, WireType, histVars
    <3> QED
      BY <3>3, <3>4, <3>5
  <2> QED
    BY <2>2, <2>3
<1>12. CASE OnKeyExchange
  <2>1. toPhone' \in Seq(ToPhone)
    BY <1>12, ReadType DEF OnKeyExchange, PhoneReads
  <2>2. CASE started
    BY <1>12, <2>1, <2>2 DEF OnKeyExchange, PhoneReads, FlagType, RatchetType,
       WireType, pcVars,
       ratchetVars, histVars
  <2>3. CASE ~started
    <3>1. InitRatchet(<< >>)
      BY <1>12, <2>3 DEF OnKeyExchange
    <3>2. /\ phoneKeys' = phoneKeys + 1 /\ sendKey' = phoneKeys' /\ sendSeq' = 0
          /\ started' = TRUE /\ toPc' \in Seq(ToPc)
      BY <3>1, InitRatchetType
    <3>3. RatchetType'
      BY <1>12, <3>1, <3>2 DEF OnKeyExchange, PhoneReads, RatchetType, pcVars, ratchetVars
    <3>4. FlagType'
      BY <1>12, <3>2 DEF OnKeyExchange, PhoneReads, FlagType, pcVars, ratchetVars
    <3>5. WireType'
      BY <1>12, <2>1, <3>2 DEF OnKeyExchange, WireType, histVars
    <3> QED
      BY <3>3, <3>4, <3>5
  <2> QED
    BY <2>2, <2>3
<1>13. CASE OnPcRatchetInit
  <2>1. toPhone' \in Seq(ToPhone) /\ recvKey' \in Nat
    BY <1>13, ReadType DEF OnPcRatchetInit, PhoneReads, ToPhone
  <2> QED
    BY <1>13, <2>1, SendEncryptedType DEF OnPcRatchetInit, PhoneReads, FlagType,
       RatchetType,
       WireType, pcVars, ratchetVars
<1>14. CASE OnPeerLeft
  <2>1. toPhone' \in Seq(ToPhone)
    BY <1>14, ReadType DEF OnPeerLeft, PhoneReads
  <2> QED
    BY <1>14, <2>1 DEF OnPeerLeft, PhoneReads, FlagType, RatchetType, WireType,
       pcVars, ratchetVars,
       histVars
<1>15. CASE Send
  BY <1>15, SendEncryptedType DEF Send, FlagType, RatchetType, WireType, pcVars,
     ratchetVars
<1>16. CASE OnPeerStatus
  <2>1. toPc' \in Seq(ToPc)
    BY <1>16, ReadType DEF OnPeerStatus, PcReads
  <2> QED
    BY <1>16, <2>1 DEF OnPeerStatus, PcReads, FlagType, RatchetType, WireType,
       phoneVars, ratchetVars,
       histVars
<1>17. CASE HandleKeyExchange
  <2>1. toPc' \in Seq(ToPc)
    BY <1>17, ReadType DEF HandleKeyExchange, PcReads
  <2>2. Append(toPhone, KeyExchange) \in Seq(ToPhone)
    BY MessageTypes DEF WireType
  <2>3. RatchetType'
    BY <1>17 DEF HandleKeyExchange, PcReads, PcForgets, RatchetType, phoneVars
  <2>4. FlagType'
    BY <1>17 DEF HandleKeyExchange, PcReads, PcForgets, FlagType, phoneVars
  <2>5. WireType'
    BY <1>17, <2>1, <2>2 DEF HandleKeyExchange, PcReads, PcSends, WireType, histVars
  <2> QED
    BY <2>3, <2>4, <2>5
<1>18. CASE HandleRatchetInit
  <2>1. toPc' \in Seq(ToPc)
    BY <1>18, ReadType DEF HandleRatchetInit, PcReads
  <2>2. toPhone' \in Seq(ToPhone)
    <3>1. PcRatchetInit(pcKeys + 1) \in ToPhone
      BY MessageTypes DEF FlagType, RatchetType
    <3>2. Append(toPhone, PcRatchetInit(pcKeys + 1)) \in Seq(ToPhone)
      BY <3>1 DEF WireType
    <3> QED
      BY <1>18, <3>2 DEF HandleRatchetInit, PcSends, WireType
  <2>3. pcRecvKey' \in 0 .. phoneKeys
    <3>1. 1 \in DOMAIN toPc /\ toPc[1] = Head(toPc) /\ Head(toPc).type = "ratchet_init"
      BY <1>18 DEF HandleRatchetInit, PcReads, WireType
    <3> QED
      BY <1>18, <3>1 DEF HandleRatchetInit, SeedInv, FlagType, RatchetType
  <2>4. RatchetType'
    BY <1>18, <2>3 DEF HandleRatchetInit, PcReads, RatchetType, phoneVars
  <2>5. FlagType'
    BY <1>18, <2>3 DEF HandleRatchetInit, PcReads, FlagType, phoneVars
  <2>6. WireType'
    BY <1>18, <2>1, <2>2 DEF HandleRatchetInit, PcReads, WireType, histVars
  <2> QED
    BY <2>4, <2>5, <2>6
<1>19. CASE HandleWsEncrypted
  <2>1. toPc' \in Seq(ToPc) /\ Head(toPc) \in Ratcheted
    BY <1>19, ReadType DEF HandleWsEncrypted, PcReads, ToPc
  <2> QED
    BY <1>19, <2>1, HandleEncryptedType DEF HandleWsEncrypted, PcReads, HandleEncrypted,
       FlagType, RatchetType, WireType, phoneVars
<1>20. ASSUME NEW m \in ble, HandleBleEncrypted(m) PROVE TypeOK'
  <2>1. m \in Ratcheted /\ ble' \subseteq Ratcheted
    BY <1>20 DEF HandleBleEncrypted, WireType
  <2>2. CASE HandleEncrypted(m)
    BY <1>20, <2>1, <2>2, HandleEncryptedType DEF HandleBleEncrypted, HandleEncrypted,
       FlagType, RatchetType, WireType, phoneVars
  <2>3. CASE UNCHANGED <<pcVars, histVars>>
    BY <1>20, <2>1, <2>3 DEF HandleBleEncrypted, FlagType, RatchetType, WireType,
       phoneVars, pcVars,
       ratchetVars, histVars
  <2> QED
    BY <1>20, <2>2, <2>3 DEF HandleBleEncrypted
<1>21. CASE UNCHANGED vars
  BY <1>21 DEF vars, phoneVars, pcVars, ratchetVars, wireVars, histVars, FlagType,
     RatchetType, WireType
<1> QED
  BY <1>1, <1>2, <1>3, <1>5, <1>6, <1>7, <1>8, <1>9, <1>10, <1>11, <1>12, <1>13, <1>14,
     <1>15, <1>16, <1>17, <1>18, <1>19, <1>20, <1>21 DEF Next, PhoneHandles, PcHandles

-----------------------------------------------------------------------------
(* Ordered delivery *)

\* A new seed is newer than every key the PC has seen.
LEMMA InitRatchetKeeps ==
  ASSUME TypeOK, DeliveryInv, NEW first \in {<<KeyExchange>>, << >>}, InitRatchet(first),
         UNCHANGED <<pcRecvKey, highestSeen, ble, sent, last>>
  PROVE  DeliveryInv'
<1>1. /\ phoneKeys \in Nat /\ phoneKeys' = phoneKeys + 1 /\ sendKey' = phoneKeys'
      /\ pcRecvKey \in 0 .. phoneKeys /\ toPc \in Seq(ToPc)
      /\ last[1] \in Nat
  BY DEF TypeOK, RatchetType, WireType, InitRatchet
<1>2. SentInv'
  BY <1>1 DEF DeliveryInv, SentInv
<1>3. /\ Len(toPc) \in Nat /\ Len(toPc') \in Nat
      /\ \A i \in DOMAIN toPc' :
            \/ i \in DOMAIN toPc /\ toPc'[i] = toPc[i]
            \/ toPc'[i] = KeyExchange
            \/ i = Len(toPc') /\ i > Len(toPc) /\ toPc'[i] = RatchetInit(phoneKeys')
  <2> DEFINE r == <<RatchetInit(phoneKeys')>>
  <2>1. CASE first = << >>
    <3>1. toPc' = toPc \o r
      BY <1>1, <2>1 DEF InitRatchet
    <3> QED
      BY <1>1, <3>1
  <2>2. CASE first = <<KeyExchange>>
    <3>1. toPc' = (toPc \o <<KeyExchange>>) \o r
      BY <2>2 DEF InitRatchet
    <3> QED
      BY <1>1, <3>1
  <2> QED
    BY <2>1, <2>2
<1>4. WireInv'
  BY <1>3 DEF DeliveryInv, WireInv, KeyExchange, RatchetInit, Id
<1>5. SeedInv'
  <2>1. \A i \in DOMAIN toPc' : toPc'[i].type = "ratchet_init" =>
           \/ i \in DOMAIN toPc /\ toPc'[i] = toPc[i]
           \/ i = Len(toPc') /\ i > Len(toPc) /\ toPc'[i].key = phoneKeys + 1
    BY <1>1, <1>3 DEF KeyExchange, RatchetInit
  <2>2. last[1] <= phoneKeys
    BY DEF DeliveryInv, LastInv
  <2>3. \A i \in DOMAIN toPc' : toPc'[i].type = "ratchet_init" =>
           /\ toPc'[i].key \in 1 .. phoneKeys'
           /\ toPc'[i].key > pcRecvKey /\ toPc'[i].key > last[1]
    BY <1>1, <2>1, <2>2 DEF DeliveryInv, SeedInv
  <2>4. \A i, j \in DOMAIN toPc' :
           i < j /\ toPc'[i].type = "ratchet_init" /\ toPc'[j].type = "ratchet_init" =>
              toPc'[i].key < toPc'[j].key
    BY <1>1, <1>3, <2>1 DEF DeliveryInv, SeedInv
  <2> QED
    BY <2>3, <2>4 DEF SeedInv
<1>6. LastInv'
  BY <1>1 DEF DeliveryInv, LastInv
<1> QED
  BY <1>2, <1>4, <1>5, <1>6 DEF DeliveryInv

\* What is sent comes after all that was sent before.
LEMMA SendKeeps ==
  ASSUME TypeOK, DeliveryInv, NEW type \in {"input", "handshake_ack"},
         SendEncrypted(type), UNCHANGED <<phoneKeys, sendKey, pcRecvKey, highestSeen>>
  PROVE  DeliveryInv' /\ [Ordered!Next]_<<sent, last>>
<1> DEFINE m == [type |-> type, key |-> sendKey, seq |-> sendSeq]
<1>1. /\ phoneKeys \in Nat /\ sendKey \in {0, phoneKeys} /\ sendSeq \in Nat
      /\ toPc \in Seq(ToPc) /\ last' = last
      /\ sent \subseteq sent' /\ (m.key # 0 => Id(m) \in sent')
  BY DEF TypeOK, RatchetType, WireType, SendEncrypted
<1>2. SentInv'
  <2>1. \/ sent' = sent /\ sendKey = 0
        \/ /\ sent' = sent \cup {<<sendKey, sendSeq>>} /\ sendKey \in 1 .. phoneKeys
           /\ sendSeq' = sendSeq + 1
    BY <1>1 DEF SendEncrypted, Id
  <2> QED
    BY <1>1, <2>1 DEF DeliveryInv, SentInv, TypeOK, WireType
<1>3. \A i \in DOMAIN toPc' : (i \in DOMAIN toPc /\ toPc'[i] = toPc[i]) \/ toPc'[i] = m
  BY <1>1 DEF SendEncrypted
<1>4. WireInv'
  BY <1>1, <1>3 DEF DeliveryInv, WireInv, SendEncrypted, Id
<1>5. SeedInv'
  BY <1>1, <1>3 DEF DeliveryInv, SeedInv
<1>6. LastInv'
  BY <1>1 DEF DeliveryInv, LastInv
<1>7. [Ordered!Next]_<<sent, last>>
  <2>1. CASE sendKey = 0
    BY <1>1, <2>1 DEF SendEncrypted
  <2>2. CASE sendKey # 0
    <3>1. sent' = sent \cup {<<sendKey, sendSeq>>}
      BY <2>2 DEF SendEncrypted, Id
    <3>2. \A s \in sent : Ordered!Before(s, <<sendKey, sendSeq>>)
      BY <1>1, <2>2 DEF DeliveryInv, SentInv, Ordered!Before, TypeOK, WireType
    <3> QED
      BY <1>1, <3>1, <3>2 DEF Ordered!Next, Ordered!Send
  <2> QED
    BY <2>1, <2>2
<1> QED
  BY <1>2, <1>4, <1>5, <1>6, <1>7 DEF DeliveryInv

\* What the PC accepts comes after all that it accepted before.
LEMMA AcceptKeeps ==
  ASSUME TypeOK, DeliveryInv, NEW m \in Ratcheted, m.key # 0 => Id(m) \in sent,
         HandleEncrypted(m), From(toPc', toPc), ble' \subseteq ble,
         UNCHANGED <<phoneKeys, sendKey, sendSeq>>
  PROVE  DeliveryInv' /\ [Ordered!Next]_<<sent, last>>
<1>1. /\ sent' = sent /\ pcRecvKey' = pcRecvKey
      /\ m.seq \in Nat /\ highestSeen \in Int /\ pcRecvKey \in 0 .. phoneKeys
      /\ phoneKeys \in Nat /\ last \in Nat \X Nat
  BY DEF TypeOK, RatchetType, WireType, Ratcheted, HandleEncrypted
<1>2. \/ /\ last' = last /\ highestSeen' \in Int
         /\ highestSeen' = highestSeen \/ highestSeen' > highestSeen
      \/ /\ m.key # 0 /\ last' = Id(m) /\ m.key = pcRecvKey
         /\ highestSeen' = m.seq /\ m.seq > highestSeen
  BY <1>1 DEF HandleEncrypted, Opens, InOrder
<1>3. SentInv'
  BY <1>1 DEF DeliveryInv, SentInv
<1>4. WireInv'
  BY <1>1, WireKeeps DEF DeliveryInv
<1>5. SeedInv'
  BY <1>1, <1>2, SeedsKeep DEF DeliveryInv, TypeOK, Id
<1>6. LastInv'
  BY <1>1, <1>2 DEF DeliveryInv, LastInv, Id
<1>7. [Ordered!Next]_<<sent, last>>
  <2>1. CASE last' = last
    BY <1>1, <2>1
  <2>2. CASE m.key # 0 /\ last' = Id(m) /\ m.key = pcRecvKey /\ m.seq > highestSeen
    <3>1. Ordered!Before(last, Id(m))
      BY <1>1, <2>2 DEF DeliveryInv, LastInv, Ordered!Before, Id
    <3> QED
      BY <1>1, <2>2, <3>1 DEF Ordered!Next, Ordered!Accept
  <2> QED
    BY <1>2, <2>1, <2>2
<1> QED
  BY <1>3, <1>4, <1>5, <1>6, <1>7 DEF DeliveryInv

\* A new key for the PC is newer than what it accepted.
LEMMA RatchetInitKeeps ==
  ASSUME TypeOK, DeliveryInv, HandleRatchetInit
  PROVE  DeliveryInv'
<1>1. From(toPc', toPc) /\ ble' = ble
  BY FromTail, QueueMessages DEF HandleRatchetInit, PcReads
<1>2. UNCHANGED <<phoneKeys, sendKey, sendSeq, sent, last>>
  BY DEF HandleRatchetInit, PcReads, phoneVars, histVars
<1>3. CASE ~isReady
  <2>1. UNCHANGED <<pcRecvKey, highestSeen>>
    BY <1>3 DEF HandleRatchetInit
  <2> QED
    BY <1>1, <1>2, <2>1, QuietKeeps
<1>4. CASE isReady
  <2>1. /\ toPc # << >> /\ toPc \in Seq(ToPc) /\ toPc' = Tail(toPc)
        /\ toPc[1].type = "ratchet_init" /\ pcRecvKey' = toPc[1].key
    BY <1>4 DEF HandleRatchetInit, PcReads, TypeOK, WireType
  <2>2. /\ pcRecvKey' \in 1 .. phoneKeys /\ pcRecvKey' > last[1]
    BY <2>1 DEF DeliveryInv, SeedInv
  <2>3. SentInv' /\ WireInv' /\ LastInv'
    BY <1>1, <1>2, <2>2, WireKeeps DEF DeliveryInv, SentInv, LastInv
  <2>4. SeedInv'
    <3>1. \A i \in DOMAIN toPc' : i + 1 \in DOMAIN toPc /\ toPc'[i] = toPc[i + 1]
      BY <2>1
    <3>2. \A i \in DOMAIN toPc' : toPc'[i].type = "ratchet_init" =>
             /\ toPc'[i].key \in 1 .. phoneKeys'
             /\ toPc'[i].key > pcRecvKey' /\ toPc'[i].key > last'[1]
      BY <1>2, <2>1, <3>1 DEF DeliveryInv, SeedInv
    <3>3. \A i, j \in DOMAIN toPc' :
             i < j /\ toPc'[i].type = "ratchet_init" /\ toPc'[j].type = "ratchet_init" =>
                toPc'[i].key < toPc'[j].key
      BY <1>1 DEF DeliveryInv, SeedInv, From, Notices
    <3> QED
      BY <3>2, <3>3 DEF SeedInv
  <2> QED
    BY <2>3, <2>4 DEF DeliveryInv
<1> QED
  BY <1>3, <1>4

LEMMA DeliveryStep ==
  ASSUME TypeOK, DeliveryInv, [Next]_vars
  PROVE  DeliveryInv' /\ [Ordered!Next]_<<sent, last>>
<1> DEFINE Goal == DeliveryInv' /\ [Ordered!Next]_<<sent, last>>
<1>0. toPc \in Seq(ToPc) /\ toPc \in Seq(Messages) /\ From(toPc, toPc)
  BY FromSame, QueueMessages DEF TypeOK, WireType
<1>1. ASSUME From(toPc', toPc), ble' \subseteq ble, UNCHANGED <<phoneKeys, sent, last>>,
             UNCHANGED <<sendKey, sendSeq>> \/ sendKey' = 0,
             UNCHANGED <<pcRecvKey, highestSeen>> \/ pcRecvKey' = 0
      PROVE  Goal
  BY <1>1, QuietKeeps
<1>2. CASE ConnectWs
  BY <1>0, <1>1, <1>2 DEF ConnectWs, PhoneForgets, pcVars, ratchetVars, wireVars, histVars
<1>3. CASE JoinSession
  <2>1. From(toPc', toPc)
    BY <1>0, <1>3, FromAppend DEF JoinSession
  <2> QED
    BY <1>1, <1>3, <2>1 DEF JoinSession, pcVars, ratchetVars, histVars
<1>4. CASE PhoneDrops
  <2>1. From(toPc', toPc)
    BY <1>0, <1>4, FromParts, FromNone, FromAppend DEF PhoneDrops
  <2> QED
    BY <1>1, <1>4, <2>1 DEF PhoneDrops, pcVars, ratchetVars, histVars
<1>5. ASSUME PcOffline PROVE From(toPc', toPc)
  BY <1>0, <1>5, FromParts, FromNone DEF PcOffline
<1>6. CASE PcDrops
  BY <1>1, <1>5, <1>6 DEF PcDrops, PcOffline, phoneVars, ratchetVars, histVars
<1>7. CASE PcRestarts
  <2>1. From(toPc', toPc)
    BY <1>5, <1>7 DEF PcRestarts
  <2> QED
    BY <1>1, <1>7, <2>1 DEF PcRestarts, PcForgets, PcOffline, phoneVars, histVars
<1>8. CASE PcRejoins
  <2>1. From(toPc', toPc)
    BY <1>0, <1>8, FromBefore DEF PcRejoins
  <2> QED
    BY <1>1, <1>8, <2>1 DEF PcRejoins, phoneVars, ratchetVars, histVars
<1>9. CASE RelayRefuses
  <2>1. From(toPc', toPc)
    BY <1>0, <1>9, FromTail DEF RelayRefuses
  <2> QED
    BY <1>1, <1>9, <2>1 DEF RelayRefuses, phoneVars, pcVars, ratchetVars, histVars
<1>10. CASE BleVerified \/ BleDisconnects
  BY <1>0, <1>1, <1>10 DEF BleVerified, BleDisconnects, pcVars, ratchetVars, wireVars,
     histVars
<1>11. ASSUME NEW types, PhoneReads(types) PROVE UNCHANGED <<pcRecvKey, highestSeen>>
  BY <1>11 DEF PhoneReads, pcVars, ratchetVars
<1>12. CASE OnPeerJoined
  <2>1. UNCHANGED <<pcRecvKey, highestSeen, ble, sent, last>>
    BY <1>11, <1>12 DEF OnPeerJoined, histVars
  <2>2. CASE bleReady
    BY <1>0, <1>1, <1>12, <2>1, <2>2 DEF OnPeerJoined
  <2>3. CASE ~bleReady
    <3>1. InitRatchet(<<KeyExchange>>)
      BY <1>12, <2>3 DEF OnPeerJoined
    <3> QED
      BY <2>1, <3>1, InitRatchetKeeps
  <2> QED
    BY <2>2, <2>3
<1>13. CASE OnKeyExchange
  <2>1. UNCHANGED <<pcRecvKey, highestSeen, ble, sent, last>>
    BY <1>11, <1>13 DEF OnKeyExchange, histVars
  <2>2. CASE started
    BY <1>0, <1>1, <1>13, <2>1, <2>2 DEF OnKeyExchange
  <2>3. CASE ~started
    <3>1. InitRatchet(<< >>)
      BY <1>13, <2>3 DEF OnKeyExchange
    <3> QED
      BY <2>1, <3>1, InitRatchetKeeps
  <2> QED
    BY <2>2, <2>3
<1>14. CASE OnPcRatchetInit
  <2>1. UNCHANGED <<pcRecvKey, highestSeen, sendKey, phoneKeys>>
    BY <1>11, <1>14 DEF OnPcRatchetInit
  <2> QED
    BY <1>14, <2>1, SendKeeps DEF OnPcRatchetInit
<1>15. CASE OnPeerLeft
  <2>1. UNCHANGED <<pcRecvKey, highestSeen>>
    BY <1>11, <1>15 DEF OnPeerLeft
  <2> QED
    BY <1>0, <1>1, <1>15, <2>1 DEF OnPeerLeft, histVars
<1>16. CASE Send
  BY <1>16, SendKeeps DEF Send, pcVars, ratchetVars
<1>17. ASSUME NEW types, PcReads(types)
       PROVE  From(toPc', toPc) /\ UNCHANGED <<phoneKeys, sendKey, sendSeq, ble>>
  BY <1>0, <1>17, FromTail DEF PcReads, phoneVars
<1>18. CASE OnPeerStatus
  <2>1. From(toPc', toPc) /\ UNCHANGED <<phoneKeys, sendKey, sendSeq, ble>>
    BY <1>17, <1>18 DEF OnPeerStatus
  <2> QED
    BY <1>1, <1>18, <2>1 DEF OnPeerStatus, ratchetVars, histVars
<1>19. CASE HandleKeyExchange
  <2>1. From(toPc', toPc) /\ UNCHANGED <<phoneKeys, sendKey, sendSeq, ble>>
    BY <1>17, <1>19 DEF HandleKeyExchange
  <2> QED
    BY <1>1, <1>19, <2>1 DEF HandleKeyExchange, PcForgets, histVars
<1>20. CASE HandleRatchetInit
  BY <1>20, RatchetInitKeeps DEF HandleRatchetInit, histVars
<1>21. CASE HandleWsEncrypted
  <2>1. /\ Head(toPc) \in Ratcheted
        /\ Head(toPc).key # 0 => Id(Head(toPc)) \in sent
    BY <1>0, <1>21 DEF HandleWsEncrypted, PcReads, ToPc, DeliveryInv, WireInv
  <2>2. From(toPc', toPc) /\ UNCHANGED <<phoneKeys, sendKey, sendSeq, ble>>
    BY <1>17, <1>21 DEF HandleWsEncrypted
  <2> QED
    BY <1>21, <2>1, <2>2, AcceptKeeps DEF HandleWsEncrypted
<1>22. ASSUME NEW m \in ble, HandleBleEncrypted(m) PROVE Goal
  <2>1. /\ m \in Ratcheted
        /\ m.key # 0 => Id(m) \in sent
    BY DEF TypeOK, WireType, DeliveryInv, WireInv
  <2>2. /\ From(toPc', toPc) /\ ble' \subseteq ble
        /\ UNCHANGED <<phoneKeys, sendKey, sendSeq>>
    BY <1>0, <1>22 DEF HandleBleEncrypted, phoneVars
  <2>3. CASE HandleEncrypted(m)
    BY <2>1, <2>2, <2>3, AcceptKeeps
  <2>4. CASE UNCHANGED <<pcVars, histVars>>
    BY <1>1, <2>2, <2>4 DEF pcVars, ratchetVars, histVars
  <2> QED
    BY <1>22, <2>3, <2>4 DEF HandleBleEncrypted
<1>23. CASE UNCHANGED vars
  BY <1>0, <1>1, <1>23 DEF vars, phoneVars, pcVars, ratchetVars, wireVars, histVars
<1> QED
  BY <1>2, <1>3, <1>4, <1>6, <1>7, <1>8, <1>9, <1>10, <1>12, <1>13, <1>14, <1>15, <1>16,
     <1>18, <1>19, <1>20, <1>21, <1>22, <1>23 DEF Next, PhoneHandles, PcHandles

-----------------------------------------------------------------------------
\* Keys, sequence numbers and queued messages keep their types, and the parts of
\* DeliveryInv hold: no handler or lost connection brings a seed or a message to
\* the PC that the phone did not send, or an older seed after a newer one.
THEOREM DeliveryInvariant == Spec => [](TypeOK /\ DeliveryInv)
<1>1. Init => TypeOK /\ DeliveryInv
  <2> SUFFICES ASSUME Init PROVE TypeOK /\ DeliveryInv
    OBVIOUS
  <2>1. FlagType
    BY DEF Init, FlagType
  <2>2. RatchetType
    BY SecureLinkAssumption DEF Init, RatchetType
  <2>3. WireType
    BY DEF Init, WireType
  <2>4. SentInv /\ WireInv /\ SeedInv /\ LastInv
    BY DEF Init, SentInv, WireInv, SeedInv, LastInv
  <2> QED
    BY <2>1, <2>2, <2>3, <2>4 DEF TypeOK, DeliveryInv
<1>2. TypeOK /\ DeliveryInv /\ [Next]_vars => (TypeOK /\ DeliveryInv)'
  BY TypeStep, DeliveryStep DEF DeliveryInv
<1> QED
  BY <1>1, <1>2, PTL DEF Spec

\* Keys, numbers and queues of both sides keep their types: no step of CryptoService.cs or
\* crypto.ts uses a key that nobody has generated.
THEOREM TypeCorrect == Spec => []TypeOK
  BY DeliveryInvariant, PTL

\* The encrypted link implements ordered delivery: whatever the relay, BLE and
\* restarts do, the PC accepts what the phone sent, in order and nothing twice.
THEOREM Implements == Spec => DeliveredInOrder
<1>1. Init => Ordered!Init
  BY DEF Init, Ordered!Init
<1>2. TypeOK /\ DeliveryInv /\ [Next]_vars => [Ordered!Next]_<<sent, last>>
  BY DeliveryStep
<1> QED
  BY <1>1, <1>2, DeliveryInvariant, PTL DEF Spec, DeliveredInOrder, Ordered!Spec

-----------------------------------------------------------------------------
(* The PC does not run ahead *)

Numbered(m) == m.type \in {"input", "handshake_ack"} /\ m.key # 0

\* Over the relay no message comes to the PC behind a newer seed: neither behind one
\* that the PC has taken, nor behind one on its way.
OrderInv ==
    /\ \A i \in DOMAIN toPc : Numbered(toPc[i]) => toPc[i].key >= pcRecvKey
    /\ \A i, k \in DOMAIN toPc :
          i < k /\ toPc[i].type = "ratchet_init" /\ Numbered(toPc[k]) =>
              toPc[k].key >= toPc[i].key

\* The inductive invariant of a behaviour over the relay
AheadInv == ble = {} /\ OrderInv /\ PcNotAhead

LEMMA SeqTypes ==
  ASSUME TypeOK
  PROVE  /\ phoneKeys \in Nat /\ sendKey \in {0, phoneKeys} /\ sendSeq \in Nat
         /\ pcRecvKey \in 0 .. phoneKeys /\ highestSeen \in Int /\ toPc \in Seq(ToPc)
         /\ \A i \in DOMAIN toPc : Numbered(toPc[i]) =>
               toPc[i] \in Ratcheted /\ toPc[i].key \in Nat /\ toPc[i].seq \in Nat
BY DEF TypeOK, RatchetType, WireType, Ratcheted, ToPc, Numbered

\* What is left of the queue, behind notices, is in the same order.
LEMMA OrderKeeps ==
  ASSUME TypeOK, OrderInv, From(toPc', toPc), pcRecvKey' \in {0, pcRecvKey}
  PROVE  OrderInv'
<1>1. ASSUME NEW i \in DOMAIN toPc', Numbered(toPc'[i])
      PROVE  toPc'[i].key >= pcRecvKey'
  <2>1. PICK j \in DOMAIN toPc : toPc[j] = toPc'[i]
    BY <1>1 DEF From, Notices, Numbered
  <2>2. toPc[j].key >= pcRecvKey /\ toPc[j].key \in Nat
    BY <1>1, <2>1, SeqTypes DEF OrderInv
  <2> QED
    BY <2>1, <2>2, SeqTypes
<1>2. ASSUME NEW i \in DOMAIN toPc', NEW k \in DOMAIN toPc', i < k,
             toPc'[i].type = "ratchet_init", Numbered(toPc'[k])
      PROVE  toPc'[k].key >= toPc'[i].key
  <2>1. PICK j \in DOMAIN toPc, l \in DOMAIN toPc :
           j < l /\ toPc[j] = toPc'[i] /\ toPc[l] = toPc'[k]
    BY <1>2 DEF From, Notices, Numbered
  <2> QED
    BY <1>2, <2>1 DEF OrderInv
<1> QED
  BY <1>1, <1>2 DEF OrderInv

\* Nothing is sent, and nothing is counted as seen.
LEMMA QuietNotAhead ==
  ASSUME TypeOK, AheadInv, From(toPc', toPc), ble' \subseteq ble,
         UNCHANGED <<sendKey, sendSeq>> \/ sendKey' = 0,
         UNCHANGED <<pcRecvKey, highestSeen>> \/ pcRecvKey' = 0
  PROVE  AheadInv'
<1>1. OrderInv'
  BY OrderKeeps DEF AheadInv
<1> QED
  BY <1>1, SeqTypes DEF AheadInv, PcNotAhead

\* A new seed of the phone comes behind all that is on its way, and the PC has another.
LEMMA SeedNotAhead ==
  ASSUME TypeOK, AheadInv, NEW first \in {<<KeyExchange>>, << >>}, InitRatchet(first),
         UNCHANGED <<pcRecvKey, highestSeen, ble>>
  PROVE  AheadInv'
<1>1. /\ phoneKeys' = phoneKeys + 1 /\ sendKey' = phoneKeys' /\ toPc \in Seq(ToPc)
  BY SeqTypes DEF InitRatchet
<1>2. PcNotAhead'
  BY <1>1, SeqTypes DEF PcNotAhead
<1>3. /\ Len(toPc) \in Nat /\ Len(toPc') \in Nat
      /\ \A i \in DOMAIN toPc' :
            \/ i \in DOMAIN toPc /\ toPc'[i] = toPc[i]
            \/ i > Len(toPc) /\ toPc'[i].type \in {"key_exchange", "ratchet_init"}
  <2> DEFINE r == <<RatchetInit(phoneKeys')>>
  <2>1. CASE first = << >>
    <3>1. toPc' = toPc \o r
      BY <1>1, <2>1 DEF InitRatchet
    <3> QED
      BY <1>1, <3>1 DEF RatchetInit
  <2>2. CASE first = <<KeyExchange>>
    <3>1. toPc' = (toPc \o <<KeyExchange>>) \o r
      BY <2>2 DEF InitRatchet
    <3> QED
      BY <1>1, <3>1 DEF RatchetInit, KeyExchange
  <2> QED
    BY <2>1, <2>2
<1>4. \A k \in DOMAIN toPc' : Numbered(toPc'[k]) => k \in DOMAIN toPc /\ toPc'[k] = toPc[k]
  BY <1>3 DEF Numbered
<1>5. \A i, k \in DOMAIN toPc' :
         i < k /\ Numbered(toPc'[k]) => i \in DOMAIN toPc /\ toPc'[i] = toPc[i]
  BY <1>1, <1>3, <1>4
<1>6. OrderInv'
  BY <1>4, <1>5 DEF OrderInv, AheadInv
<1> QED
  BY <1>2, <1>6 DEF AheadInv

\* What the phone sends is under its newest key.
LEMMA SendNotAhead ==
  ASSUME TypeOK, DeliveryInv, AheadInv, NEW type \in {"input", "handshake_ack"},
         SendEncrypted(type), ~bleReady, UNCHANGED <<sendKey, pcRecvKey, highestSeen>>
  PROVE  AheadInv'
<1> DEFINE m == [type |-> type, key |-> sendKey, seq |-> sendSeq]
<1>1. /\ ble' = ble /\ toPc' \in {toPc, Append(toPc, m)}
      /\ sendKey # 0 => sendSeq' = sendSeq + 1
  BY DEF SendEncrypted
<1>2. PcNotAhead'
  BY <1>1, SeqTypes DEF AheadInv, PcNotAhead
<1>3. /\ Len(toPc) \in Nat
      /\ \A i \in DOMAIN toPc' :
            \/ i \in DOMAIN toPc /\ toPc'[i] = toPc[i]
            \/ i = Len(toPc) + 1 /\ toPc'[i] = m
  BY <1>1, SeqTypes
<1>4. Numbered(m) => m.key = phoneKeys
  BY SeqTypes DEF Numbered
<1>5. m.type # "ratchet_init"
  OBVIOUS
<1> HIDE DEF m
<1>6. \A i \in DOMAIN toPc : toPc[i].type = "ratchet_init" => toPc[i].key \in 1 .. phoneKeys
  BY DEF DeliveryInv, SeedInv
<1>7. \A i \in DOMAIN toPc' : Numbered(toPc'[i]) => toPc'[i].key >= pcRecvKey
  BY <1>3, <1>4, SeqTypes DEF AheadInv, OrderInv
<1>8. ASSUME NEW i \in DOMAIN toPc', NEW k \in DOMAIN toPc', i < k,
             toPc'[i].type = "ratchet_init", Numbered(toPc'[k])
      PROVE  toPc'[k].key >= toPc'[i].key
  <2>1. i \in DOMAIN toPc /\ toPc'[i] = toPc[i]
    BY <1>3, <1>5, <1>8
  <2>2. CASE toPc'[k] = m
    BY <1>4, <1>6, <1>8, <2>1, <2>2, SeqTypes
  <2>3. CASE k \in DOMAIN toPc /\ toPc'[k] = toPc[k]
    BY <1>8, <2>1, <2>3 DEF AheadInv, OrderInv
  <2> QED
    BY <1>3, <2>2, <2>3
<1> QED
  BY <1>1, <1>2, <1>7, <1>8 DEF AheadInv, OrderInv

\* The PC takes the seed at the head of the queue: what follows is under it or newer.
LEMMA TakeSeedNotAhead ==
  ASSUME TypeOK, AheadInv, HandleRatchetInit
  PROVE  AheadInv'
<1>1. /\ toPc # << >> /\ toPc' = Tail(toPc) /\ Head(toPc).type = "ratchet_init"
      /\ UNCHANGED <<ble, sendKey, sendSeq>>
  BY DEF HandleRatchetInit, PcReads, phoneVars
<1>2. From(toPc', toPc)
  BY <1>1, FromTail, QueueMessages
<1>3. CASE ~isReady
  <2>1. UNCHANGED <<pcRecvKey, highestSeen>>
    BY <1>3 DEF HandleRatchetInit
  <2> QED
    BY <1>1, <1>2, <2>1, QuietNotAhead
<1>4. CASE isReady
  <2>1. pcRecvKey' = toPc[1].key /\ highestSeen' = -1 /\ toPc[1].type = "ratchet_init"
    BY <1>1, <1>4, SeqTypes DEF HandleRatchetInit
  <2>2. \A i \in DOMAIN toPc' :
           i + 1 \in DOMAIN toPc /\ 1 < i + 1 /\ 1 \in DOMAIN toPc /\ toPc'[i] = toPc[i + 1]
    BY <1>1, SeqTypes
  <2>3. \A i \in DOMAIN toPc' : Numbered(toPc'[i]) => toPc'[i].key >= pcRecvKey'
    BY <2>1, <2>2 DEF AheadInv, OrderInv
  <2>4. \A i, k \in DOMAIN toPc' :
           i < k /\ toPc'[i].type = "ratchet_init" /\ Numbered(toPc'[k]) =>
              toPc'[k].key >= toPc'[i].key
    <3>1. \A i, k \in DOMAIN toPc' : i < k => i + 1 < k + 1
      <4>1. DOMAIN toPc' \subseteq Nat
        BY <1>1, SeqTypes
      <4> QED
        BY <4>1
    <3> QED
      BY <2>2, <3>1 DEF AheadInv, OrderInv
  <2>5. PcNotAhead'
    BY <1>1, <2>1, SeqTypes DEF PcNotAhead
  <2> QED
    BY <1>1, <2>3, <2>4, <2>5 DEF AheadInv, OrderInv
<1> QED
  BY <1>3, <1>4

\* The PC counts a message as seen: one under the phone's present key, if the PC has
\* that key.
LEMMA ReadNotAhead ==
  ASSUME TypeOK, DeliveryInv, AheadInv, HandleWsEncrypted
  PROVE  AheadInv'
<1> DEFINE m == Head(toPc)
<1>1. /\ toPc # << >> /\ toPc' = Tail(toPc) /\ m.type \in {"input", "handshake_ack"}
      /\ UNCHANGED <<ble, sendKey, sendSeq, pcRecvKey>> /\ HandleEncrypted(m)
  BY DEF HandleWsEncrypted, PcReads, phoneVars, HandleEncrypted
<1>2. m = toPc[1] /\ 1 \in DOMAIN toPc
  BY <1>1, SeqTypes
<1>3. OrderInv'
  BY <1>1, FromTail, OrderKeeps, QueueMessages DEF AheadInv
<1>4. PcNotAhead'
  <2>1. CASE m.key # 0 /\ highestSeen' = m.seq
    <3>1. Numbered(m) /\ m.key >= pcRecvKey /\ m.key \in Nat /\ m.seq \in Nat
      BY <1>1, <1>2, <2>1, SeqTypes DEF Numbered, AheadInv, OrderInv
    <3>2. <<m.key, m.seq>> \in sent
      BY <1>1, <1>2, <2>1 DEF DeliveryInv, WireInv, Id
    <3>3. m.key \in 1 .. phoneKeys /\ (m.key = sendKey => m.seq < sendSeq)
      BY <3>2 DEF DeliveryInv, SentInv
    <3> QED
      BY <1>1, <2>1, <3>1, <3>3, SeqTypes DEF PcNotAhead
  <2>2. CASE highestSeen' = highestSeen
    BY <1>1, <2>2 DEF AheadInv, PcNotAhead
  <2> QED
    BY <1>1, <2>1, <2>2 DEF HandleEncrypted
<1> QED
  BY <1>1, <1>3, <1>4 DEF AheadInv

LEMMA AheadStep ==
  ASSUME TypeOK, DeliveryInv, AheadInv, ~bleReady, [Next]_vars
  PROVE  AheadInv'
<1>0. toPc \in Seq(ToPc) /\ toPc \in Seq(Messages) /\ From(toPc, toPc) /\ ble = {}
  BY FromSame, QueueMessages DEF TypeOK, WireType, AheadInv
<1>1. ASSUME From(toPc', toPc), ble' \subseteq ble,
             UNCHANGED <<sendKey, sendSeq>> \/ sendKey' = 0,
             UNCHANGED <<pcRecvKey, highestSeen>> \/ pcRecvKey' = 0
      PROVE  AheadInv'
  BY <1>1, QuietNotAhead
<1>2. CASE ConnectWs
  BY <1>0, <1>1, <1>2 DEF ConnectWs, PhoneForgets, pcVars, ratchetVars, wireVars
<1>3. CASE JoinSession
  <2>1. From(toPc', toPc)
    BY <1>0, <1>3, FromAppend DEF JoinSession
  <2> QED
    BY <1>1, <1>3, <2>1 DEF JoinSession, pcVars, ratchetVars
<1>4. CASE PhoneDrops
  <2>1. From(toPc', toPc)
    BY <1>0, <1>4, FromParts, FromNone, FromAppend DEF PhoneDrops
  <2> QED
    BY <1>1, <1>4, <2>1 DEF PhoneDrops, pcVars, ratchetVars
<1>5. ASSUME PcOffline PROVE From(toPc', toPc)
  BY <1>0, <1>5, FromParts, FromNone DEF PcOffline
<1>6. CASE PcDrops
  BY <1>1, <1>5, <1>6 DEF PcDrops, PcOffline, phoneVars, ratchetVars
<1>7. CASE PcRestarts
  <2>1. From(toPc', toPc)
    BY <1>5, <1>7 DEF PcRestarts
  <2> QED
    BY <1>1, <1>7, <2>1 DEF PcRestarts, PcForgets, PcOffline, phoneVars
<1>8. CASE PcRejoins
  <2>1. From(toPc', toPc)
    BY <1>0, <1>8, FromBefore DEF PcRejoins
  <2> QED
    BY <1>1, <1>8, <2>1 DEF PcRejoins, phoneVars, ratchetVars
<1>9. CASE RelayRefuses
  <2>1. From(toPc', toPc)
    BY <1>0, <1>9, FromTail DEF RelayRefuses
  <2> QED
    BY <1>1, <1>9, <2>1 DEF RelayRefuses, phoneVars, pcVars, ratchetVars
<1>10. CASE BleVerified \/ BleDisconnects
  BY <1>0, <1>1, <1>10 DEF BleVerified, BleDisconnects, pcVars, ratchetVars, wireVars
<1>11. ASSUME NEW types, PhoneReads(types) PROVE UNCHANGED <<pcRecvKey, highestSeen>>
  BY <1>11 DEF PhoneReads, pcVars, ratchetVars
<1>12. CASE OnPeerJoined
  <2>1. UNCHANGED <<pcRecvKey, highestSeen, ble>> /\ InitRatchet(<<KeyExchange>>)
    BY <1>11, <1>12 DEF OnPeerJoined
  <2> QED
    BY <2>1, SeedNotAhead
<1>13. CASE OnKeyExchange
  <2>1. UNCHANGED <<pcRecvKey, highestSeen, ble>>
    BY <1>11, <1>13 DEF OnKeyExchange
  <2>2. CASE started
    BY <1>0, <1>1, <1>13, <2>1, <2>2 DEF OnKeyExchange
  <2>3. CASE ~started
    <3>1. InitRatchet(<< >>)
      BY <1>13, <2>3 DEF OnKeyExchange
    <3> QED
      BY <2>1, <3>1, SeedNotAhead
  <2> QED
    BY <2>2, <2>3
<1>14. CASE OnPcRatchetInit
  <2>1. UNCHANGED <<pcRecvKey, highestSeen, sendKey>>
    BY <1>11, <1>14 DEF OnPcRatchetInit
  <2> QED
    BY <1>14, <2>1, SendNotAhead DEF OnPcRatchetInit
<1>15. CASE OnPeerLeft
  <2>1. UNCHANGED <<pcRecvKey, highestSeen>>
    BY <1>11, <1>15 DEF OnPeerLeft
  <2> QED
    BY <1>0, <1>1, <1>15, <2>1 DEF OnPeerLeft
<1>16. CASE Send
  BY <1>16, SendNotAhead DEF Send, pcVars, ratchetVars
<1>17. ASSUME NEW types, PcReads(types)
       PROVE  From(toPc', toPc) /\ UNCHANGED <<sendKey, sendSeq, ble>>
  BY <1>0, <1>17, FromTail DEF PcReads, phoneVars
<1>18. CASE OnPeerStatus
  <2>1. From(toPc', toPc) /\ UNCHANGED <<sendKey, sendSeq, ble>>
    BY <1>17, <1>18 DEF OnPeerStatus
  <2> QED
    BY <1>1, <1>18, <2>1 DEF OnPeerStatus, ratchetVars
<1>19. CASE HandleKeyExchange
  <2>1. From(toPc', toPc) /\ UNCHANGED <<sendKey, sendSeq, ble>>
    BY <1>17, <1>19 DEF HandleKeyExchange
  <2> QED
    BY <1>1, <1>19, <2>1 DEF HandleKeyExchange, PcForgets
<1>20. CASE \E m \in ble : HandleBleEncrypted(m)
  BY <1>0, <1>20
<1>21. CASE UNCHANGED vars
  BY <1>0, <1>1, <1>21 DEF vars, phoneVars, pcVars, ratchetVars, wireVars
<1> QED
  BY <1>2, <1>3, <1>4, <1>6, <1>7, <1>8, <1>9, <1>10, <1>12, <1>13, <1>14, <1>15, <1>16,
     <1>18, <1>19, <1>20, <1>21, TakeSeedNotAhead, ReadNotAhead
     DEF Next, PhoneHandles, PcHandles

\* Over the relay the PC (DecryptRatcheted of CryptoService.cs) never counts a number as
\* seen that the phone has yet to use: it takes no message for a replay that is none.
THEOREM NeverAhead == Spec => PcNeverAhead
<1>1. Init => AheadInv
  BY DEF Init, AheadInv, OrderInv, PcNotAhead
<1>2. AheadInv => PcNotAhead
  BY DEF AheadInv
<1> QED
  BY <1>1, <1>2, AheadStep, DeliveryInvariant, PTL DEF Spec, PcNeverAhead, RelayOnly

-----------------------------------------------------------------------------
(* Both sides agree on the keys *)

Has(q, type) == \E i \in DOMAIN q : q[i].type = type

\* The PC's seeds reach the phone in the order in which the PC generated them.
AnswerOrder ==
    /\ recvKey <= pcKeys
    /\ \A i \in DOMAIN toPhone : toPhone[i].type = "pc_ratchet_init" =>
          recvKey < toPhone[i].key /\ toPhone[i].key <= pcKeys
    /\ \A i, j \in DOMAIN toPhone :
          i < j /\ toPhone[i].type = "pc_ratchet_init" /\ toPhone[j].type = "pc_ratchet_init" =>
              toPhone[i].key < toPhone[j].key

\* Behind a public key on its way comes a seed that the other side has yet to get.
ExchangeInv ==
    /\ \A i \in DOMAIN toPc : toPc[i].type = "key_exchange" =>
          /\ pcRecvKey < phoneKeys
          /\ \A j \in DOMAIN toPc :
                j < i /\ toPc[j].type = "ratchet_init" => toPc[j].key < phoneKeys
    /\ \A i \in DOMAIN toPhone : toPhone[i].type = "key_exchange" /\ pcSendKey # 0 =>
          /\ recvKey < pcSendKey
          /\ \A j \in DOMAIN toPhone :
                j < i /\ toPhone[j].type = "pc_ratchet_init" => toPhone[j].key < pcSendKey

\* The PC has both ratchets or none, and none without the phone's public key.
PcInv ==
    /\ pcRecvKey # 0 => isReady /\ pcSendKey # 0
    /\ confirmed => pcRecvKey # 0

\* The phone confirms under a ratchet, and over the relay.
AckInv ==
    /\ \A i \in DOMAIN toPc : toPc[i].type = "handshake_ack" => toPc[i].key # 0
    /\ \A m \in ble : m.type = "input"

\* A phone without a ratchet will be told that the PC is there before it reads the
\* seed of the PC.
NoticeInv ==
    /\ ws # "open" /\ ~online => toPhone = << >>
    /\ ws = "open" /\ sendKey = 0 =>
          /\ online => Has(toPhone, "peer_joined")
          /\ \A i \in DOMAIN toPhone : toPhone[i].type = "pc_ratchet_init" =>
                \E j \in DOMAIN toPhone : j < i /\ toPhone[j].type = "peer_joined"

\* While the BLE channel lasts there is no other handshake, and the keys of the two
\* stay the same unless the PC restarts.
BleInv ==
    bleReady =>
        /\ sendKey # 0
        /\ ~Has(toPc, "key_exchange") /\ ~Has(toPc, "ratchet_init")
        /\ ~Has(toPhone, "key_exchange") /\ ~Has(toPhone, "pc_ratchet_init")
        /\ pcRecvKey # 0 => sendKey = pcRecvKey /\ recvKey = pcSendKey

\* The phone has read that the PC is there.
Linked == ws = "open" /\ online /\ ~Has(toPhone, "peer_joined")

Seeded(k) == \E i \in DOMAIN toPc : toPc[i].type = "ratchet_init" /\ toPc[i].key = k
Answered(k) ==
    \E i \in DOMAIN toPhone : toPhone[i].type = "pc_ratchet_init" /\ toPhone[i].key = k

\* The PC has the phone's key or will get it, and the phone the PC's, unless the PC
\* is about to forget its own.
SeedAgrees ==
    Linked =>
        /\ Has(toPc, "ratchet_init") => Seeded(sendKey)
        /\ pcRecvKey # 0 /\ ~Has(toPc, "key_exchange") =>
              sendKey = pcRecvKey \/ Seeded(sendKey)
AnswerAgrees ==
    Linked /\ pcRecvKey # 0 /\ ~Has(toPc, "key_exchange") =>
        recvKey = pcSendKey \/ Answered(pcSendKey)

\* The inductive invariant behind ConfirmedMeansAgreed
AgreeInv ==
    /\ AnswerOrder /\ ExchangeInv /\ PcInv /\ AckInv /\ NoticeInv /\ BleInv
    /\ SeedAgrees /\ AnswerAgrees

LEMMA KeyTypes ==
  ASSUME TypeOK
  PROVE  /\ phoneKeys \in Nat /\ pcKeys \in Nat /\ sendKey \in {0, phoneKeys}
         /\ pcRecvKey \in 0 .. phoneKeys /\ pcSendKey \in {0, pcKeys} /\ recvKey \in Nat
         /\ \A i \in DOMAIN toPc : toPc[i].type = "ratchet_init" => toPc[i].key \in Nat \ {0}
         /\ \A i \in DOMAIN toPhone : toPhone[i].type = "pc_ratchet_init" =>
               toPhone[i].key \in Nat \ {0}
<1>1. /\ phoneKeys \in Nat /\ pcKeys \in Nat /\ sendKey \in {0, phoneKeys}
      /\ pcRecvKey \in 0 .. phoneKeys /\ pcSendKey \in {0, pcKeys} /\ recvKey \in Nat
  BY DEF TypeOK, RatchetType
<1>2. \A m \in ToPc : m.type = "ratchet_init" => m.key \in Nat \ {0}
  BY DEF Ratcheted, ToPc
<1>3. \A m \in ToPhone : m.type = "pc_ratchet_init" => m.key \in Nat \ {0}
  BY DEF ToPhone
<1> QED
  BY <1>1, <1>2, <1>3 DEF TypeOK, WireType

\* A queue without its first message, and one with another behind it
LEMMA QueueTail ==
  ASSUME NEW q \in Seq(Messages), q # << >>
  PROVE  /\ 1 \in DOMAIN q /\ Head(q) = q[1]
         /\ DOMAIN q \subseteq Nat \ {0} /\ DOMAIN Tail(q) \subseteq Nat \ {0}
         /\ \A i \in DOMAIN Tail(q) : i + 1 \in DOMAIN q /\ Tail(q)[i] = q[i + 1]
         /\ \A i \in DOMAIN q : i # 1 => i - 1 \in DOMAIN Tail(q) /\ Tail(q)[i - 1] = q[i]
OBVIOUS

LEMMA QueueAppend ==
  ASSUME NEW q \in Seq(Messages), NEW m \in Messages
  PROVE  /\ DOMAIN Append(q, m) = 1 .. Len(q) + 1 /\ DOMAIN q = 1 .. Len(q) /\ Len(q) \in Nat
         /\ \A i \in DOMAIN q : Append(q, m)[i] = q[i]
         /\ Append(q, m)[Len(q) + 1] = m
OBVIOUS

\* What is behind a part of the queue is not lost when the first message is none of it.
LEMMA HasTail ==
  ASSUME NEW q \in Seq(Messages), q # << >>, NEW type, Head(q).type # type
  PROVE  Has(Tail(q), type) <=> Has(q, type)
<1>1. ASSUME NEW i \in DOMAIN Tail(q), Tail(q)[i].type = type PROVE Has(q, type)
  BY <1>1, QueueTail DEF Has
<1>2. ASSUME NEW i \in DOMAIN q, q[i].type = type PROVE Has(Tail(q), type)
  <2>1. i # 1
    BY <1>2, QueueTail
  <2>2. i - 1 \in DOMAIN Tail(q) /\ Tail(q)[i - 1] = q[i]
    BY <2>1, QueueTail
  <2> QED
    BY <1>2, <2>2 DEF Has
<1> QED
  BY <1>1, <1>2 DEF Has

LEMMA HasAppend ==
  ASSUME NEW q \in Seq(Messages), NEW m \in Messages, NEW type, m.type # type
  PROVE  Has(Append(q, m), type) <=> Has(q, type)
<1>1. \A i \in DOMAIN Append(q, m) : i \in DOMAIN q \/ i = Len(q) + 1
  BY QueueAppend
<1>2. \A i \in DOMAIN q : i \in DOMAIN Append(q, m) /\ Append(q, m)[i] = q[i]
  BY QueueAppend
<1>3. Append(q, m)[Len(q) + 1] = m
  BY QueueAppend
<1> QED
  BY <1>1, <1>2, <1>3 DEF Has

LEMMA HasFrom ==
  ASSUME NEW p, NEW q, From(q, p), NEW type, type \notin Notices, Has(q, type)
  PROVE  Has(p, type)
BY DEF Has, From

\* The seed of a new handshake goes to the end of the queue.
LEMMA InitRatchetQueue ==
  ASSUME TypeOK, NEW first \in {<<KeyExchange>>, << >>}, InitRatchet(first)
  PROVE  /\ phoneKeys' = phoneKeys + 1 /\ sendKey' = phoneKeys'
         /\ DOMAIN toPc = 1 .. Len(toPc) /\ Len(toPc) \in Nat
         /\ \A i \in DOMAIN toPc : i \in DOMAIN toPc' /\ toPc'[i] = toPc[i]
         /\ \A i \in DOMAIN toPc' :
               \/ i \in DOMAIN toPc
               \/ i \in Nat /\ i > Len(toPc) /\ toPc'[i] = KeyExchange
               \/ i = Len(toPc') /\ toPc'[i] = RatchetInit(phoneKeys')
         /\ DOMAIN toPc' = 1 .. Len(toPc') /\ Len(toPc') \in Nat /\ Len(toPc') > Len(toPc)
         /\ toPc'[Len(toPc')] = RatchetInit(phoneKeys')
         /\ first = <<KeyExchange>> => Has(toPc', "key_exchange")
         /\ first = << >> /\ Has(toPc', "key_exchange") => Has(toPc, "key_exchange")
<1> DEFINE r == <<RatchetInit(phoneKeys')>>
<1>1. toPc \in Seq(ToPc) /\ phoneKeys' = phoneKeys + 1 /\ sendKey' = phoneKeys'
  BY DEF TypeOK, WireType, InitRatchet
<1>2. CASE first = << >>
  <2>1. toPc' = toPc \o r
    BY <1>1, <1>2 DEF InitRatchet
  <2>2. /\ Len(toPc') = Len(toPc) + 1 /\ Len(toPc) \in Nat
        /\ DOMAIN toPc = 1 .. Len(toPc) /\ DOMAIN toPc' = 1 .. Len(toPc')
        /\ \A i \in DOMAIN toPc : toPc'[i] = toPc[i]
        /\ toPc'[Len(toPc) + 1] = RatchetInit(phoneKeys')
    BY <1>1, <2>1
  <2>3. first # <<KeyExchange>>
    BY <1>2
  <2>4. Has(toPc', "key_exchange") => Has(toPc, "key_exchange")
    BY <2>2 DEF Has, RatchetInit
  <2> QED
    BY <1>1, <2>2, <2>3, <2>4
<1>3. CASE first = <<KeyExchange>>
  <2>1. toPc' = (toPc \o <<KeyExchange>>) \o r
    BY <1>3 DEF InitRatchet
  <2>2. /\ Len(toPc') = Len(toPc) + 2 /\ Len(toPc) \in Nat
        /\ DOMAIN toPc = 1 .. Len(toPc) /\ DOMAIN toPc' = 1 .. Len(toPc')
        /\ \A i \in DOMAIN toPc : toPc'[i] = toPc[i]
        /\ toPc'[Len(toPc) + 1] = KeyExchange
        /\ toPc'[Len(toPc) + 2] = RatchetInit(phoneKeys')
    BY <1>1, <2>1
  <2>3. Has(toPc', "key_exchange")
    <3>1. Len(toPc) + 1 \in DOMAIN toPc'
      BY <2>2
    <3> QED
      BY <2>2, <3>1 DEF Has, KeyExchange
  <2>4. first # << >>
    BY <1>3
  <2>5. \A i \in DOMAIN toPc' : i \in DOMAIN toPc \/ i = Len(toPc) + 1 \/ i = Len(toPc) + 2
    BY <2>2
  <2> QED
    BY <1>1, <2>2, <2>3, <2>4, <2>5
<1> QED
  BY <1>2, <1>3

\* A message of the phone under its ratchet
Encrypted(type) == [type |-> type, key |-> sendKey, seq |-> sendSeq]

LEMMA SendEncryptedQueue ==
  ASSUME TypeOK, NEW type \in {"input", "handshake_ack"}, SendEncrypted(type)
  PROVE  /\ toPc' = (IF ws = "open" THEN Append(toPc, Encrypted(type)) ELSE toPc)
         /\ ble' = (IF ws # "open" /\ bleReady THEN ble \cup {Encrypted(type)} ELSE ble)
         /\ Encrypted(type) \in Messages /\ Encrypted(type).type = type
         /\ Encrypted(type).key = sendKey
BY DEF SendEncrypted, Encrypted, TypeOK, RatchetType, Messages, ToPc, Ratcheted

\* What HandleRatchetInit adds to the queue to the phone
LEMMA AnswerQueue ==
  ASSUME TypeOK, HandleRatchetInit, isReady
  PROVE  /\ toPc \in Seq(Messages) /\ toPc # << >> /\ toPc' = Tail(toPc)
         /\ toPc[1].type = "ratchet_init" /\ pcRecvKey' = toPc[1].key
         /\ pcKeys' = pcKeys + 1 /\ pcSendKey' = pcKeys + 1
         /\ PcRatchetInit(pcKeys + 1) \in Messages
         /\ toPhone' = IF ws = "open" THEN Append(toPhone, PcRatchetInit(pcKeys + 1))
                       ELSE toPhone
<1>1. toPc \in Seq(Messages) /\ toPc # << >> /\ Head(toPc) = toPc[1]
  BY QueueMessages, QueueTail DEF HandleRatchetInit, PcReads
<1>2. PcRatchetInit(pcKeys + 1) \in Messages
  BY KeyTypes, MessageTypes DEF Messages
<1> QED
  BY <1>1, <1>2 DEF HandleRatchetInit, PcReads, PcSends

\* A step that begins no part of a handshake: nothing but notices is new in the queues,
\* and keys are kept or forgotten.
Settled ==
    /\ From(toPc', toPc) /\ From(toPhone', toPhone) /\ ble' \subseteq ble
    /\ UNCHANGED <<phoneKeys, pcKeys>>
    /\ recvKey' \in {0, recvKey} /\ pcRecvKey' \in {0, pcRecvKey}
    /\ pcSendKey' \in {0, pcSendKey}

\* The phone begins a handshake.
Begins ==
    /\ \E first \in {<<KeyExchange>>, << >>} : InitRatchet(first)
    /\ From(toPhone', toPhone)
    /\ recvKey' \in {0, recvKey} /\ UNCHANGED <<pcRecvKey, pcSendKey, pcKeys, ble>>

\* Connections that come and go add nothing but notices.
LEMMA ConnectionQueues ==
  ASSUME TypeOK,
         JoinSession \/ PhoneDrops \/ PcDrops \/ PcRestarts \/ PcRejoins \/ RelayRefuses
  PROVE  From(toPc', toPc) /\ From(toPhone', toPhone)
<1>0. /\ toPc \in Seq(Messages) /\ From(toPc, toPc)
      /\ toPhone \in Seq(Messages) /\ From(toPhone, toPhone)
  BY FromSame, QueueMessages
<1>1. /\ \A q \in Suffixes(toPc) : From(q, toPc)
      /\ \A q \in Prefixes(toPc) : From(q, toPc)
      /\ \A q \in Suffixes(toPhone) : From(q, toPhone)
      /\ \A q \in Prefixes(toPhone) : From(q, toPhone)
  BY <1>0, FromParts
<1>2. From(<< >>, toPc) /\ From(<< >>, toPhone)
  BY FromNone
<1>3. CASE JoinSession
  <2>1. From(toPc', toPc)
    BY <1>0, <1>3, FromAppend DEF JoinSession
  <2>2. ASSUME NEW rest \in Suffixes(toPhone), toPhone' = <<PeerJoined>> \o rest
        PROVE  From(toPhone', toPhone)
    <3>1. From(rest, toPhone)
      BY <1>1
    <3> QED
      BY <2>2, <3>1, FromNoticeBefore
  <2> QED
    BY <1>0, <1>3, <2>1, <2>2 DEF JoinSession
<1>4. CASE PhoneDrops
  BY <1>1, <1>2, <1>4, FromAppend DEF PhoneDrops
<1>5. CASE PcDrops \/ PcRestarts
  <2>1. PcOffline
    BY <1>5 DEF PcDrops, PcRestarts
  <2> QED
    BY <1>1, <1>2, <2>1, FromAppend DEF PcOffline
<1>6. CASE PcRejoins
  BY <1>0, <1>6, FromBefore, FromAppend DEF PcRejoins
<1>7. CASE RelayRefuses
  BY <1>0, <1>7, FromTail, FromAppend DEF RelayRefuses
<1> QED
  BY <1>3, <1>4, <1>5, <1>6, <1>7

LEMMA StepKinds ==
  ASSUME TypeOK, [Next]_vars
  PROVE  Settled \/ Begins \/ OnPcRatchetInit \/ Send \/ HandleKeyExchange \/ HandleRatchetInit
<1>0. /\ toPc \in Seq(Messages) /\ From(toPc, toPc)
      /\ toPhone \in Seq(Messages) /\ From(toPhone, toPhone)
  BY FromSame, QueueMessages
<1>3. CASE ConnectWs
  BY <1>0, <1>3 DEF ConnectWs, PhoneForgets, pcVars, ratchetVars, wireVars, Settled
<1>4. CASE JoinSession \/ PhoneDrops
  BY <1>4, ConnectionQueues DEF JoinSession, PhoneDrops, pcVars, ratchetVars, Settled
<1>5. CASE PcDrops
  BY <1>5, ConnectionQueues DEF PcDrops, PcOffline, phoneVars, ratchetVars, Settled
<1>6. CASE PcRestarts
  BY <1>6, ConnectionQueues DEF PcRestarts, PcForgets, PcOffline, phoneVars, Settled
<1>7. CASE PcRejoins \/ RelayRefuses
  BY <1>7, ConnectionQueues DEF PcRejoins, RelayRefuses, phoneVars, pcVars, ratchetVars,
     Settled
<1>11. CASE BleVerified \/ BleDisconnects
  BY <1>0, <1>11 DEF BleVerified, BleDisconnects, pcVars, ratchetVars, wireVars, Settled
<1>12. ASSUME NEW types, PhoneReads(types)
       PROVE  From(toPhone', toPhone) /\ UNCHANGED <<pcRecvKey, pcSendKey, pcKeys>>
  BY <1>0, <1>12, FromTail DEF PhoneReads, pcVars, ratchetVars
<1>13. CASE OnPeerJoined
  <2>1. From(toPhone', toPhone) /\ UNCHANGED <<pcRecvKey, pcSendKey, pcKeys>>
    BY <1>12, <1>13 DEF OnPeerJoined
  <2> QED
    BY <1>0, <1>13, <2>1 DEF OnPeerJoined, Settled, Begins
<1>14. CASE OnKeyExchange
  <2>1. From(toPhone', toPhone) /\ UNCHANGED <<pcRecvKey, pcSendKey, pcKeys>>
    BY <1>12, <1>14 DEF OnKeyExchange
  <2> QED
    BY <1>0, <1>14, <2>1 DEF OnKeyExchange, Settled, Begins
<1>15. CASE OnPeerLeft
  <2>1. From(toPhone', toPhone) /\ UNCHANGED <<pcRecvKey, pcSendKey, pcKeys>>
    BY <1>12, <1>15 DEF OnPeerLeft
  <2> QED
    BY <1>0, <1>15, <2>1 DEF OnPeerLeft, Settled
<1>16. ASSUME NEW types, PcReads(types)
       PROVE  From(toPc', toPc) /\ UNCHANGED <<recvKey, phoneKeys, ble>>
  BY <1>0, <1>16, FromTail DEF PcReads, phoneVars
<1>17. CASE OnPeerStatus
  <2>1. From(toPc', toPc) /\ UNCHANGED <<recvKey, phoneKeys, ble>>
    BY <1>16, <1>17 DEF OnPeerStatus
  <2> QED
    BY <1>0, <1>17, <2>1 DEF OnPeerStatus, ratchetVars, Settled
<1>18. CASE HandleWsEncrypted
  <2>1. From(toPc', toPc) /\ UNCHANGED <<recvKey, phoneKeys, ble>>
    BY <1>16, <1>18 DEF HandleWsEncrypted
  <2> QED
    BY <1>0, <1>18, <2>1 DEF HandleWsEncrypted, HandleEncrypted, Settled
<1>19. ASSUME NEW m \in ble, HandleBleEncrypted(m) PROVE Settled
  BY <1>0, <1>19 DEF HandleBleEncrypted, HandleEncrypted, phoneVars, pcVars, ratchetVars,
     Settled
<1>20. CASE UNCHANGED vars
  BY <1>0, <1>20 DEF vars, phoneVars, pcVars, ratchetVars, wireVars, Settled
<1> QED
  BY <1>3, <1>4, <1>5, <1>6, <1>7, <1>11, <1>13, <1>14, <1>15, <1>17, <1>18,
     <1>19, <1>20 DEF Next, PhoneHandles, PcHandles

LEMMA AnswerOrderNext ==
  ASSUME TypeOK, AgreeInv, [Next]_vars
  PROVE  AnswerOrder'
<1>0. /\ AnswerOrder /\ toPhone \in Seq(Messages)
      /\ recvKey \in Nat /\ pcKeys \in Nat
  BY KeyTypes, QueueMessages DEF AgreeInv
<1>1. ASSUME From(toPhone', toPhone), UNCHANGED pcKeys, recvKey' \in {0, recvKey}
      PROVE  AnswerOrder'
  <2>1. recvKey' <= pcKeys'
    BY <1>0, <1>1 DEF AnswerOrder
  <2>2. \A i \in DOMAIN toPhone' : toPhone'[i].type = "pc_ratchet_init" =>
           recvKey' < toPhone'[i].key /\ toPhone'[i].key <= pcKeys'
    BY <1>0, <1>1, KeyTypes DEF AnswerOrder, From, Notices
  <2>3. \A i, j \in DOMAIN toPhone' :
           i < j /\ toPhone'[i].type = "pc_ratchet_init"
              /\ toPhone'[j].type = "pc_ratchet_init" => toPhone'[i].key < toPhone'[j].key
    BY <1>0, <1>1 DEF AnswerOrder, From, Notices
  <2> QED
    BY <2>1, <2>2, <2>3 DEF AnswerOrder
<1>2. CASE OnPcRatchetInit
  <2>1. /\ toPhone # << >> /\ toPhone' = Tail(toPhone) /\ UNCHANGED pcKeys
        /\ Head(toPhone).type = "pc_ratchet_init" /\ recvKey' = Head(toPhone).key
    BY <1>2 DEF OnPcRatchetInit, PhoneReads, pcVars
  <2>2. 1 \in DOMAIN toPhone /\ Head(toPhone) = toPhone[1]
    BY <1>0, <2>1, QueueTail
  <2>3. \A i \in DOMAIN toPhone' : i \in Nat \ {0} /\ i + 1 \in DOMAIN toPhone
                                    /\ toPhone'[i] = toPhone[i + 1]
    BY <1>0, <2>1, QueueTail
  <2>4. \A i \in DOMAIN toPhone' : toPhone'[i].type = "pc_ratchet_init" =>
           recvKey' < toPhone'[i].key /\ toPhone'[i].key <= pcKeys'
    BY <1>0, <2>1, <2>2, <2>3 DEF AnswerOrder
  <2>5. \A i, j \in DOMAIN toPhone' :
           i < j /\ toPhone'[i].type = "pc_ratchet_init"
              /\ toPhone'[j].type = "pc_ratchet_init" => toPhone'[i].key < toPhone'[j].key
    <3>1. \A i, j \in DOMAIN toPhone' : i < j => i + 1 < j + 1
      BY <2>3
    <3> QED
      BY <1>0, <2>3, <3>1 DEF AnswerOrder
  <2> QED
    BY <1>0, <2>1, <2>2, <2>4, <2>5 DEF AnswerOrder
<1>3. CASE HandleRatchetInit /\ isReady
  <2> DEFINE m == PcRatchetInit(pcKeys + 1)
  <2>1. /\ pcKeys' = pcKeys + 1 /\ m \in Messages /\ UNCHANGED recvKey
        /\ toPhone' \in {toPhone, Append(toPhone, m)}
    BY <1>3, AnswerQueue DEF HandleRatchetInit, PcReads, phoneVars
  <2>2. CASE toPhone' = toPhone
    BY <1>0, <2>1, <2>2, KeyTypes DEF AnswerOrder
  <2>3. CASE toPhone' = Append(toPhone, m)
    <3>1. m.type = "pc_ratchet_init" /\ m.key = pcKeys + 1
      BY DEF PcRatchetInit
    <3> HIDE DEF m
    <3>2. \A i \in DOMAIN toPhone' : \/ i \in DOMAIN toPhone /\ toPhone'[i] = toPhone[i]
                                     \/ i = Len(toPhone) + 1 /\ toPhone'[i] = m
      BY <1>0, <2>1, <2>3, QueueAppend
    <3>3. DOMAIN toPhone = 1 .. Len(toPhone) /\ Len(toPhone) \in Nat
      BY <1>0
    <3>4. \A i \in DOMAIN toPhone' : toPhone'[i].type = "pc_ratchet_init" =>
             recvKey' < toPhone'[i].key /\ toPhone'[i].key <= pcKeys'
      BY <1>0, <2>1, <3>1, <3>2, KeyTypes DEF AnswerOrder
    <3>5. ASSUME NEW i \in DOMAIN toPhone', NEW j \in DOMAIN toPhone', i < j,
                 toPhone'[i].type = "pc_ratchet_init", toPhone'[j].type = "pc_ratchet_init"
          PROVE  toPhone'[i].key < toPhone'[j].key
      <4>1. i \in DOMAIN toPhone /\ toPhone'[i] = toPhone[i]
        BY <3>2, <3>3, <3>5
      <4> QED
        BY <1>0, <3>1, <3>2, <3>5, <4>1, KeyTypes DEF AnswerOrder
    <3> QED
      BY <1>0, <2>1, <3>4, <3>5 DEF AnswerOrder
  <2> QED
    BY <2>1, <2>2, <2>3
<1>4. CASE HandleRatchetInit /\ ~isReady
  BY <1>0, <1>1, <1>4, FromSame DEF HandleRatchetInit, PcReads, phoneVars
<1>5. CASE HandleKeyExchange
  <2>1. UNCHANGED <<recvKey, pcKeys>> /\ toPhone' \in {toPhone, Append(toPhone, KeyExchange)}
    BY <1>5 DEF HandleKeyExchange, PcReads, PcSends, phoneVars
  <2>2. KeyExchange \in Messages
    BY MessageTypes DEF Messages
  <2>3. \A i \in DOMAIN toPhone' : \/ i \in DOMAIN toPhone /\ toPhone'[i] = toPhone[i]
                                 \/ toPhone'[i] = KeyExchange
    BY <1>0, <2>1, <2>2, QueueAppend
  <2> QED
    BY <1>0, <2>1, <2>3 DEF AnswerOrder, KeyExchange
<1>6. CASE Settled \/ Begins
  BY <1>1, <1>6 DEF Settled, Begins
<1>7. CASE Send
  BY <1>0, <1>1, <1>7, FromSame DEF Send, pcVars
<1> QED
  BY <1>2, <1>3, <1>4, <1>5, <1>6, <1>7, StepKinds

\* The first conjunct of ExchangeInv, for the queue to the PC, and the second
SeedBehind ==
    \A i \in DOMAIN toPc : toPc[i].type = "key_exchange" =>
        /\ pcRecvKey < phoneKeys
        /\ \A j \in DOMAIN toPc :
              j < i /\ toPc[j].type = "ratchet_init" => toPc[j].key < phoneKeys
AnswerBehind ==
    \A i \in DOMAIN toPhone : toPhone[i].type = "key_exchange" /\ pcSendKey # 0 =>
        /\ recvKey < pcSendKey
        /\ \A j \in DOMAIN toPhone :
              j < i /\ toPhone[j].type = "pc_ratchet_init" => toPhone[j].key < pcSendKey

LEMMA SeedBehindNext ==
  ASSUME TypeOK, DeliveryInv, AgreeInv, [Next]_vars
  PROVE  SeedBehind'
<1>0. SeedBehind /\ toPc \in Seq(Messages)
  BY QueueMessages DEF AgreeInv, ExchangeInv, SeedBehind
<1>1. ASSUME From(toPc', toPc), UNCHANGED phoneKeys, pcRecvKey' \in {0, pcRecvKey}
      PROVE  SeedBehind'
  <2>1. ASSUME NEW i \in DOMAIN toPc', toPc'[i].type = "key_exchange"
        PROVE  pcRecvKey' < phoneKeys'
    BY <1>0, <1>1, <2>1, KeyTypes DEF SeedBehind, From, Notices
  <2>2. ASSUME NEW i \in DOMAIN toPc', toPc'[i].type = "key_exchange",
               NEW j \in DOMAIN toPc', j < i, toPc'[j].type = "ratchet_init"
        PROVE  toPc'[j].key < phoneKeys'
    BY <1>0, <1>1, <2>2 DEF SeedBehind, From, Notices
  <2> QED
    BY <2>1, <2>2 DEF SeedBehind
<1>2. ASSUME NEW first \in {<<KeyExchange>>, << >>}, InitRatchet(first), UNCHANGED pcRecvKey
      PROVE  SeedBehind'
  <2>1. pcRecvKey' < phoneKeys'
    BY <1>2, InitRatchetQueue, KeyTypes
  <2>2. ASSUME NEW i \in DOMAIN toPc', toPc'[i].type = "key_exchange",
               NEW j \in DOMAIN toPc', j < i, toPc'[j].type = "ratchet_init"
        PROVE  toPc'[j].key < phoneKeys'
    <3>1. j # Len(toPc')
      BY <1>2, <2>2, InitRatchetQueue
    <3>2. j \in DOMAIN toPc /\ toPc'[j] = toPc[j]
      BY <1>2, <2>2, <3>1, InitRatchetQueue DEF KeyExchange
    <3>3. toPc[j].key \in 1 .. phoneKeys
      BY <2>2, <3>2 DEF DeliveryInv, SeedInv
    <3> QED
      BY <1>2, <3>2, <3>3, InitRatchetQueue, KeyTypes
  <2> QED
    BY <2>1, <2>2 DEF SeedBehind
<1>3. ASSUME NEW type \in {"input", "handshake_ack"}, SendEncrypted(type),
             UNCHANGED <<phoneKeys, pcRecvKey>>
      PROVE  SeedBehind'
  <2> DEFINE m == Encrypted(type)
  <2>1. m \in Messages /\ m.type = type /\ toPc' \in {toPc, Append(toPc, m)}
    BY <1>3, SendEncryptedQueue
  <2>2. \A i \in DOMAIN toPc' : (i \in DOMAIN toPc /\ toPc'[i] = toPc[i]) \/ toPc'[i] = m
    BY <1>0, <2>1, QueueAppend
  <2> HIDE DEF m
  <2> QED
    BY <1>0, <1>3, <2>1, <2>2 DEF SeedBehind
<1>4. CASE HandleRatchetInit /\ isReady
  <2>1. /\ toPc # << >> /\ toPc' = Tail(toPc) /\ UNCHANGED phoneKeys
        /\ toPc[1].type = "ratchet_init" /\ pcRecvKey' = toPc[1].key
    BY <1>4, AnswerQueue DEF HandleRatchetInit, PcReads, phoneVars
  <2>2. /\ 1 \in DOMAIN toPc
        /\ \A i \in DOMAIN toPc' : i \in Nat \ {0} /\ i + 1 \in DOMAIN toPc
                                    /\ toPc'[i] = toPc[i + 1]
    BY <1>0, <2>1, QueueTail
  <2>3. \A i, j \in DOMAIN toPc' : 1 < i + 1 /\ (j < i => j + 1 < i + 1)
    BY <2>2
  <2> QED
    BY <1>0, <2>1, <2>2, <2>3 DEF SeedBehind
<1>5. CASE (HandleRatchetInit /\ ~isReady) \/ HandleKeyExchange
  <2>1. From(toPc', toPc)
    BY <1>0, <1>5, FromTail DEF HandleRatchetInit, HandleKeyExchange, PcReads
  <2> QED
    BY <1>1, <1>5, <2>1 DEF HandleRatchetInit, HandleKeyExchange, PcForgets, PcReads, phoneVars
<1>6. CASE Settled
  BY <1>1, <1>6 DEF Settled
<1>7. CASE Begins
  BY <1>2, <1>7 DEF Begins
<1>8. CASE Send \/ OnPcRatchetInit
  BY <1>3, <1>8 DEF Send, OnPcRatchetInit, PhoneReads, pcVars, ratchetVars
<1> QED
  BY <1>4, <1>5, <1>6, <1>7, <1>8, StepKinds

LEMMA AnswerBehindNext ==
  ASSUME TypeOK, AgreeInv, [Next]_vars
  PROVE  AnswerBehind'
<1>0. /\ AnswerBehind /\ AnswerOrder /\ toPhone \in Seq(Messages)
  BY QueueMessages DEF AgreeInv, ExchangeInv, AnswerBehind
<1>1. ASSUME From(toPhone', toPhone), pcSendKey' \in {0, pcSendKey}, recvKey' \in {0, recvKey}
      PROVE  AnswerBehind'
  <2>1. ASSUME NEW i \in DOMAIN toPhone', toPhone'[i].type = "key_exchange", pcSendKey' # 0
        PROVE  recvKey' < pcSendKey'
    BY <1>0, <1>1, <2>1, KeyTypes DEF AnswerBehind, From, Notices
  <2>2. ASSUME NEW i \in DOMAIN toPhone', toPhone'[i].type = "key_exchange", pcSendKey' # 0,
               NEW j \in DOMAIN toPhone', j < i, toPhone'[j].type = "pc_ratchet_init"
        PROVE  toPhone'[j].key < pcSendKey'
    BY <1>0, <1>1, <2>2 DEF AnswerBehind, From, Notices
  <2> QED
    BY <2>1, <2>2 DEF AnswerBehind
<1>2. CASE OnPcRatchetInit
  <2>1. /\ toPhone # << >> /\ toPhone' = Tail(toPhone) /\ UNCHANGED pcSendKey
        /\ Head(toPhone).type = "pc_ratchet_init" /\ recvKey' = Head(toPhone).key
    BY <1>2 DEF OnPcRatchetInit, PhoneReads, pcVars, ratchetVars
  <2>2. /\ 1 \in DOMAIN toPhone /\ Head(toPhone) = toPhone[1]
        /\ \A i \in DOMAIN toPhone' : i \in Nat \ {0} /\ i + 1 \in DOMAIN toPhone
                                       /\ toPhone'[i] = toPhone[i + 1]
    BY <1>0, <2>1, QueueTail
  <2>3. \A i, j \in DOMAIN toPhone' : 1 < i + 1 /\ (j < i => j + 1 < i + 1)
    BY <2>2
  <2> QED
    BY <1>0, <2>1, <2>2, <2>3 DEF AnswerBehind
<1>3. CASE HandleRatchetInit /\ isReady
  <2> DEFINE m == PcRatchetInit(pcKeys + 1)
  <2>1. /\ pcSendKey' = pcKeys + 1 /\ m \in Messages /\ UNCHANGED recvKey
        /\ toPhone' \in {toPhone, Append(toPhone, m)}
    BY <1>3, AnswerQueue DEF HandleRatchetInit, PcReads, phoneVars
  <2>2. m.type = "pc_ratchet_init"
    BY DEF PcRatchetInit
  <2> HIDE DEF m
  <2>3. \A i \in DOMAIN toPhone' : \/ i \in DOMAIN toPhone /\ toPhone'[i] = toPhone[i]
                                   \/ i = Len(toPhone) + 1 /\ toPhone'[i] = m
    BY <1>0, <2>1, QueueAppend
  <2>4. DOMAIN toPhone = 1 .. Len(toPhone) /\ Len(toPhone) \in Nat
    BY <1>0
  <2>5. recvKey' < pcSendKey'
    BY <1>0, <2>1, KeyTypes DEF AnswerOrder
  <2>6. ASSUME NEW i \in DOMAIN toPhone', toPhone'[i].type = "key_exchange",
               NEW j \in DOMAIN toPhone', j < i, toPhone'[j].type = "pc_ratchet_init"
        PROVE  toPhone'[j].key < pcSendKey'
    <3>1. j \in DOMAIN toPhone /\ toPhone'[j] = toPhone[j]
      BY <2>2, <2>3, <2>4, <2>6
    <3> QED
      BY <1>0, <2>1, <2>6, <3>1, KeyTypes DEF AnswerOrder
  <2> QED
    BY <2>5, <2>6 DEF AnswerBehind
<1>4. CASE HandleRatchetInit /\ ~isReady
  BY <1>0, <1>1, <1>4, FromSame DEF HandleRatchetInit, PcReads, phoneVars
<1>5. CASE HandleKeyExchange
  BY <1>5 DEF HandleKeyExchange, PcForgets, AnswerBehind
<1>6. CASE Settled \/ Begins
  BY <1>1, <1>6 DEF Settled, Begins
<1>7. CASE Send
  BY <1>0, <1>1, <1>7, FromSame DEF Send, pcVars, ratchetVars
<1> QED
  BY <1>2, <1>3, <1>4, <1>5, <1>6, <1>7, StepKinds

LEMMA ExchangeNext ==
  ASSUME TypeOK, DeliveryInv, AgreeInv, [Next]_vars
  PROVE  ExchangeInv'
BY SeedBehindNext, AnswerBehindNext DEF ExchangeInv, SeedBehind, AnswerBehind

\* Only an acknowledgement under the PC's key confirms the session.
LEMMA ConfirmStep ==
  ASSUME TypeOK, PcInv, NEW m, m.type = "handshake_ack" => m.key # 0, HandleEncrypted(m)
  PROVE  PcInv'
BY DEF HandleEncrypted, Opens, PcInv

LEMMA PcNext ==
  ASSUME TypeOK, AgreeInv, [Next]_vars
  PROVE  PcInv'
<1>0. PcInv /\ toPc \in Seq(Messages)
  BY QueueMessages DEF AgreeInv
<1>1. CASE HandleRatchetInit /\ isReady
  <2>1. pcRecvKey' = toPc[1].key /\ pcSendKey' = pcKeys + 1 /\ UNCHANGED isReady
    BY <1>1, AnswerQueue DEF HandleRatchetInit
  <2>2. pcRecvKey' # 0
    BY <1>0, <1>1, <2>1, AnswerQueue, QueueTail, KeyTypes
  <2> QED
    BY <1>1, <2>1, <2>2, KeyTypes DEF PcInv
<1>2. CASE HandleRatchetInit /\ ~isReady
  BY <1>0, <1>2 DEF HandleRatchetInit, PcInv
<1>3. CASE HandleKeyExchange \/ PcRestarts
  BY <1>3 DEF HandleKeyExchange, PcRestarts, PcForgets, PcInv
<1>4. CASE OnPeerStatus
  BY <1>0, <1>4 DEF OnPeerStatus, ratchetVars, PcInv
<1>5. CASE HandleWsEncrypted
  <2>1. Head(toPc).type = "handshake_ack" => Head(toPc).key # 0
    BY <1>0, <1>5, QueueTail DEF HandleWsEncrypted, PcReads, AgreeInv, AckInv
  <2> QED
    BY <1>0, <1>5, <2>1, ConfirmStep DEF HandleWsEncrypted
<1>6. ASSUME NEW m \in ble, HandleBleEncrypted(m) PROVE PcInv'
  <2>1. m.type = "handshake_ack" => m.key # 0
    BY DEF AgreeInv, AckInv
  <2>2. CASE HandleEncrypted(m)
    BY <1>0, <2>1, <2>2, ConfirmStep
  <2>3. CASE UNCHANGED <<pcVars, histVars>>
    BY <1>0, <2>3 DEF pcVars, ratchetVars, PcInv
  <2> QED
    BY <1>6, <2>2, <2>3 DEF HandleBleEncrypted
<1>7. CASE ConnectWs \/ JoinSession \/ PhoneDrops \/ BleVerified \/ BleDisconnects
  BY <1>0, <1>7 DEF ConnectWs, JoinSession, PhoneDrops, BleVerified, BleDisconnects,
     pcVars, ratchetVars, PcInv
<1>8. CASE PcDrops \/ PcRejoins \/ RelayRefuses
  BY <1>0, <1>8 DEF PcDrops, PcRejoins, RelayRefuses, pcVars, ratchetVars, PcInv
<1>9. CASE PhoneHandles \/ Send
  BY <1>0, <1>9 DEF PhoneHandles, OnPeerJoined, OnKeyExchange, OnPcRatchetInit, OnPeerLeft,
     PhoneReads, Send, pcVars, ratchetVars, PcInv
<1>10. CASE UNCHANGED vars
  BY <1>0, <1>10 DEF vars, pcVars, ratchetVars, PcInv
<1> QED
  BY <1>1, <1>2, <1>3, <1>4, <1>5, <1>6, <1>7, <1>8, <1>9, <1>10 DEF Next, PcHandles

LEMMA AckNext ==
  ASSUME TypeOK, AgreeInv, [Next]_vars
  PROVE  AckInv'
<1>0. AckInv /\ toPc \in Seq(Messages) /\ toPhone \in Seq(Messages)
  BY QueueMessages DEF AgreeInv
<1>1. ASSUME From(toPc', toPc), ble' \subseteq ble
      PROVE  AckInv'
  BY <1>0, <1>1 DEF AckInv, From, Notices
<1>2. ASSUME NEW type \in {"input", "handshake_ack"}, SendEncrypted(type),
             type = "handshake_ack" => ws = "open" /\ sendKey # 0
      PROVE  AckInv'
  <2> DEFINE m == Encrypted(type)
  <2>1. /\ m \in Messages /\ m.type = type /\ m.key = sendKey
        /\ toPc' \in {toPc, Append(toPc, m)}
        /\ ble' = ble \/ (ble' = ble \cup {m} /\ ws # "open")
    BY <1>2, SendEncryptedQueue
  <2>2. \A i \in DOMAIN toPc' : (i \in DOMAIN toPc /\ toPc'[i] = toPc[i]) \/ toPc'[i] = m
    BY <1>0, <2>1, QueueAppend
  <2> HIDE DEF m
  <2> QED
    BY <1>0, <1>2, <2>1, <2>2 DEF AckInv
<1>3. CASE OnPcRatchetInit
  <2>1. /\ ws = "open" /\ toPhone # << >> /\ Head(toPhone).type = "pc_ratchet_init"
        /\ SendEncrypted("handshake_ack")
    BY <1>3 DEF OnPcRatchetInit, PhoneReads
  <2>2. /\ 1 \in DOMAIN toPhone /\ Head(toPhone) = toPhone[1]
        /\ DOMAIN toPhone \subseteq Nat \ {0}
    BY <1>0, <2>1, QueueTail
  <2>3. sendKey # 0
    BY <2>1, <2>2 DEF AgreeInv, NoticeInv
  <2> QED
    BY <1>2, <2>1, <2>3
<1>4. CASE Send
  BY <1>2, <1>4 DEF Send
<1>5. ASSUME NEW first \in {<<KeyExchange>>, << >>}, InitRatchet(first), UNCHANGED ble
      PROVE  AckInv'
  BY <1>0, <1>5, InitRatchetQueue DEF AckInv, KeyExchange, RatchetInit
<1>6. CASE Begins
  BY <1>5, <1>6 DEF Begins
<1>7. CASE HandleRatchetInit \/ HandleKeyExchange
  BY <1>0, <1>1, <1>7, FromTail DEF HandleRatchetInit, HandleKeyExchange, PcReads
<1>8. CASE Settled
  BY <1>1, <1>8 DEF Settled
<1> QED
  BY <1>3, <1>4, <1>6, <1>7, <1>8, StepKinds

\* A phone that reads a message other than peer_joined is told of the PC as before.
LEMMA NoticeKept ==
  ASSUME TypeOK, NoticeInv, toPhone # << >>, toPhone' = Tail(toPhone),
         Head(toPhone).type # "peer_joined", UNCHANGED <<ws, online>>,
         sendKey' = 0 => sendKey = 0
  PROVE  NoticeInv'
<1>0. /\ toPhone \in Seq(Messages) /\ 1 \in DOMAIN toPhone /\ Head(toPhone) = toPhone[1]
      /\ DOMAIN toPhone \subseteq Nat \ {0}
      /\ \A i \in DOMAIN toPhone' : i \in Nat \ {0} /\ i + 1 \in DOMAIN toPhone
                                     /\ toPhone'[i] = toPhone[i + 1]
      /\ \A i \in DOMAIN toPhone : i # 1 =>
            i - 1 \in DOMAIN toPhone' /\ toPhone'[i - 1] = toPhone[i]
  BY QueueMessages, QueueTail
<1>1. ws' # "open" /\ ~online' => toPhone' = << >>
  BY DEF NoticeInv
<1>2. ASSUME ws' = "open", sendKey' = 0
      PROVE  online' => Has(toPhone', "peer_joined")
  BY <1>0, <1>2, HasTail DEF NoticeInv
<1>3. ASSUME ws' = "open", sendKey' = 0,
             NEW i \in DOMAIN toPhone', toPhone'[i].type = "pc_ratchet_init"
      PROVE  \E j \in DOMAIN toPhone' : j < i /\ toPhone'[j].type = "peer_joined"
  <2>1. PICK j \in DOMAIN toPhone : j < i + 1 /\ toPhone[j].type = "peer_joined"
    BY <1>0, <1>3 DEF NoticeInv
  <2>2. j # 1 /\ j \in Nat /\ i \in Nat
    BY <1>0, <2>1
  <2>3. j - 1 \in DOMAIN toPhone' /\ toPhone'[j - 1] = toPhone[j] /\ j - 1 < i
    BY <1>0, <2>1, <2>2
  <2> QED
    BY <2>1, <2>3
<1> QED
  BY <1>1, <1>2, <1>3 DEF NoticeInv

\* A message of the relay or of the PC for the phone comes last.
LEMMA NoticeAppended ==
  ASSUME TypeOK, NoticeInv, NEW m \in Messages,
         toPhone' = (IF ws = "open" THEN Append(toPhone, m) ELSE toPhone),
         UNCHANGED <<ws, sendKey>>,
         online' => online \/ m.type = "peer_joined" \/ ws # "open",
         ~online' => ~online,
         m.type = "pc_ratchet_init" => online
  PROVE  NoticeInv'
<1>1. CASE ws # "open"
  BY <1>1 DEF NoticeInv
<1>2. CASE ws = "open"
  <2>1. /\ DOMAIN toPhone' = 1 .. Len(toPhone) + 1 /\ DOMAIN toPhone = 1 .. Len(toPhone)
        /\ Len(toPhone) \in Nat
        /\ \A i \in DOMAIN toPhone : toPhone'[i] = toPhone[i]
        /\ toPhone'[Len(toPhone) + 1] = m
    BY <1>2, QueueMessages, QueueAppend
  <2>2. ASSUME sendKey' = 0, online' PROVE Has(toPhone', "peer_joined")
    <3>1. CASE m.type = "peer_joined"
      <4>1. Len(toPhone) + 1 \in DOMAIN toPhone'
        BY <2>1
      <4> QED
        BY <2>1, <3>1, <4>1 DEF Has
    <3>2. CASE online
      <4>1. PICK i \in DOMAIN toPhone : toPhone[i].type = "peer_joined"
        BY <1>2, <2>2, <3>2 DEF NoticeInv, Has
      <4>2. i \in DOMAIN toPhone'
        BY <2>1, <4>1
      <4> QED
        BY <2>1, <4>1, <4>2 DEF Has
    <3> QED
      BY <1>2, <2>2, <3>1, <3>2
  <2>3. ASSUME sendKey' = 0,
               NEW i \in DOMAIN toPhone', toPhone'[i].type = "pc_ratchet_init"
        PROVE  \E j \in DOMAIN toPhone' : j < i /\ toPhone'[j].type = "peer_joined"
    <3>1. CASE i \in DOMAIN toPhone
      <4>1. PICK j \in DOMAIN toPhone : j < i /\ toPhone[j].type = "peer_joined"
        BY <1>2, <2>1, <2>3, <3>1 DEF NoticeInv
      <4>2. j \in DOMAIN toPhone' /\ toPhone'[j] = toPhone[j]
        BY <2>1, <4>1
      <4> QED
        BY <4>1, <4>2
    <3>2. CASE i = Len(toPhone) + 1
      <4>1. online
        BY <2>1, <2>3, <3>2
      <4>2. PICK j \in DOMAIN toPhone : toPhone[j].type = "peer_joined"
        BY <1>2, <2>3, <4>1 DEF NoticeInv, Has
      <4>3. j \in DOMAIN toPhone' /\ toPhone'[j] = toPhone[j] /\ j < i
        BY <2>1, <3>2, <4>2
      <4> QED
        BY <4>2, <4>3
    <3> QED
      BY <2>1, <3>1, <3>2
  <2> QED
    BY <1>2, <2>2, <2>3 DEF NoticeInv
<1> QED
  BY <1>1, <1>2

LEMMA NoticeSame ==
  ASSUME NoticeInv, UNCHANGED <<ws, online, toPhone>>, sendKey' = 0 => sendKey = 0
  PROVE  NoticeInv'
BY DEF NoticeInv

\* The PC goes: what the phone still gets is the older part of its queue.
LEMMA NoticeOffline ==
  ASSUME TypeOK, NoticeInv, PcOffline
  PROVE  NoticeInv'
<1>0. UNCHANGED <<ws, sendKey>> /\ ~online'
  BY DEF PcOffline, phoneVars
<1>1. CASE ws # "open"
  BY <1>0, <1>1 DEF PcOffline, NoticeInv
<1>2. CASE ws = "open"
  <2>1. PICK rest \in Prefixes(toPhone) : toPhone' = Append(rest, PeerLeft)
    BY <1>2 DEF PcOffline
  <2>2. toPhone \in Seq(Messages) /\ rest \in Seq(Messages)
    BY QueueMessages, FromParts DEF From
  <2>3. /\ DOMAIN rest \subseteq DOMAIN toPhone
        /\ \A i \in DOMAIN rest : rest[i] = toPhone[i]
        /\ DOMAIN rest = 1 .. Len(rest) /\ Len(rest) \in Nat
    <3>1. CASE rest = << >>
      BY <2>2, <3>1
    <3>2. ASSUME NEW l \in 1 .. Len(toPhone), rest = SubSeq(toPhone, 1, l)
          PROVE  /\ DOMAIN rest \subseteq DOMAIN toPhone
                 /\ \A i \in DOMAIN rest : rest[i] = toPhone[i]
      BY <2>2, <3>2
    <3> QED
      BY <2>2, <3>1, <3>2 DEF Prefixes
  <2>4. PeerLeft \in Messages /\ PeerLeft.type = "peer_left"
    BY NoticeType DEF PeerLeft
  <2>5. /\ DOMAIN toPhone' = 1 .. Len(rest) + 1
        /\ \A i \in DOMAIN rest : toPhone'[i] = rest[i]
        /\ toPhone'[Len(rest) + 1] = PeerLeft
    BY <2>1, <2>2, <2>4, QueueAppend
  <2>6. ASSUME sendKey' = 0,
               NEW i \in DOMAIN toPhone', toPhone'[i].type = "pc_ratchet_init"
        PROVE  \E j \in DOMAIN toPhone' : j < i /\ toPhone'[j].type = "peer_joined"
    <3>1. i \in DOMAIN rest
      BY <2>3, <2>4, <2>5, <2>6
    <3>2. PICK j \in DOMAIN toPhone : j < i /\ toPhone[j].type = "peer_joined"
      BY <1>0, <1>2, <2>3, <2>5, <2>6, <3>1 DEF NoticeInv
    <3>3. j \in DOMAIN rest
      <4>1. j \in 1 .. Len(toPhone)
        BY <2>2, <3>2
      <4> QED
        BY <2>3, <3>1, <3>2, <4>1
    <3>4. j \in DOMAIN toPhone' /\ toPhone'[j] = toPhone[j]
      BY <2>3, <2>5, <3>3
    <3> QED
      BY <3>2, <3>4
  <2> QED
    BY <1>0, <1>2, <2>6 DEF NoticeInv
<1> QED
  BY <1>1, <1>2

\* The phone joins: it hears of the PC first, or nothing was on its way.
LEMMA NoticeJoin ==
  ASSUME TypeOK, NoticeInv, JoinSession
  PROVE  NoticeInv'
<1>0. ws = "connecting" /\ ws' = "open" /\ UNCHANGED online
  BY DEF JoinSession, pcVars
<1>1. CASE ~online
  <2>1. toPhone' = << >>
    BY <1>0, <1>1 DEF JoinSession, NoticeInv
  <2> QED
    BY <1>0, <1>1, <2>1 DEF NoticeInv
<1>2. CASE online
  <2>1. PICK rest \in Suffixes(toPhone) : toPhone' = <<PeerJoined>> \o rest
    BY <1>2 DEF JoinSession
  <2>2. rest \in Seq(Messages)
    BY QueueMessages, FromParts DEF From
  <2>3. DOMAIN toPhone' = 1 .. Len(rest) + 1 /\ Len(rest) \in Nat /\ toPhone'[1] = PeerJoined
    BY <2>1, <2>2
  <2>4. 1 \in DOMAIN toPhone' /\ toPhone'[1].type = "peer_joined"
    BY <2>3 DEF PeerJoined
  <2>5. \A i \in DOMAIN toPhone' : toPhone'[i].type = "pc_ratchet_init" => 1 < i
    BY <2>3 DEF PeerJoined
  <2> QED
    BY <1>0, <1>2, <2>4, <2>5 DEF NoticeInv, Has
<1> QED
  BY <1>1, <1>2

LEMMA NoticeNext ==
  ASSUME TypeOK, AgreeInv, [Next]_vars
  PROVE  NoticeInv'
<1>0. NoticeInv
  BY DEF AgreeInv
<1>1. CASE ConnectWs
  <2>1. ws # "open" /\ ws' # "open" /\ UNCHANGED <<online, toPhone>>
    BY <1>1 DEF ConnectWs, pcVars, wireVars
  <2> QED
    BY <1>0, <2>1 DEF NoticeInv
<1>2. CASE PhoneDrops
  BY <1>2 DEF PhoneDrops, pcVars, NoticeInv
<1>3. CASE JoinSession
  BY <1>0, <1>3, NoticeJoin
<1>4. CASE PcDrops \/ PcRestarts
  BY <1>0, <1>4, NoticeOffline DEF PcDrops, PcRestarts
<1>5. CASE PcRejoins
  <2>1. /\ toPhone' = IF ws = "open" THEN Append(toPhone, PeerJoined) ELSE toPhone
        /\ UNCHANGED <<ws, sendKey>> /\ online' = TRUE
    BY <1>5 DEF PcRejoins, phoneVars
  <2>2. PeerJoined \in Messages /\ PeerJoined.type = "peer_joined"
    BY NoticeType DEF PeerJoined
  <2> QED
    BY <1>0, <2>1, <2>2, NoticeAppended
<1>6. CASE RelayRefuses
  <2>1. /\ toPhone' = IF ws = "open" THEN Append(toPhone, NoPeer) ELSE toPhone
        /\ UNCHANGED <<ws, sendKey, online>>
    BY <1>6 DEF RelayRefuses, phoneVars, pcVars
  <2>2. NoPeer \in Messages /\ NoPeer.type = "error"
    BY NoticeType DEF NoPeer
  <2> QED
    BY <1>0, <2>1, <2>2, NoticeAppended
<1>7. CASE HandleKeyExchange
  <2>1. /\ toPhone' = IF ws = "open" THEN Append(toPhone, KeyExchange) ELSE toPhone
        /\ UNCHANGED <<ws, sendKey, online>>
    BY <1>7 DEF HandleKeyExchange, PcReads, PcSends, phoneVars
  <2>2. KeyExchange \in Messages /\ KeyExchange.type = "key_exchange"
    BY MessageTypes DEF KeyExchange, Messages
  <2> QED
    BY <1>0, <2>1, <2>2, NoticeAppended
<1>8. CASE HandleRatchetInit /\ isReady
  <2>1. /\ toPhone' = IF ws = "open" THEN Append(toPhone, PcRatchetInit(pcKeys + 1))
                      ELSE toPhone
        /\ UNCHANGED <<ws, sendKey, online>> /\ online /\ PcRatchetInit(pcKeys + 1) \in Messages
    BY <1>8, AnswerQueue DEF HandleRatchetInit, PcReads, phoneVars
  <2> QED
    BY <1>0, <2>1, NoticeAppended
<1>9. CASE (HandleRatchetInit /\ ~isReady) \/ OnPeerStatus \/ HandleWsEncrypted
  BY <1>0, <1>9, NoticeSame DEF HandleRatchetInit, OnPeerStatus, HandleWsEncrypted,
     HandleEncrypted, PcReads, phoneVars
<1>10. CASE \E m \in ble : HandleBleEncrypted(m)
  BY <1>0, <1>10, NoticeSame DEF HandleBleEncrypted, HandleEncrypted, phoneVars, pcVars
<1>11. CASE BleVerified \/ BleDisconnects
  BY <1>0, <1>11, NoticeSame DEF BleVerified, BleDisconnects, pcVars, wireVars
<1>12. CASE Send
  BY <1>0, <1>12, NoticeSame DEF Send, pcVars
<1>13. CASE UNCHANGED vars
  BY <1>0, <1>13, NoticeSame DEF vars, phoneVars, pcVars, wireVars
<1>14. CASE OnPeerJoined
  <2>1. ws' = "open"
    BY <1>14 DEF OnPeerJoined, PhoneReads
  <2>2. sendKey' # 0
    <3>1. CASE bleReady
      BY <1>14, <3>1 DEF OnPeerJoined, AgreeInv, BleInv
    <3>2. CASE ~bleReady
      BY <1>14, <3>2, KeyTypes DEF OnPeerJoined, InitRatchet
    <3> QED
      BY <3>1, <3>2
  <2> QED
    BY <2>1, <2>2 DEF NoticeInv
<1>15. CASE OnKeyExchange \/ OnPcRatchetInit \/ OnPeerLeft
  <2>1. /\ toPhone # << >> /\ toPhone' = Tail(toPhone) /\ Head(toPhone).type # "peer_joined"
        /\ UNCHANGED <<ws, online>>
    BY <1>15 DEF OnKeyExchange, OnPcRatchetInit, OnPeerLeft, PhoneReads, pcVars
  <2>2. sendKey' = 0 => sendKey = 0
    BY <1>15, KeyTypes DEF OnKeyExchange, OnPcRatchetInit, OnPeerLeft, InitRatchet
  <2> QED
    BY <1>0, <2>1, <2>2, NoticeKept
<1> QED
  BY <1>1, <1>2, <1>3, <1>4, <1>5, <1>6, <1>7, <1>8, <1>9, <1>10, <1>11, <1>12, <1>13,
     <1>14, <1>15 DEF Next, PhoneHandles, PcHandles

\* Nothing of a handshake is added to the queues, and the channel is no newer.
LEMMA BleKept ==
  ASSUME BleInv, From(toPc', toPc), From(toPhone', toPhone), bleReady' => bleReady,
         UNCHANGED <<sendKey, recvKey>>,
         UNCHANGED <<pcRecvKey, pcSendKey>> \/ pcRecvKey' = 0
  PROVE  BleInv'
<1>1. /\ Has(toPc', "key_exchange") => Has(toPc, "key_exchange")
      /\ Has(toPc', "ratchet_init") => Has(toPc, "ratchet_init")
      /\ Has(toPhone', "key_exchange") => Has(toPhone, "key_exchange")
      /\ Has(toPhone', "pc_ratchet_init") => Has(toPhone, "pc_ratchet_init")
  BY HasFrom DEF Notices
<1> QED
  BY <1>1 DEF BleInv

\* The user's messages are none of a handshake.
LEMMA BleSends ==
  ASSUME TypeOK, BleInv, NEW type \in {"input", "handshake_ack"}, SendEncrypted(type),
         UNCHANGED <<bleReady, sendKey, recvKey, toPhone, pcRecvKey, pcSendKey>>
  PROVE  BleInv'
<1>1. /\ Encrypted(type) \in Messages /\ Encrypted(type).type = type
      /\ toPc' \in {toPc, Append(toPc, Encrypted(type))}
  BY SendEncryptedQueue
<1>2. /\ Has(toPc', "key_exchange") => Has(toPc, "key_exchange")
      /\ Has(toPc', "ratchet_init") => Has(toPc, "ratchet_init")
  BY <1>1, QueueMessages, HasAppend
<1> QED
  BY <1>2 DEF BleInv

\* When both have the keys of the other, each the newest, no handshake is under way.
LEMMA BleStarts ==
  ASSUME TypeOK, DeliveryInv, AgreeInv, BleVerified
  PROVE  BleInv'
<1>1. /\ confirmed /\ recvKey = pcSendKey /\ sendKey = pcRecvKey
      /\ UNCHANGED <<sendKey, recvKey, pcRecvKey, pcSendKey, toPc, toPhone>>
  BY DEF BleVerified, pcVars, ratchetVars, wireVars
<1>2. pcRecvKey = phoneKeys /\ pcSendKey = pcKeys /\ sendKey # 0
  BY <1>1, KeyTypes DEF AgreeInv, PcInv
<1>3. ~Has(toPc, "ratchet_init")
  <2>1. \A i \in DOMAIN toPc : toPc[i].type = "ratchet_init" =>
           toPc[i].key > pcRecvKey /\ toPc[i].key \in 1 .. phoneKeys
    BY DEF DeliveryInv, SeedInv
  <2> QED
    BY <1>2, <2>1, KeyTypes DEF Has
<1>4. ~Has(toPc, "key_exchange")
  BY <1>2, KeyTypes DEF Has, AgreeInv, ExchangeInv
<1>5. ~Has(toPhone, "pc_ratchet_init")
  <2>1. \A i \in DOMAIN toPhone : toPhone[i].type = "pc_ratchet_init" =>
           recvKey < toPhone[i].key /\ toPhone[i].key <= pcKeys
    BY DEF AgreeInv, AnswerOrder
  <2> QED
    BY <1>1, <1>2, <2>1, KeyTypes DEF Has
<1>6. ~Has(toPhone, "key_exchange")
  <2>1. pcSendKey # 0 /\ ~(recvKey < pcSendKey)
    BY <1>1, KeyTypes DEF AgreeInv, PcInv
  <2> QED
    BY <2>1 DEF Has, AgreeInv, ExchangeInv
<1> QED
  BY <1>1, <1>2, <1>3, <1>4, <1>5, <1>6 DEF BleInv

LEMMA BleNext ==
  ASSUME TypeOK, DeliveryInv, AgreeInv, [Next]_vars
  PROVE  BleInv'
<1>0. /\ BleInv /\ toPc \in Seq(Messages) /\ toPhone \in Seq(Messages)
      /\ From(toPc, toPc) /\ From(toPhone, toPhone)
  BY QueueMessages, FromSame DEF AgreeInv
<1>2. CASE ~bleReady /\ UNCHANGED bleReady
  BY <1>2 DEF BleInv
<1>3. CASE BleVerified
  BY <1>3, BleStarts
<1>4. ASSUME bleReady, NEW types, PhoneReads(types), types = {"key_exchange"}
                                                    \/ types = {"pc_ratchet_init"}
      PROVE  FALSE
  <2>1. toPhone # << >> /\ Head(toPhone).type \in types
    BY <1>4 DEF PhoneReads
  <2>2. 1 \in DOMAIN toPhone /\ toPhone[1].type \in {"key_exchange", "pc_ratchet_init"}
    BY <1>0, <1>4, <2>1, QueueTail
  <2> QED
    BY <1>0, <1>4, <2>2 DEF BleInv, Has
<1>5. ASSUME bleReady, NEW types, PcReads(types), types = {"key_exchange"}
                                                 \/ types = {"ratchet_init"}
      PROVE  FALSE
  <2>1. toPc # << >> /\ Head(toPc).type \in types
    BY <1>5 DEF PcReads
  <2>2. 1 \in DOMAIN toPc /\ toPc[1].type \in {"key_exchange", "ratchet_init"}
    BY <1>0, <1>5, <2>1, QueueTail
  <2> QED
    BY <1>0, <1>5, <2>2 DEF BleInv, Has
<1>6. ASSUME From(toPc', toPc), From(toPhone', toPhone), bleReady' => bleReady,
             UNCHANGED <<sendKey, recvKey>>,
             UNCHANGED <<pcRecvKey, pcSendKey>> \/ pcRecvKey' = 0
      PROVE  BleInv'
  BY <1>0, <1>6, BleKept
<1>8. CASE ConnectWs
  <2>1. CASE bleReady
    BY <1>0, <1>6, <1>8, <2>1 DEF ConnectWs, pcVars, ratchetVars, wireVars
  <2>2. CASE ~bleReady
    BY <1>2, <1>8, <2>2 DEF ConnectWs
  <2> QED
    BY <2>1, <2>2
<1>9. CASE JoinSession \/ PhoneDrops
  <2>1. UNCHANGED <<bleReady, sendKey, recvKey, pcRecvKey, pcSendKey, phoneKeys>>
    BY <1>9 DEF JoinSession, PhoneDrops, pcVars, ratchetVars
  <2>2. From(toPc', toPc) /\ From(toPhone', toPhone)
    BY <1>9, ConnectionQueues
  <2> QED
    BY <1>6, <2>1, <2>2
<1>10. CASE PcDrops \/ PcRestarts
  <2>1. From(toPc', toPc) /\ From(toPhone', toPhone)
    BY <1>10, ConnectionQueues
  <2> QED
    BY <1>6, <1>10, <2>1 DEF PcDrops, PcRestarts, PcForgets, PcOffline, phoneVars, ratchetVars
<1>11. CASE PcRejoins \/ RelayRefuses
  <2>1. From(toPc', toPc) /\ From(toPhone', toPhone)
    BY <1>11, ConnectionQueues
  <2> QED
    BY <1>6, <1>11, <2>1 DEF PcRejoins, RelayRefuses, phoneVars, pcVars, ratchetVars
<1>12. CASE BleDisconnects
  BY <1>12 DEF BleDisconnects, BleInv
<1>13. ASSUME NEW types, PhoneReads(types)
       PROVE  From(toPhone', toPhone) /\ UNCHANGED <<bleReady, pcRecvKey, pcSendKey>>
  BY <1>0, <1>13, FromTail DEF PhoneReads, pcVars, ratchetVars
<1>14. CASE OnPeerJoined
  <2>1. From(toPhone', toPhone) /\ UNCHANGED <<bleReady, pcRecvKey, pcSendKey>>
    BY <1>13, <1>14 DEF OnPeerJoined
  <2>2. CASE bleReady
    BY <1>0, <1>6, <1>14, <2>1, <2>2 DEF OnPeerJoined
  <2> QED
    BY <1>2, <2>1, <2>2
<1>15. CASE OnKeyExchange \/ OnPcRatchetInit
  <2>1. UNCHANGED bleReady
    BY <1>13, <1>15 DEF OnKeyExchange, OnPcRatchetInit
  <2>2. ~bleReady
    BY <1>4, <1>15 DEF OnKeyExchange, OnPcRatchetInit
  <2> QED
    BY <1>2, <2>1, <2>2
<1>16. CASE OnPeerLeft
  <2>1. From(toPhone', toPhone) /\ UNCHANGED <<bleReady, pcRecvKey, pcSendKey>>
    BY <1>13, <1>16 DEF OnPeerLeft
  <2> QED
    BY <1>0, <1>6, <1>16, <2>1 DEF OnPeerLeft
<1>17. CASE Send
  BY <1>0, <1>17, BleSends DEF Send, pcVars, ratchetVars
<1>18. ASSUME NEW types, PcReads(types)
       PROVE  From(toPc', toPc) /\ UNCHANGED <<bleReady, sendKey, recvKey>>
  BY <1>0, <1>18, FromTail DEF PcReads, phoneVars
<1>19. CASE OnPeerStatus \/ HandleWsEncrypted
  <2>1. From(toPc', toPc) /\ UNCHANGED <<bleReady, sendKey, recvKey>>
    BY <1>18, <1>19 DEF OnPeerStatus, HandleWsEncrypted
  <2>2. UNCHANGED <<pcRecvKey, pcSendKey, toPhone>>
    BY <1>19 DEF OnPeerStatus, HandleWsEncrypted, HandleEncrypted, ratchetVars
  <2> QED
    BY <1>0, <1>6, <2>1, <2>2
<1>20. CASE HandleKeyExchange \/ HandleRatchetInit
  <2>1. UNCHANGED bleReady
    BY <1>18, <1>20 DEF HandleKeyExchange, HandleRatchetInit
  <2>2. ~bleReady
    BY <1>5, <1>20 DEF HandleKeyExchange, HandleRatchetInit
  <2> QED
    BY <1>2, <2>1, <2>2
<1>21. CASE \E m \in ble : HandleBleEncrypted(m)
  BY <1>0, <1>6, <1>21 DEF HandleBleEncrypted, HandleEncrypted, phoneVars, pcVars,
     ratchetVars
<1>22. CASE UNCHANGED vars
  BY <1>0, <1>6, <1>22 DEF vars, phoneVars, pcVars, ratchetVars, wireVars
<1> QED
  BY <1>3, <1>8, <1>9, <1>10, <1>11, <1>12, <1>14, <1>15, <1>16, <1>17, <1>19, <1>20,
     <1>21, <1>22 DEF Next, PhoneHandles, PcHandles

\* The connection comes or goes: the phone is yet to be told, or is gone.
LEMMA NotLinked ==
  ASSUME TypeOK, ConnectWs \/ JoinSession \/ PhoneDrops \/ PcDrops \/ PcRestarts
                 \/ PcRejoins \/ RelayRefuses
  PROVE  ~Linked'
<1>1. CASE ConnectWs
  BY <1>1 DEF ConnectWs, Linked
<1>2. CASE JoinSession
  <2>1. CASE ~online
    BY <1>2, <2>1 DEF JoinSession, pcVars, Linked
  <2>2. CASE online
    <3>1. PICK rest \in Suffixes(toPhone) : toPhone' = <<PeerJoined>> \o rest
      BY <1>2, <2>2 DEF JoinSession
    <3>2. rest \in Seq(Messages)
      BY QueueMessages, FromParts DEF From
    <3>3. 1 \in DOMAIN toPhone' /\ toPhone'[1] = PeerJoined
      BY <3>1, <3>2
    <3> QED
      BY <3>3 DEF Linked, Has, PeerJoined
  <2> QED
    BY <2>1, <2>2
<1>3. CASE PhoneDrops
  BY <1>3 DEF PhoneDrops, Linked
<1>4. CASE PcDrops \/ PcRestarts
  BY <1>4 DEF PcDrops, PcRestarts, PcOffline, Linked
<1>5. CASE PcRejoins
  <2>1. CASE ws = "open"
    <3>1. toPhone' = Append(toPhone, PeerJoined) /\ PeerJoined \in Messages
      BY <1>5, <2>1, NoticeType DEF PcRejoins
    <3>2. Len(toPhone) + 1 \in DOMAIN toPhone' /\ toPhone'[Len(toPhone) + 1] = PeerJoined
      BY <3>1, QueueMessages, QueueAppend
    <3> QED
      BY <3>2 DEF Linked, Has, PeerJoined
  <2>2. CASE ws # "open"
    BY <1>5, <2>2 DEF PcRejoins, phoneVars, Linked
  <2> QED
    BY <2>1, <2>2
<1>6. CASE RelayRefuses
  BY <1>6 DEF RelayRefuses, pcVars, Linked
<1> QED
  BY <1>1, <1>2, <1>3, <1>4, <1>5, <1>6

\* The phone reads another message than peer_joined.
LEMMA ReadLinked ==
  ASSUME TypeOK, NEW types, "peer_joined" \notin types, PhoneReads(types), Linked'
  PROVE  Linked
<1>1. toPhone # << >> /\ toPhone' = Tail(toPhone) /\ UNCHANGED <<ws, online>>
  BY DEF PhoneReads, pcVars
<1>2. Head(toPhone).type # "peer_joined"
  BY DEF PhoneReads
<1> QED
  BY <1>1, <1>2, QueueMessages, HasTail DEF Linked

\* Something is added to the queue to the phone, or nothing.
LEMMA AppendLinked ==
  ASSUME TypeOK, Linked', UNCHANGED <<ws, online>>,
         toPhone' = toPhone \/ \E m \in Messages : toPhone' = Append(toPhone, m)
  PROVE  Linked
<1>1. ASSUME NEW m \in Messages, toPhone' = Append(toPhone, m), Has(toPhone, "peer_joined")
      PROVE  Has(toPhone', "peer_joined")
  BY <1>1, QueueMessages, QueueAppend DEF Has
<1> QED
  BY <1>1 DEF Linked

\* What the PC takes from the queue leaves the seed the phone needs it to get.
LEMMA SeedAgreesTail ==
  ASSUME TypeOK, SeedAgrees, toPc # << >>, toPc' = Tail(toPc), Head(toPc).type # "ratchet_init",
         Linked' => Linked, UNCHANGED sendKey,
         pcRecvKey' = 0 \/ (UNCHANGED pcRecvKey /\ Head(toPc).type # "key_exchange")
  PROVE  SeedAgrees'
<1>1. /\ Has(toPc', "ratchet_init") <=> Has(toPc, "ratchet_init")
      /\ Head(toPc).type # "key_exchange" =>
            (Has(toPc', "key_exchange") <=> Has(toPc, "key_exchange"))
  BY QueueMessages, HasTail
<1>2. ASSUME Seeded(sendKey) PROVE Seeded(sendKey)'
  <2>1. PICK i \in DOMAIN toPc : toPc[i].type = "ratchet_init" /\ toPc[i].key = sendKey
    BY <1>2 DEF Seeded
  <2>2. i # 1
    BY <2>1, QueueMessages, QueueTail
  <2>3. i - 1 \in DOMAIN toPc' /\ toPc'[i - 1] = toPc[i]
    BY <2>2, QueueMessages, QueueTail
  <2> QED
    BY <2>1, <2>3 DEF Seeded
<1> QED
  BY <1>1, <1>2 DEF SeedAgrees

\* The queue to the PC gets messages of the user, or stays.
LEMMA SeedAgreesSend ==
  ASSUME TypeOK, SeedAgrees, Linked' => Linked, UNCHANGED <<sendKey, pcRecvKey>>,
         toPc' = toPc \/ \E m \in Messages : toPc' = Append(toPc, m)
                                             /\ m.type \in {"input", "handshake_ack"}
  PROVE  SeedAgrees'
<1>1. CASE toPc' = toPc
  BY <1>1 DEF SeedAgrees, Seeded
<1>2. ASSUME NEW m \in Messages, toPc' = Append(toPc, m),
             m.type \in {"input", "handshake_ack"}
      PROVE  SeedAgrees'
  <2>1. /\ Has(toPc', "ratchet_init") <=> Has(toPc, "ratchet_init")
        /\ Has(toPc', "key_exchange") <=> Has(toPc, "key_exchange")
    BY <1>2, QueueMessages, HasAppend
  <2>2. Seeded(sendKey) => Seeded(sendKey)'
    BY <1>2, QueueMessages, QueueAppend DEF Seeded
  <2> QED
    BY <2>1, <2>2 DEF SeedAgrees
<1> QED
  BY <1>1, <1>2

\* A new seed is on its way.
LEMMA SeedAgreesBegin ==
  ASSUME TypeOK, NEW first \in {<<KeyExchange>>, << >>}, InitRatchet(first)
  PROVE  SeedAgrees'
<1>1. Len(toPc') \in DOMAIN toPc' /\ toPc'[Len(toPc')] = RatchetInit(sendKey')
  BY InitRatchetQueue
<1>2. Seeded(sendKey)'
  BY <1>1 DEF Seeded, RatchetInit
<1> QED
  BY <1>2 DEF SeedAgrees

\* The PC takes the seed at the head of its queue: a newer one follows, or it is the
\* phone's present one.
LEMMA SeedAgreesTake ==
  ASSUME TypeOK, DeliveryInv, AgreeInv, HandleRatchetInit, Linked' => Linked
  PROVE  SeedAgrees'
<1>1. /\ toPc \in Seq(Messages) /\ toPc # << >> /\ toPc' = Tail(toPc) /\ UNCHANGED sendKey
      /\ Head(toPc).type = "ratchet_init"
  BY QueueMessages DEF HandleRatchetInit, PcReads, phoneVars
<1>2. /\ 1 \in DOMAIN toPc /\ toPc[1].type = "ratchet_init"
      /\ DOMAIN toPc \subseteq Nat \ {0}
      /\ \A i \in DOMAIN toPc' : i \in Nat \ {0} /\ i + 1 \in DOMAIN toPc
                                  /\ toPc'[i] = toPc[i + 1]
      /\ \A i \in DOMAIN toPc : i # 1 => i - 1 \in DOMAIN toPc' /\ toPc'[i - 1] = toPc[i]
  BY <1>1, QueueTail
<1> SUFFICES ASSUME Linked' PROVE SeedAgrees'
  BY DEF SeedAgrees
<1>3. Seeded(sendKey)
  BY <1>2 DEF AgreeInv, SeedAgrees, Has
<1>4. CASE toPc[1].key # sendKey
  <2>1. PICK i \in DOMAIN toPc : toPc[i].type = "ratchet_init" /\ toPc[i].key = sendKey
    BY <1>3 DEF Seeded
  <2>2. i - 1 \in DOMAIN toPc' /\ toPc'[i - 1] = toPc[i]
    BY <1>2, <1>4, <2>1
  <2>3. Seeded(sendKey)'
    BY <1>1, <2>1, <2>2 DEF Seeded
  <2> QED
    BY <2>3 DEF SeedAgrees
<1>5. CASE toPc[1].key = sendKey
  <2>1. ~Has(toPc', "ratchet_init")
    <3>1. ASSUME NEW i \in DOMAIN toPc', toPc'[i].type = "ratchet_init" PROVE FALSE
      <4>1. i + 1 \in DOMAIN toPc /\ toPc[i + 1].type = "ratchet_init" /\ 1 < i + 1
        BY <1>2, <3>1
      <4>2. toPc[1].key < toPc[i + 1].key
        BY <1>2, <4>1 DEF DeliveryInv, SeedInv
      <4>3. toPc[i + 1].key \in 1 .. phoneKeys /\ toPc[1].key \in 1 .. phoneKeys
        BY <1>2, <4>1 DEF DeliveryInv, SeedInv
      <4> QED
        BY <1>5, <4>2, <4>3, KeyTypes
    <3> QED
      BY <3>1 DEF Has
  <2>2. isReady => pcRecvKey' = sendKey'
    BY <1>1, <1>5, AnswerQueue
  <2>3. ~isReady => pcRecvKey' = 0
    BY DEF HandleRatchetInit, AgreeInv, PcInv
  <2> QED
    BY <2>1, <2>2, <2>3 DEF SeedAgrees
<1> QED
  BY <1>4, <1>5

LEMMA SeedAgreesNext ==
  ASSUME TypeOK, DeliveryInv, AgreeInv, [Next]_vars
  PROVE  SeedAgrees'
<1>0. SeedAgrees /\ toPc \in Seq(Messages)
  BY QueueMessages DEF AgreeInv
<1>1. CASE ConnectWs \/ JoinSession \/ PhoneDrops \/ PcDrops \/ PcRestarts \/ PcRejoins
           \/ RelayRefuses
  BY <1>1, NotLinked DEF SeedAgrees
<1>2. ASSUME UNCHANGED <<ws, online, toPhone, toPc, sendKey, pcRecvKey>> PROVE SeedAgrees'
  BY <1>0, <1>2 DEF SeedAgrees, Linked, Seeded
<1>3. CASE BleVerified \/ BleDisconnects \/ UNCHANGED vars
  BY <1>2, <1>3 DEF BleVerified, BleDisconnects, vars, phoneVars, pcVars, ratchetVars,
     wireVars
<1>4. CASE \E m \in ble : HandleBleEncrypted(m)
  BY <1>2, <1>4 DEF HandleBleEncrypted, HandleEncrypted, phoneVars, pcVars, ratchetVars
<1>5. CASE OnPeerJoined
  <2>1. CASE bleReady
    <3>1. UNCHANGED <<toPc, sendKey, pcRecvKey>>
      BY <1>5, <2>1 DEF OnPeerJoined, PhoneReads, pcVars, ratchetVars
    <3> QED
      BY <2>1, <3>1 DEF SeedAgrees, AgreeInv, BleInv
  <2>2. CASE ~bleReady
    BY <1>5, <2>2, SeedAgreesBegin DEF OnPeerJoined
  <2> QED
    BY <2>1, <2>2
<1>6. CASE OnKeyExchange \/ OnPeerLeft \/ OnPcRatchetInit
  <2>1. Linked' => Linked
    BY <1>6, ReadLinked DEF OnKeyExchange, OnPeerLeft, OnPcRatchetInit
  <2>2. UNCHANGED pcRecvKey
    BY <1>6 DEF OnKeyExchange, OnPeerLeft, OnPcRatchetInit, PhoneReads, pcVars, ratchetVars
  <2>3. CASE OnKeyExchange /\ ~started
    BY <2>3, SeedAgreesBegin DEF OnKeyExchange
  <2>4. CASE (OnKeyExchange /\ started) \/ OnPeerLeft
    BY <1>0, <2>1, <2>2, <2>4, SeedAgreesSend DEF OnKeyExchange, OnPeerLeft
  <2>5. CASE OnPcRatchetInit
    BY <1>0, <2>1, <2>2, <2>5, SeedAgreesSend, SendEncryptedQueue DEF OnPcRatchetInit
  <2> QED
    BY <1>6, <2>3, <2>4, <2>5
<1>7. CASE Send
  <2>1. UNCHANGED <<ws, online, toPhone, sendKey, pcRecvKey>> /\ SendEncrypted("input")
    BY <1>7 DEF Send, pcVars, ratchetVars
  <2>2. Linked' => Linked
    BY <2>1 DEF Linked
  <2> QED
    BY <1>0, <2>1, <2>2, SeedAgreesSend, SendEncryptedQueue
<1>8. CASE OnPeerStatus \/ HandleWsEncrypted
  <2>1. /\ toPc # << >> /\ toPc' = Tail(toPc) /\ UNCHANGED <<sendKey, pcRecvKey>>
        /\ Head(toPc).type \notin {"ratchet_init", "key_exchange"}
        /\ UNCHANGED <<ws, online, toPhone>>
    BY <1>8 DEF OnPeerStatus, HandleWsEncrypted, HandleEncrypted, PcReads, phoneVars,
       ratchetVars
  <2>2. Linked' => Linked
    BY <2>1 DEF Linked
  <2> QED
    BY <1>0, <2>1, <2>2, SeedAgreesTail
<1>9. CASE HandleKeyExchange
  <2>1. /\ toPc # << >> /\ toPc' = Tail(toPc) /\ UNCHANGED sendKey /\ pcRecvKey' = 0
        /\ Head(toPc).type # "ratchet_init" /\ UNCHANGED <<ws, online>>
        /\ toPhone' = toPhone \/ toPhone' = Append(toPhone, KeyExchange)
    BY <1>9 DEF HandleKeyExchange, PcReads, PcSends, PcForgets, phoneVars
  <2>2. Linked' => Linked
    BY <2>1, AppendLinked, MessageTypes DEF Messages
  <2> QED
    BY <1>0, <2>1, <2>2, SeedAgreesTail
<1>10. CASE HandleRatchetInit
  <2>1. UNCHANGED <<ws, online>>
    BY <1>10 DEF HandleRatchetInit, PcReads, phoneVars
  <2>2. toPhone' = toPhone \/ \E m \in Messages : toPhone' = Append(toPhone, m)
    BY <1>10, AnswerQueue DEF HandleRatchetInit
  <2>3. Linked' => Linked
    BY <2>1, <2>2, AppendLinked
  <2> QED
    BY <1>10, <2>3, SeedAgreesTake
<1> QED
  BY <1>1, <1>3, <1>4, <1>5, <1>6, <1>7, <1>8, <1>9, <1>10 DEF Next, PhoneHandles, PcHandles

\* The phone has the PC's key or will get it still: the queue to it, the keys and the
\* condition on the queue to the PC stay.
LEMMA AnswerAgreesSame ==
  ASSUME AnswerAgrees, Linked' => Linked, UNCHANGED <<recvKey, pcSendKey, toPhone>>,
         pcRecvKey' # 0 => pcRecvKey # 0,
         pcRecvKey' # 0 /\ Has(toPc, "key_exchange") => Has(toPc', "key_exchange")
  PROVE  AnswerAgrees'
BY DEF AnswerAgrees, Answered

\* The phone reads a message of the relay, or a public key.
LEMMA AnswerAgreesRead ==
  ASSUME TypeOK, AnswerAgrees, Linked' => Linked, UNCHANGED <<recvKey, pcSendKey, pcRecvKey>>,
         toPhone # << >>, toPhone' = Tail(toPhone), Head(toPhone).type # "pc_ratchet_init",
         Has(toPc, "key_exchange") => Has(toPc', "key_exchange")
  PROVE  AnswerAgrees'
<1>1. ASSUME Answered(pcSendKey) PROVE Answered(pcSendKey)'
  <2>1. PICK i \in DOMAIN toPhone :
           toPhone[i].type = "pc_ratchet_init" /\ toPhone[i].key = pcSendKey
    BY <1>1 DEF Answered
  <2>2. i # 1
    BY <2>1, QueueMessages, QueueTail
  <2>3. i - 1 \in DOMAIN toPhone' /\ toPhone'[i - 1] = toPhone[i]
    BY <2>2, QueueMessages, QueueTail
  <2> QED
    BY <2>1, <2>3 DEF Answered
<1> QED
  BY <1>1 DEF AnswerAgrees

\* The phone takes the PC's seed: the PC's present one, or that one still follows.
LEMMA AnswerAgreesTake ==
  ASSUME TypeOK, AgreeInv, OnPcRatchetInit
  PROVE  AnswerAgrees'
<1>1. /\ toPhone # << >> /\ toPhone' = Tail(toPhone)
      /\ Head(toPhone).type = "pc_ratchet_init" /\ recvKey' = Head(toPhone).key
      /\ UNCHANGED <<pcRecvKey, pcSendKey>>
      /\ SendEncrypted("handshake_ack")
  BY DEF OnPcRatchetInit, PhoneReads, pcVars, ratchetVars
<1>2. /\ 1 \in DOMAIN toPhone /\ Head(toPhone) = toPhone[1]
      /\ \A i \in DOMAIN toPhone : i # 1 =>
            i - 1 \in DOMAIN toPhone' /\ toPhone'[i - 1] = toPhone[i]
  BY <1>1, QueueMessages, QueueTail
<1>3. Linked' => Linked
  BY ReadLinked DEF OnPcRatchetInit
<1>4. Has(toPc', "key_exchange") <=> Has(toPc, "key_exchange")
  BY <1>1, SendEncryptedQueue, QueueMessages, HasAppend
<1> SUFFICES ASSUME Linked, pcRecvKey # 0, ~Has(toPc, "key_exchange")
             PROVE  recvKey' = pcSendKey \/ Answered(pcSendKey)'
  BY <1>1, <1>3, <1>4 DEF AnswerAgrees
<1>5. recvKey # pcSendKey
  <2>1. recvKey < toPhone[1].key /\ toPhone[1].key <= pcKeys
    BY <1>1, <1>2 DEF AgreeInv, AnswerOrder
  <2>2. pcSendKey = pcKeys
    BY KeyTypes DEF AgreeInv, PcInv
  <2> QED
    BY <1>2, <2>1, <2>2, <1>1, KeyTypes
<1>6. PICK i \in DOMAIN toPhone :
         toPhone[i].type = "pc_ratchet_init" /\ toPhone[i].key = pcSendKey
  BY <1>5 DEF AgreeInv, AnswerAgrees, Answered
<1>7. CASE i = 1
  BY <1>1, <1>2, <1>6, <1>7
<1>8. CASE i # 1
  BY <1>1, <1>2, <1>6, <1>8 DEF Answered
<1> QED
  BY <1>7, <1>8

LEMMA AnswerAgreesNext ==
  ASSUME TypeOK, AgreeInv, [Next]_vars
  PROVE  AnswerAgrees'
<1>0. AnswerAgrees /\ toPc \in Seq(Messages)
  BY QueueMessages DEF AgreeInv
<1>1. CASE ConnectWs \/ JoinSession \/ PhoneDrops \/ PcDrops \/ PcRestarts \/ PcRejoins
           \/ RelayRefuses
  BY <1>1, NotLinked DEF AnswerAgrees
<1>2. ASSUME UNCHANGED <<ws, online, toPhone, toPc, recvKey, pcSendKey, pcRecvKey>>
      PROVE  AnswerAgrees'
  BY <1>0, <1>2 DEF AnswerAgrees, Linked, Answered
<1>3. CASE BleVerified \/ BleDisconnects \/ UNCHANGED vars
  BY <1>2, <1>3 DEF BleVerified, BleDisconnects, vars, phoneVars, pcVars, ratchetVars,
     wireVars
<1>4. CASE \E m \in ble : HandleBleEncrypted(m)
  BY <1>2, <1>4 DEF HandleBleEncrypted, HandleEncrypted, phoneVars, pcVars, ratchetVars
<1>5. CASE OnPeerJoined
  <2>1. CASE bleReady
    <3>1. UNCHANGED <<recvKey, pcSendKey, pcRecvKey>>
      BY <1>5, <2>1 DEF OnPeerJoined, PhoneReads, pcVars, ratchetVars
    <3> QED
      BY <2>1, <3>1 DEF AnswerAgrees, AgreeInv, BleInv
  <2>2. CASE ~bleReady
    <3>1. InitRatchet(<<KeyExchange>>)
      BY <1>5, <2>2 DEF OnPeerJoined
    <3>2. Has(toPc', "key_exchange")
      BY <3>1, InitRatchetQueue
    <3> QED
      BY <3>2 DEF AnswerAgrees
  <2> QED
    BY <2>1, <2>2
<1>6. CASE OnKeyExchange \/ OnPeerLeft
  <2>1. Linked' => Linked
    BY <1>6, ReadLinked DEF OnKeyExchange, OnPeerLeft
  <2>2. /\ toPhone # << >> /\ toPhone' = Tail(toPhone)
        /\ Head(toPhone).type # "pc_ratchet_init"
        /\ UNCHANGED <<recvKey, pcSendKey, pcRecvKey>>
    BY <1>6 DEF OnKeyExchange, OnPeerLeft, PhoneReads, pcVars, ratchetVars
  <2>3. Has(toPc, "key_exchange") => Has(toPc', "key_exchange")
    <3>1. CASE OnKeyExchange /\ ~started
      <4>1. InitRatchet(<< >>)
        BY <3>1 DEF OnKeyExchange
      <4> QED
        BY <4>1, InitRatchetQueue DEF Has
    <3>2. CASE (OnKeyExchange /\ started) \/ OnPeerLeft
      BY <3>2 DEF OnKeyExchange, OnPeerLeft
    <3> QED
      BY <1>6, <3>1, <3>2
  <2> QED
    BY <1>0, <2>1, <2>2, <2>3, AnswerAgreesRead
<1>7. CASE Send
  <2>1. UNCHANGED <<ws, online, toPhone, recvKey, pcSendKey, pcRecvKey>>
    BY <1>7 DEF Send, pcVars, ratchetVars
  <2>2. Linked' => Linked
    BY <2>1 DEF Linked
  <2>3. Has(toPc', "key_exchange") <=> Has(toPc, "key_exchange")
    BY <1>0, <1>7, SendEncryptedQueue, HasAppend DEF Send
  <2> QED
    BY <1>0, <2>1, <2>2, <2>3, AnswerAgreesSame
<1>8. CASE OnPeerStatus \/ HandleWsEncrypted
  <2>1. /\ toPc # << >> /\ toPc' = Tail(toPc)
        /\ UNCHANGED <<recvKey, pcSendKey, pcRecvKey, ws, online, toPhone>>
        /\ Head(toPc).type # "key_exchange"
    BY <1>8 DEF OnPeerStatus, HandleWsEncrypted, HandleEncrypted, PcReads, phoneVars,
       ratchetVars
  <2>2. Linked' => Linked
    BY <2>1 DEF Linked
  <2>3. Has(toPc', "key_exchange") <=> Has(toPc, "key_exchange")
    BY <1>0, <2>1, HasTail
  <2> QED
    BY <1>0, <2>1, <2>2, <2>3, AnswerAgreesSame
<1>9. CASE HandleKeyExchange
  BY <1>9 DEF HandleKeyExchange, PcForgets, AnswerAgrees
<1>10. CASE HandleRatchetInit /\ ~isReady
  <2>1. pcRecvKey' = 0
    BY <1>10 DEF HandleRatchetInit, AgreeInv, PcInv
  <2> QED
    BY <2>1 DEF AnswerAgrees
<1>11. CASE HandleRatchetInit /\ isReady
  <2>1. CASE ws # "open"
    BY <1>11, <2>1 DEF HandleRatchetInit, PcReads, phoneVars, AnswerAgrees, Linked
  <2>2. CASE ws = "open"
    <3>1. /\ toPhone' = Append(toPhone, PcRatchetInit(pcKeys + 1)) /\ pcSendKey' = pcKeys + 1
          /\ PcRatchetInit(pcKeys + 1) \in Messages
      BY <1>11, <2>2, AnswerQueue
    <3>2. /\ Len(toPhone) + 1 \in DOMAIN toPhone'
          /\ toPhone'[Len(toPhone) + 1] = PcRatchetInit(pcKeys + 1)
      BY <3>1, QueueMessages, QueueAppend
    <3>3. Answered(pcSendKey)'
      BY <3>1, <3>2 DEF Answered, PcRatchetInit
    <3> QED
      BY <3>3 DEF AnswerAgrees
  <2> QED
    BY <2>1, <2>2
<1> QED
  BY <1>1, <1>3, <1>4, <1>5, <1>6, <1>7, <1>8, <1>9, <1>10, <1>11, AnswerAgreesTake
     DEF Next, PhoneHandles, PcHandles

LEMMA AgreeMeans == TypeOK /\ AgreeInv => ConfirmedMeansAgreed
<1> SUFFICES ASSUME TypeOK, AgreeInv, confirmed, ws = "open", online, Quiet
             PROVE  pcSendKey # 0 /\ recvKey = pcSendKey /\ sendKey = pcRecvKey
  BY DEF ConfirmedMeansAgreed
<1>1. pcRecvKey # 0 /\ pcSendKey # 0
  BY DEF AgreeInv, PcInv
<1>2. Linked /\ \A k : ~Answered(k)
  BY DEF Quiet, Linked, Has, Answered
<1>3. ~Has(toPc, "key_exchange") /\ \A k : ~Seeded(k)
  BY DEF Quiet, Has, Seeded
<1> QED
  BY <1>1, <1>2, <1>3 DEF AgreeInv, SeedAgrees, AnswerAgrees

\* Once the PC has confirmed the session (_encryptionConfirmed of RoomManager.cs), and
\* neither side awaits anything of a handshake, the phone (useWebSocket.ts) sends under
\* the key with which the PC opens, and the other way round: after any reconnection on
\* either side, a restart of the PC, and with ratchets that BLE has kept alive.
THEOREM SpecConfirmedMeansAgreed == Spec => []ConfirmedMeansAgreed
<1>1. Init => AgreeInv
  BY DEF Init, AgreeInv, AnswerOrder, ExchangeInv, PcInv, AckInv, NoticeInv, BleInv,
     SeedAgrees, AnswerAgrees, Linked, Has
<1>2. TypeOK /\ DeliveryInv /\ AgreeInv /\ [Next]_vars => AgreeInv'
  BY AnswerOrderNext, ExchangeNext, PcNext, AckNext, NoticeNext, BleNext, SeedAgreesNext,
     AnswerAgreesNext DEF AgreeInv
<1> QED
  BY <1>1, <1>2, AgreeMeans, DeliveryInvariant, PTL DEF Spec
=============================================================================
