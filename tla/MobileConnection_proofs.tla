------------------------ MODULE MobileConnection_proofs ------------------------
(***************************************************************************)
(* The phone's connection for every limit on its attempts: it never has    *)
(* two connections under way, no old timer ends a session that works, and  *)
(* a phone that was replaced does not fight back.                          *)
(***************************************************************************)
EXTENDS MobileConnection, TLAPS

\* The variables that are not flags: the provers need the flags apart, which only
\* Zenon treats well.
LEMMA InitData == Init => DataType
  BY MobileConnectionAssumption DEF Init, DataType

LEMMA StepData == DataType /\ [Next]_vars => DataType'
<1> SUFFICES ASSUME DataType, [Next]_vars PROVE DataType'
  OBVIOUS
<1> USE MobileConnectionAssumption
    DEF DataType, Connect, Cleanup, CloseSocket, GraceStarts, MayRetry,
        sockVars, keepVars, inputVars, worldVars, histVars
<1>1. CASE Scan
  BY <1>1 DEF Scan
<1>2. CASE Retry
  BY <1>2 DEF Retry
<1>3. CASE Cancel
  BY <1>3 DEF Cancel
<1>4. CASE Send
  <2>1. CASE Connect
    <3>1. fails' = fails /\ attempts' = attempts
      BY <1>4, Zenon DEF Send
    <3> QED
      BY <2>1, <3>1
  <2>2. CASE ~Connect
    <3>1. /\ UNCHANGED <<sock, link, attempts, fails>> /\ state' \in {state, "connecting"}
      BY <1>4, <2>2, Zenon DEF Send
    <3>2. queued' = queued \/ (queued < MaxQueue /\ queued' = queued + 1)
      BY <1>4, <2>2, Zenon DEF Send
    <3>3. timers' = timers \/ timers' = timers \cup {"grace"}
      BY <1>4, <2>2, Zenon DEF Send
    <3>4. queued' \in 0 .. MaxQueue
      BY <3>2
    <3> QED
      BY <3>1, <3>3, <3>4
  <2> QED
    BY <2>1, <2>2
<1>5. CASE PageHide
  BY <1>5 DEF PageHide
<1>6. CASE Hide
  BY <1>6 DEF Hide
<1>7. ASSUME NEW appears \in BOOLEAN, Show(appears) PROVE DataType'
  <2>1. CASE Connect
    <3>1. fails' = fails /\ attempts' \in {0, attempts}
      BY <1>7, Zenon DEF Show
    <3> QED
      BY <2>1, <3>1
  <2>2. CASE ~Connect
    <3>1. UNCHANGED <<sock, link, state, queued, timers, attempts, fails>>
      BY <1>7, <2>2, Zenon DEF Show
    <3> QED
      BY <3>1
  <2> QED
    BY <2>1, <2>2
<1>8. CASE BleVerified
  BY <1>8 DEF BleVerified
<1>9. CASE BleLost
  BY <1>9 DEF BleLost
<1>10. CASE Opens
  BY <1>10 DEF Opens
<1>11. ASSUME NEW error \in BOOLEAN, Closes(error) PROVE DataType'
  BY <1>11 DEF Closes
<1>12. CASE StaleError
  BY <1>12 DEF StaleError
<1>13. CASE Joined
  BY <1>13 DEF Joined
<1>14. CASE PeerJoined
  BY <1>14 DEF PeerJoined
<1>15. CASE PcAnswers
  BY <1>15 DEF PcAnswers
<1>16. CASE PeerLeft
  BY <1>16 DEF PeerLeft
<1>17. CASE SessionGone
  BY <1>17 DEF SessionGone
<1>18. CASE NoPeer
  BY <1>18 DEF NoPeer
<1>19. CASE ServerError
  BY <1>19 DEF ServerError
<1>20. CASE Preempted
  BY <1>20 DEF Preempted
<1>21. CASE ReconnectFires
  <2>1. CASE Connect
    <3>1. fails' = fails /\ attempts' = attempts
      BY <1>21, Zenon DEF ReconnectFires
    <3> QED
      BY <2>1, <3>1
  <2>2. CASE ~Connect
    <3>1. UNCHANGED <<sock, link, state, queued, attempts, fails>>
          /\ timers' = timers \ {"reconnect"}
      BY <1>21, <2>2, Zenon DEF ReconnectFires
    <3> QED
      BY <3>1
  <2> QED
    BY <2>1, <2>2
<1>22. CASE ConnectFires
  BY <1>22 DEF ConnectFires
<1>23. CASE HandshakeFires
  BY <1>23 DEF HandshakeFires
<1>24. CASE GraceFires
  BY <1>24 DEF GraceFires
<1>25. CASE UNCHANGED vars
  BY <1>25 DEF vars
<1>26. CASE Begin \/ Finish
  BY <1>26 DEF Begin, Finish
<1> QED
  BY <1>1, <1>2, <1>3, <1>4, <1>5, <1>6, <1>7, <1>8, <1>9, <1>10, <1>11, <1>12,
     <1>13, <1>14, <1>15, <1>16, <1>17, <1>18, <1>19, <1>20, <1>21, <1>22, <1>23,
     <1>24, <1>25, <1>26
  DEF Next, User, Message, Timer

\* The flags
LEMMA InitFlag == Init => FlagType
  BY MobileConnectionAssumption, Zenon DEF Init, FlagType

LEMMA StepFlag == FlagType /\ [Next]_vars => FlagType'
<1> SUFFICES ASSUME FlagType, [Next]_vars PROVE FlagType'
  OBVIOUS
<1> USE MobileConnectionAssumption
    DEF FlagType, Connect, Cleanup, CloseSocket, GraceStarts, MayRetry,
        sockVars, keepVars, inputVars, worldVars, histVars
<1>1. CASE Scan
  BY <1>1, Zenon DEF Scan
<1>2. CASE Retry
  BY <1>2, Zenon DEF Retry
<1>3. CASE Cancel
  BY <1>3, Zenon DEF Cancel
<1>4. CASE Send
  BY <1>4, Zenon DEF Send
<1>5. CASE PageHide
  BY <1>5, Zenon DEF PageHide
<1>6. CASE Hide
  BY <1>6, Zenon DEF Hide
<1>7. ASSUME NEW appears \in BOOLEAN, Show(appears) PROVE FlagType'
  BY <1>7, Zenon DEF Show
<1>8. CASE BleVerified
  BY <1>8, Zenon DEF BleVerified
<1>9. CASE BleLost
  BY <1>9, Zenon DEF BleLost
<1>10. CASE Opens
  BY <1>10, Zenon DEF Opens
<1>11. ASSUME NEW error \in BOOLEAN, Closes(error) PROVE FlagType'
  BY <1>11, Zenon DEF Closes
<1>12. CASE StaleError
  BY <1>12, Zenon DEF StaleError
<1>13. CASE Joined
  BY <1>13, Zenon DEF Joined
<1>14. CASE PeerJoined
  BY <1>14, Zenon DEF PeerJoined
<1>15. CASE PcAnswers
  BY <1>15, Zenon DEF PcAnswers
<1>16. CASE PeerLeft
  BY <1>16, Zenon DEF PeerLeft
<1>17. CASE SessionGone
  BY <1>17, Zenon DEF SessionGone
<1>18. CASE NoPeer
  BY <1>18, Zenon DEF NoPeer
<1>19. CASE ServerError
  BY <1>19, Zenon DEF ServerError
<1>20. CASE Preempted
  BY <1>20, Zenon DEF Preempted
<1>21. CASE ReconnectFires
  <2>1. CASE Connect
    <3>1. UNCHANGED <<stored, suspended, visible, ble>>
      BY <1>21, Zenon DEF ReconnectFires
    <3> QED
      BY <2>1, <3>1, Zenon
  <2>2. CASE UNCHANGED <<sockVars, state, enc, inputVars, info, intentional>>
    BY <1>21, <2>2, Zenon DEF ReconnectFires
  <2> QED
    BY <1>21, <2>1, <2>2, Zenon DEF ReconnectFires
<1>22. CASE ConnectFires
  BY <1>22, Zenon DEF ConnectFires
<1>23. CASE HandshakeFires
  BY <1>23, Zenon DEF HandshakeFires
<1>24. CASE GraceFires
  BY <1>24, Zenon DEF GraceFires
<1>25. CASE UNCHANGED vars
  BY <1>25, Zenon DEF vars
<1>26. CASE Begin \/ Finish
  BY <1>26, Zenon DEF Begin, Finish
<1> QED
  BY <1>1, <1>2, <1>3, <1>4, <1>5, <1>6, <1>7, <1>8, <1>9, <1>10, <1>11, <1>12,
     <1>13, <1>14, <1>15, <1>16, <1>17, <1>18, <1>19, <1>20, <1>21, <1>22, <1>23,
     <1>24, <1>25, <1>26
  DEF Next, User, Message, Timer

\* The history
LEMMA StepHist == HistType /\ [Next]_vars => HistType'
<1> SUFFICES ASSUME HistType, [Next]_vars PROVE HistType'
  OBVIOUS
<1> USE DEF HistType, Connect, worldVars, histVars
<1>1. CASE Scan \/ Retry \/ Cancel
  BY <1>1, Zenon DEF Scan, Retry, Cancel
<1>2. CASE Begin \/ Finish \/ Hide \/ PageHide
  BY <1>2, Zenon DEF Begin, Finish, Hide, PageHide
<1>3. CASE Send
  <2>1. ousted' \in BOOLEAN /\ sending' \in BOOLEAN
    BY <1>3, Zenon DEF Send
  <2>2. dropped' \in BOOLEAN /\ misled' \in BOOLEAN
    BY <1>3, Zenon DEF Send
  <2> QED
    BY <2>1, <2>2, Zenon
<1>4. ASSUME NEW appears \in BOOLEAN, Show(appears) PROVE HistType'
  BY <1>4, Zenon DEF Show
<1>5. CASE BleVerified \/ BleLost \/ Opens \/ StaleError
  BY <1>5, Zenon DEF BleVerified, BleLost, Opens, StaleError
<1>6. ASSUME NEW error \in BOOLEAN, Closes(error) PROVE HistType'
  BY <1>6, Zenon DEF Closes
<1>7. CASE Joined \/ PeerJoined \/ PcAnswers \/ PeerLeft
  BY <1>7, Zenon DEF Joined, PeerJoined, PcAnswers, PeerLeft
<1>8. CASE SessionGone \/ NoPeer \/ ServerError \/ Preempted
  BY <1>8, Zenon DEF SessionGone, NoPeer, ServerError, Preempted
<1>9. CASE ReconnectFires
  BY <1>9, Zenon DEF ReconnectFires
<1>10. CASE ConnectFires \/ HandshakeFires \/ GraceFires
  BY <1>10, Zenon DEF ConnectFires, HandshakeFires, GraceFires
<1>11. CASE UNCHANGED vars
  BY <1>11, Zenon DEF vars
<1> QED
  BY <1>1, <1>2, <1>3, <1>4, <1>5, <1>6, <1>7, <1>8, <1>9, <1>10, <1>11
  DEF Next, User, Message, Timer

\* Every variable keeps its type: the attempts never exceed MAX_RECONNECT_ATTEMPTS
\* (onclose).
THEOREM TypeCorrect == Spec => []TypeOK
<1>1. Init => DataType /\ FlagType /\ HistType
  BY InitData, InitFlag, Zenon DEF Init, HistType
<1>2. (DataType /\ FlagType /\ HistType) /\ [Next]_vars
        => (DataType /\ FlagType /\ HistType)'
  BY StepData, StepFlag, StepHist
<1>3. DataType /\ FlagType /\ HistType => TypeOK
  BY DEF TypeOK
<1> QED
  BY <1>1, <1>2, <1>3, PTL DEF Spec

\* What is assigned to the socket whenever it is given up or made anew.
Fresh ==
    /\ sock = "open" => ~stale
    /\ sock # "open" => link = "no"

\* No timer of a handshake or of a loss runs while BLE is ready.
BleIsQuiet == ble => timers \cap {"handshake", "grace"} = {}

\* A replaced phone is not about to reconnect, nor to send by itself.
StaysAway ==
    ousted => sock = "none" /\ intentional /\ "reconnect" \notin timers /\ ~sending

IInv == OneAttempt /\ SecureSessionIsSafe /\ Fresh /\ BleIsQuiet /\ StaysAway

LEMMA InitIInv == Init => IInv
  BY DEF Init, IInv, OneAttempt, SecureSessionIsSafe, Fresh, BleIsQuiet, StaysAway

\* Whoever connects, the new socket is the only one and the timers are reset.
LEMMA ConnectIInv ==
    ASSUME IInv, Connect, ~ousted', ble' = ble
    PROVE  IInv'
  BY DEF Connect, Cleanup, IInv, OneAttempt, SecureSessionIsSafe, Fresh,
         BleIsQuiet, StaysAway

LEMMA StepIInv == IInv /\ [Next]_vars => IInv'
<1> SUFFICES ASSUME IInv, [Next]_vars PROVE IInv'
  OBVIOUS
<1>1. CASE Scan
  BY <1>1, ConnectIInv DEF Scan, worldVars
<1>2. CASE Retry
  BY <1>2, ConnectIInv DEF Retry, worldVars
<1>3. CASE Send
  <2>1. CASE Connect
    <3>1. ~ousted'
      BY <1>3, <2>1 DEF Send, Connect, IInv, StaysAway
    <3> QED
      BY <1>3, <2>1, <3>1, ConnectIInv DEF Send, worldVars
  <2>2. CASE ~Connect
    <3>1. /\ UNCHANGED <<sockVars, intentional, ble, sending>> /\ sock # "open"
          /\ timers' = timers \/ (timers' = timers \cup {"grace"} /\ ~ble)
      BY <1>3, <2>2 DEF Send, sockVars, inputVars, worldVars
    <3>2. ousted' => ousted
      BY <1>3, <2>2 DEF Send
    <3> QED
      BY <3>1, <3>2 DEF sockVars, IInv, OneAttempt, SecureSessionIsSafe,
           Fresh, BleIsQuiet, StaysAway
  <2> QED
    BY <2>1, <2>2
<1>4. ASSUME NEW appears \in BOOLEAN, Show(appears) PROVE IInv'
  <2>1. CASE Connect
    <3>1. ~ousted'
      BY <1>4, <2>1 DEF Show, Connect, MayReconnect, sockVars, IInv, StaysAway
    <3> QED
      BY <1>4, <2>1, <3>1, ConnectIInv DEF Show
  <2>2. CASE ~Connect
    BY <1>4, <2>2
    DEF Show, sockVars, inputVars, IInv, OneAttempt, SecureSessionIsSafe,
           Fresh, BleIsQuiet, StaysAway
  <2> QED
    BY <2>1, <2>2
<1>5. CASE ReconnectFires
  <2>1. CASE Connect
    <3>1. ~ousted'
      BY <1>5, <2>1 DEF ReconnectFires, IInv, StaysAway
    <3> QED
      BY <1>5, <2>1, <3>1, ConnectIInv DEF ReconnectFires, worldVars
  <2>2. CASE ~Connect
    BY <1>5, <2>2 DEF ReconnectFires, sockVars, inputVars, worldVars,
       IInv, OneAttempt, SecureSessionIsSafe, Fresh, BleIsQuiet,
         StaysAway
  <2> QED
    BY <2>1, <2>2
<1>6. CASE Cancel
  BY <1>6 DEF Cancel, Cleanup, CloseSocket,
     IInv, OneAttempt, SecureSessionIsSafe, Fresh, BleIsQuiet,
         StaysAway
<1>7. CASE PageHide
  BY <1>7 DEF PageHide, CloseSocket, sockVars, keepVars, inputVars, histVars,
     IInv, OneAttempt, SecureSessionIsSafe, Fresh, BleIsQuiet,
         StaysAway
<1>8. CASE Hide
  BY <1>8 DEF Hide, sockVars, keepVars, inputVars, histVars,
     IInv, OneAttempt, SecureSessionIsSafe, Fresh, BleIsQuiet,
         StaysAway
<1>9. CASE BleVerified
  BY <1>9 DEF BleVerified, sockVars, keepVars, inputVars, histVars,
     IInv, OneAttempt, SecureSessionIsSafe, Fresh, BleIsQuiet,
         StaysAway
<1>10. CASE BleLost
  BY <1>10 DEF BleLost, sockVars, keepVars, inputVars, histVars,
     IInv, OneAttempt, SecureSessionIsSafe, Fresh, BleIsQuiet,
         StaysAway
<1>11. CASE Opens
  BY <1>11 DEF Opens, inputVars, worldVars, histVars,
     IInv, OneAttempt, SecureSessionIsSafe, Fresh, BleIsQuiet,
         StaysAway
<1>12. ASSUME NEW error \in BOOLEAN, Closes(error) PROVE IInv'
  BY <1>12 DEF Closes, histVars,
     IInv, OneAttempt, SecureSessionIsSafe, Fresh, BleIsQuiet,
         StaysAway
<1>13. CASE StaleError
  BY <1>13 DEF StaleError, GraceStarts, keepVars, worldVars, histVars,
     IInv, OneAttempt, SecureSessionIsSafe, Fresh, BleIsQuiet,
         StaysAway
<1>14. CASE Joined
  BY <1>14 DEF Joined, inputVars, keepVars, worldVars, histVars,
     IInv, OneAttempt, SecureSessionIsSafe, Fresh, BleIsQuiet,
         StaysAway
<1>15. CASE PeerJoined
  BY <1>15 DEF PeerJoined, inputVars, keepVars, worldVars, histVars,
     IInv, OneAttempt, SecureSessionIsSafe, Fresh, BleIsQuiet,
         StaysAway
<1>16. CASE PcAnswers
  BY <1>16 DEF PcAnswers, keepVars, worldVars, histVars,
     IInv, OneAttempt, SecureSessionIsSafe, Fresh, BleIsQuiet,
         StaysAway
<1>17. CASE PeerLeft
  BY <1>17 DEF PeerLeft, inputVars, keepVars, histVars,
     IInv, OneAttempt, SecureSessionIsSafe, Fresh, BleIsQuiet,
         StaysAway
<1>18. CASE SessionGone
  BY <1>18 DEF SessionGone, inputVars, worldVars, histVars,
     IInv, OneAttempt, SecureSessionIsSafe, Fresh, BleIsQuiet,
         StaysAway
<1>19. CASE NoPeer
  BY <1>19 DEF NoPeer, sockVars, inputVars, keepVars, worldVars, histVars,
     IInv, OneAttempt, SecureSessionIsSafe, Fresh, BleIsQuiet,
         StaysAway
<1>20. CASE ServerError
  BY <1>20 DEF ServerError, CloseSocket, sockVars, inputVars, worldVars, histVars,
     IInv, OneAttempt, SecureSessionIsSafe, Fresh, BleIsQuiet,
         StaysAway
<1>21. CASE Preempted
  BY <1>21 DEF Preempted, CloseSocket, inputVars, worldVars,
     IInv, OneAttempt, SecureSessionIsSafe, Fresh, BleIsQuiet,
         StaysAway
<1>22. CASE ConnectFires
  BY <1>22 DEF ConnectFires, CloseSocket, sockVars, inputVars, worldVars, histVars,
     IInv, OneAttempt, SecureSessionIsSafe, Fresh, BleIsQuiet,
         StaysAway
<1>23. CASE HandshakeFires
  BY <1>23 DEF HandshakeFires, CloseSocket, sockVars, inputVars, worldVars, histVars,
     IInv, OneAttempt, SecureSessionIsSafe, Fresh, BleIsQuiet,
         StaysAway
<1>24. CASE GraceFires
  BY <1>24 DEF GraceFires, sockVars, keepVars, worldVars, histVars,
     IInv, OneAttempt, SecureSessionIsSafe, Fresh, BleIsQuiet,
         StaysAway
<1>25. CASE UNCHANGED vars
  BY <1>25 DEF vars, sockVars, inputVars, keepVars, worldVars, histVars,
     IInv, OneAttempt, SecureSessionIsSafe, Fresh, BleIsQuiet,
         StaysAway
<1>26. CASE Begin \/ Finish
  BY <1>26 DEF Begin, Finish, sockVars, inputVars, keepVars, histVars,
     IInv, OneAttempt, SecureSessionIsSafe, Fresh, BleIsQuiet, StaysAway
<1> QED
  BY <1>1, <1>2, <1>3, <1>4, <1>5, <1>6, <1>7, <1>8, <1>9, <1>10, <1>11, <1>12,
     <1>13, <1>14, <1>15, <1>16, <1>17, <1>18, <1>19, <1>20, <1>21, <1>22, <1>23,
     <1>24, <1>25, <1>26
  DEF Next, User, Message, Timer

\* The inductive invariant holds throughout: sockets, timers, preemption and the secure
\* session's flags (useWebSocket.ts) stay consistent.
THEOREM Invariant == Spec => []IInv
<1>1. Init => IInv
  BY InitIInv
<1>2. IInv /\ [Next]_vars => IInv'
  BY StepIInv
<1> QED
  BY <1>1, <1>2, PTL DEF Spec

\* The phone never has a socket and an armed reconnection at once (connectWs,
\* onclose).
THEOREM NeverTwoConnections == Spec => []OneAttempt
<1>1. IInv => OneAttempt
  BY DEF IInv
<1> QED
  BY <1>1, Invariant, PTL

\* No timer left from an earlier loss or handshake can end a session that works
\* (setEncryptionState, startOfflineGrace, failHandshake).
THEOREM SecureSessionsAreSafe == Spec => []SecureSessionIsSafe
<1>1. IInv => SecureSessionIsSafe
  BY DEF IInv
<1> QED
  BY <1>1, Invariant, PTL

\* A phone that was preempted with nothing under way that sends by itself stays off the
\* relay until its user acts on it (Preempted, Send, reconnectIfNeeded).
THEOREM OustedPhonesStay == Spec => []OustedStays
<1>1. IInv => OustedStays
  BY DEF IInv, StaysAway, OustedStays
<1> QED
  BY <1>1, Invariant, PTL
=============================================================================
