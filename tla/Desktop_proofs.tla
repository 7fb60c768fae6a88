-------------------------- MODULE Desktop_proofs --------------------------
(***************************************************************************)
(* The PC without a connection is at it and its window knows how things    *)
(* are, whatever the order of clicks, failures and the window's turns; and *)
(* at rest hub, PC, QR code, settings and phone have one session and one   *)
(* key pair, whatever was refreshed, refused, lost or restarted: proved    *)
(* for any number of them.                                                 *)
(*                                                                         *)
(* The session's invariant speaks of what is on its way: a request for a   *)
(* session that the PC has not got yet (Asking), an answer or event that   *)
(* the QR code (Renewing) or the settings (Saving) wait for.  Its proof    *)
(* puts each action in first-order terms (Effect) and shows of each part   *)
(* of the invariant that every effect preserves it.                        *)
(***************************************************************************)
EXTENDS Desktop, TLAPS

-----------------------------------------------------------------------------
(* The socket: the invariant *)

\* The calls that wait are the first one and those of the user.
CallsCounted == waiting <= 1 + clicks

\* The lock is held while a connection is made; it is the loop's while the loop's attempt
\* is under way, and an orphan's only beside the call that has cancelled its loop.
LockIsRight ==
    /\ lock = "free" <=> sock # "connecting"
    /\ lock = "loop" <=> loop = "connecting"
    /\ lock = "orphan" => waiting > 0

\* The tasks that watch a connection have not reported it yet, and a connection without
\* them is about to be replaced.
Watched ==
    /\ reader # "none" => sock \in {"open", "broken"} /\ ~handled
    /\ sock = "open" /\ reader = "none" => waiting > 0

\* A loop that is about to return has made a connection that nothing is reported of yet.
FinishesWell == Socket!Spared({"finishing"}) /\ loop = "finishing" => ~handled

\* A program that was started without a network or a URL has not done anything yet.
NotStarted ==
    "unstarted" \in sockMishaps =>
        /\ sock = "none" /\ reader = "none" /\ ~handled
        /\ lock = "free" /\ waiting = 0 /\ loop = "none"
        /\ sockEvents = <<>> /\ ~sockShown

\* SomebodyConnects, without counting on a loop that is about to return.
SomebodyElse ==
    Socket!Spared({"twice", "finishing", "unstarted"}) =>
        \/ sock = "open" \/ lock # "free" \/ waiting > 0
        \/ loop \in {"delay", "waiting", "connecting"}
        \/ sock = "broken" /\ reader # "none"

\* A call and a loop do not run side by side.
NoCrossing ==
    Socket!Spared({"crossed"}) =>
        /\ waiting > 0 \/ lock \in {"user", "orphan"} => loop = "none"
        /\ loop \in {"delay", "waiting", "connecting"} => handled

\* What the window will have heard last.
LastHeard == IF sockEvents = <<>> THEN sockShown ELSE sockEvents[Len(sockEvents)]

\* The window is told of every connection, and of what is reported.
Told ==
    /\ sock = "open" => LastHeard
    /\ handled => ~LastHeard
    /\ Socket!Spared({"crossed", "unstarted"}) /\ sock = "none" /\ waiting = 0 => handled

ServiceInv ==
    /\ Socket!TypeOK /\ CallsCounted /\ LockIsRight /\ Watched /\ FinishesWell /\ NotStarted
    /\ SomebodyElse /\ NoCrossing /\ Told /\ Socket!LoopSparesConnections

LEMMA ServiceInit == ASSUME Socket!Init PROVE ServiceInv
<1> USE DesktopAssumption
<1>1. Socket!TypeOK /\ CallsCounted
  <2>1. sockEvents \in Seq(BOOLEAN)
    BY DEF Socket!Init
  <2>2. waiting \in 0..(1 + MaxClicks) /\ fails \in 0..MaxFails /\ clicks \in 0..MaxClicks
    BY DEF Socket!Init
  <2>3. handled \in BOOLEAN /\ sockShown \in BOOLEAN /\ online \in BOOLEAN
    BY DEF Socket!Init
  <2>4. /\ sock = "none" /\ reader = "none" /\ lock = "free" /\ loop = "none"
        /\ sockMishaps \subseteq Socket!Mishaps /\ waiting <= 1 /\ clicks = 0
    BY DEF Socket!Init, Socket!Mishaps
  <2>5. button \in BOOLEAN
    BY DEF Socket!Init
  <2> QED
    BY <2>1, <2>2, <2>3, <2>4, <2>5 DEF Socket!TypeOK, CallsCounted
<1>2. LockIsRight /\ Watched /\ FinishesWell /\ NotStarted /\ SomebodyElse /\ NoCrossing
      /\ Socket!LoopSparesConnections
  BY DEF Socket!Init, LockIsRight, Watched, FinishesWell, NotStarted, SomebodyElse,
         NoCrossing, Socket!LoopSparesConnections, Socket!Spared
<1>3. Told
  BY DEF Socket!Init, Told, LastHeard, Socket!Spared
<1> QED
  BY <1>1, <1>2, <1>3 DEF ServiceInv

-----------------------------------------------------------------------------
(* The socket: what the window hears *)

LEMMA HeardLast ==
    ASSUME sockEvents \in Seq(BOOLEAN), NEW b \in BOOLEAN, sockEvents' = Append(sockEvents, b)
    PROVE  LastHeard' = b /\ sockEvents' \in Seq(BOOLEAN)
<1>1. /\ sockEvents' # <<>> /\ sockEvents' \in Seq(BOOLEAN)
      /\ sockEvents'[Len(sockEvents')] = b
  OBVIOUS
<1> QED
  BY <1>1, Zenon DEF LastHeard

LEMMA NothingNew ==
    ASSUME UNCHANGED <<sockEvents, sockShown>> PROVE LastHeard' = LastHeard
BY DEF LastHeard

\* The window's turn takes the oldest event and leaves the last one, or shows it.
LEMMA HeardNext ==
    ASSUME Socket!TypeOK, Socket!WindowHears
    PROVE  LastHeard' = LastHeard /\ sockEvents' \in Seq(BOOLEAN) /\ sockShown' \in BOOLEAN
<1>1. /\ sockEvents \in Seq(BOOLEAN) /\ sockEvents # <<>> /\ sockEvents' = Tail(sockEvents)
      /\ sockShown' = Head(sockEvents)
  BY DEF Socket!TypeOK, Socket!WindowHears
<1>2. Len(sockEvents) \in Nat \ {0} /\ Len(sockEvents') = Len(sockEvents) - 1
  BY <1>1
<1>3. CASE Len(sockEvents) = 1
  BY <1>1, <1>2, <1>3 DEF LastHeard
<1>4. CASE Len(sockEvents) # 1
  <2>1. Len(sockEvents') # 0 /\ Len(sockEvents') \in 1..Len(sockEvents')
    BY <1>2, <1>4
  <2>2. sockEvents' # <<>>
    BY <2>1
  <2>3. sockEvents'[Len(sockEvents')] = sockEvents[Len(sockEvents') + 1]
    BY <1>1, <1>2, <2>1
  <2> QED
    BY <1>1, <1>2, <2>2, <2>3 DEF LastHeard
<1> QED
  BY <1>3, <1>4

\* What HandleDisconnect does with the loop and the mishaps, and what is heard then.
LEMMA Handled ==
    ASSUME Socket!TypeOK, Socket!HandleDisconnect, UNCHANGED sockShown
    PROVE  /\ handled' /\ handled' \in BOOLEAN /\ sockEvents' \in Seq(BOOLEAN)
           /\ IF handled THEN LastHeard' = LastHeard ELSE ~LastHeard'
           /\ loop' \in {loop, "delay"} /\ (loop # "none" => loop' = loop)
           /\ loop = "none" => loop' = "delay" \/ "twice" \in sockMishaps'
           /\ loop = "finishing" /\ ~handled => "finishing" \in sockMishaps'
           /\ waiting > 0 /\ ~handled => "crossed" \in sockMishaps'
           /\ handled => loop' = loop
           /\ sockMishaps \subseteq sockMishaps' /\ sockMishaps' \subseteq Socket!Mishaps
           /\ "unstarted" \in sockMishaps' => "unstarted" \in sockMishaps
<1>1. IF handled THEN LastHeard' = LastHeard ELSE ~LastHeard'
  <2>1. CASE handled
    BY <2>1, NothingNew DEF Socket!HandleDisconnect
  <2>2. CASE ~handled
    BY <2>2, HeardLast DEF Socket!HandleDisconnect, Socket!TypeOK
  <2> QED
    BY <2>1, <2>2
<1>2. sockEvents' \in Seq(BOOLEAN)
  <2>1. CASE handled
    BY <2>1 DEF Socket!HandleDisconnect, Socket!TypeOK
  <2>2. CASE ~handled
    BY <2>2, HeardLast DEF Socket!HandleDisconnect, Socket!TypeOK
  <2> QED
    BY <2>1, <2>2
<1>3. handled' /\ handled' \in BOOLEAN
  BY DEF Socket!HandleDisconnect
<1>4. /\ loop' \in {loop, "delay"} /\ (loop # "none" => loop' = loop)
      /\ loop = "none" => loop' = "delay" \/ "twice" \in sockMishaps'
      /\ loop = "finishing" /\ ~handled => "finishing" \in sockMishaps'
      /\ waiting > 0 /\ ~handled => "crossed" \in sockMishaps'
      /\ handled => loop' = loop
  BY DEF Socket!HandleDisconnect, Socket!TypeOK
<1>5. /\ sockMishaps \subseteq sockMishaps' /\ sockMishaps' \subseteq Socket!Mishaps
      /\ "unstarted" \in sockMishaps' => "unstarted" \in sockMishaps
  BY DEF Socket!HandleDisconnect, Socket!TypeOK, Socket!Mishaps
<1> QED
  BY <1>1, <1>2, <1>3, <1>4, <1>5

-----------------------------------------------------------------------------
(* The socket: the steps *)

LEMMA ServiceStays == ASSUME ServiceInv, [Socket!Next]_(Socket!vars) PROVE ServiceInv'
<1> USE DesktopAssumption
    DEF CallsCounted, LockIsRight, Watched, FinishesWell, NotStarted, SomebodyElse, NoCrossing, Told,
        Socket!LoopSparesConnections, Socket!Spared, ServiceInv, Socket!TypeOK
<1>1. CASE Socket!Click
  <2>1. Socket!TypeOK' /\ CallsCounted'
    <3>1. waiting' \in 0..(1 + MaxClicks) /\ clicks' \in 0..MaxClicks /\ CallsCounted'
      BY <1>1 DEF Socket!Click
    <3>2. /\ lock' \in {"free", "user", "loop", "orphan"} /\ loop' = "none"
          /\ reader' \in {"none", "user", "loop"} /\ button' = FALSE
      BY <1>1 DEF Socket!Click, Socket!Cancels
    <3> QED
      BY <1>1, <3>1, <3>2 DEF Socket!Click
  <2>2. LockIsRight' /\ Watched'
    BY <1>1 DEF Socket!Click, Socket!Cancels
  <2>3. /\ FinishesWell' /\ NotStarted' /\ SomebodyElse' /\ NoCrossing'
        /\ Socket!LoopSparesConnections'
    BY <1>1 DEF Socket!Click, Socket!Cancels
  <2>4. Told'
    BY <1>1, NothingNew DEF Socket!Click, Socket!Cancels
  <2> QED
    BY <2>1, <2>2, <2>3, <2>4
<1>2. CASE Socket!NetworkChanges
  <2>1. button' \in BOOLEAN /\ online' \in BOOLEAN
    BY <1>2 DEF Socket!NetworkChanges, Socket!Redraw
  <2>2. UNCHANGED <<sock, reader, handled, lock, waiting, loop, sockEvents, sockShown,
                    sockMishaps, fails, clicks>>
    BY <1>2 DEF Socket!NetworkChanges, Socket!netVars, Socket!taskVars
  <2> QED
    BY <2>1, <2>2, NothingNew
<1>3. CASE Socket!Breaks
  BY <1>3, NothingNew DEF Socket!Breaks, Socket!taskVars, Socket!windowVars
<1>4. CASE Socket!Report \/ Socket!Throws
  BY <1>4, Handled DEF Socket!Report, Socket!Throws
<1>5. CASE Socket!UserBegins
  BY <1>5, NothingNew DEF Socket!UserBegins, Socket!Begins, Socket!windowVars
<1>6. CASE Socket!UserConnects
  BY <1>6, HeardLast DEF Socket!UserConnects, Socket!Succeeds, Socket!Redraw
<1>7. CASE Socket!UserFails
  BY <1>7, Handled DEF Socket!UserFails, Socket!Fails, Socket!Redraw
<1>8. CASE Socket!DelayEnds \/ Socket!LoopEnds
  BY <1>8, NothingNew DEF Socket!DelayEnds, Socket!LoopEnds, Socket!netVars, Socket!windowVars
<1>9. CASE Socket!LoopBegins
  BY <1>9, NothingNew DEF Socket!LoopBegins, Socket!Begins, Socket!windowVars
<1>10. CASE Socket!LoopConnects
  BY <1>10, HeardLast DEF Socket!LoopConnects, Socket!Succeeds
<1>11. CASE Socket!LoopFails
  BY <1>11, NothingNew DEF Socket!LoopFails, Socket!Fails, Socket!windowVars
<1>12. CASE Socket!OrphanConnects
  BY <1>12, HeardLast DEF Socket!OrphanConnects, Socket!Succeeds
<1>13. CASE Socket!OrphanEnds
  BY <1>13, NothingNew DEF Socket!OrphanEnds, Socket!windowVars
<1>14. CASE Socket!WindowHears
  BY <1>14, HeardNext DEF Socket!WindowHears, Socket!Redraw, Socket!netVars, Socket!taskVars
<1>15. CASE UNCHANGED Socket!vars
  BY <1>15, NothingNew DEF Socket!vars, Socket!netVars, Socket!taskVars, Socket!windowVars
<1> QED
  BY <1>1, <1>2, <1>3, <1>4, <1>5, <1>6, <1>7, <1>8, <1>9, <1>10, <1>11, <1>12, <1>13,
     <1>14, <1>15 DEF Socket!Next, Socket!User, Socket!Service

-----------------------------------------------------------------------------
\* SocketInv follows: the window is right because it has heard the last there is.
LEMMA ServiceImpliesSocketInv == ServiceInv => SocketInv
BY DEF ServiceInv, SocketInv, Socket!SocketInv, Socket!TypeOK, Socket!SomebodyConnects,
       Socket!Underway, Socket!WindowIsRight, LastHeard, Told, LockIsRight, SomebodyElse,
       Watched, NotStarted, Socket!Spared

\* WebSocketService keeps the PC connected or at it, its window is right at rest, and no
\* loop is left beside a good connection, but for the mishaps that the parts of
\* SocketInv name: whatever the number of clicks and failures.
THEOREM SpecSocketInv == Socket!Spec => []SocketInv
<1>1. Socket!Init => ServiceInv
  BY ServiceInit
<1>2. ServiceInv /\ [Socket!Next]_(Socket!vars) => ServiceInv'
  BY ServiceStays
<1> QED
  BY <1>1, <1>2, ServiceImpliesSocketInv, PTL DEF Socket!Spec

-----------------------------------------------------------------------------
(* The session: the invariant *)

\* The types, in the parts that the proofs need apart
RoomTypes ==
    /\ conn \in 0..MaxConns /\ token \in 0..MaxTokens /\ key \in Nat
    /\ rejoinPending \in BOOLEAN /\ trusted \in BOOLEAN
    /\ keys \in Nat /\ conns \in Nat /\ refreshes \in Nat /\ restarts \in Nat

WindowTypes ==
    /\ events \in Seq({"connected", "disconnected", "created", "recovered", "ready"})
    /\ shown \in BOOLEAN
    /\ qr \in Pairs /\ phone \in Pairs /\ saved \in [session : Pairs, trusted : BOOLEAN]
    /\ mishaps \subseteq Mishaps

HubTypes ==
    /\ created \in 0..MaxTokens /\ live \subseteq Tokens /\ past \subseteq Tokens
    /\ pcOf \in [Tokens -> 0..MaxConns] /\ sessionOf \in [Conns -> 0..MaxTokens]

LinkTypes == toHub \in [Conns -> Seq(Messages)] /\ toPc \in Seq(Messages)

\* The answers on the way to the PC
Creations == {i \in DOMAIN toPc : toPc[i].type = "session_created"}
Refusals == {i \in DOMAIN toPc : toPc[i].type = "error"}

\* The connection asks for its old session.
Rejoining == conn # 0 /\ \E i \in DOMAIN toHub[conn] : toHub[conn][i].type = "rejoin_session"

\* A request for another session, or its answer, is on the way.
Asking ==
    /\ conn # 0
    /\ \/ \E i \in DOMAIN toHub[conn] : toHub[conn][i].type = "create_session"
       \/ Creations # {}

ConnInv ==
    /\ conn <= conns /\ conns <= MaxConns
    /\ conn = 0 => toPc = <<>>
    /\ \A c \in Conns : c > conns => DOMAIN toHub[c] = {} /\ sessionOf[c] = 0

KindInv ==
    /\ \A c \in Conns : \A i \in DOMAIN toHub[c] :
          toHub[c][i].type \in {"create_session", "rejoin_session"}
    /\ \A i \in DOMAIN toPc : toPc[i].type \notin {"create_session", "rejoin_session"}

\* The hub has no connection in a session that it has given to another one.
RegisterInv ==
    /\ live \cup past \subseteq 1..created
    /\ \A c \in Conns : sessionOf[c] # 0 =>
          pcOf[sessionOf[c]] = c /\ sessionOf[c] \in live \cup past

\* A rejoin is the first request of its connection, for the token that the PC still has.
RejoinInv ==
    \A c \in Conns : \A i \in DOMAIN toHub[c] :
        toHub[c][i].type = "rejoin_session" =>
            /\ i = 1 /\ sessionOf[c] = 0
            /\ c = conn => /\ toHub[c][i].token = token /\ token # 0
                           /\ Creations = {} /\ Refusals = {}

\* When all answers are in, the PC has the session that the hub has it in.
AnswerInv ==
    conn # 0 =>
        /\ \A i \in Creations :
              toPc[i].token = sessionOf[conn] \/ \E j \in Creations : j > i
        /\ \A i \in Refusals : sessionOf[conn] = 0 \/ \E j \in Creations : j > i
        /\ ~Rejoining /\ Creations = {} /\ Refusals = {} => token = sessionOf[conn]
        /\ token = 0 => Asking

\* The sessions that are known outside the hub
Known == {token, phone.token, qr.token, saved.session.token}

\* A session that the PC is told of is newer than those that are known.
FreshInv ==
    /\ \A t \in Known : t <= created
    /\ \A i \in Creations : toPc[i].token <= created /\ \A t \in Known : t < toPc[i].token
    /\ \A i, j \in Creations : i < j => toPc[i].token < toPc[j].token

\* The QR code will be drawn.
Renewing ==
    \/ toHub[conn] # <<>>
    \/ \E i \in DOMAIN toPc : toPc[i].type # "handshake_ack"
    \/ {"created", "recovered"} \cap Range(events) # {}

QrInv == conn # 0 => qr = Current \/ Renewing

\* The settings will be saved, or another session is to come.
Saving == Asking \/ "created" \in Range(events)

SavedInv ==
    /\ saved.session.token = 0 => saved.session.key = 0 /\ ~saved.trusted
    /\ Spared({"unanswered"}) =>
          \/ Saving
          \/ /\ saved.session = IF token = 0 THEN NoSession ELSE Current
             /\ saved.trusted = (token # 0 /\ trusted) \/ "ready" \in Range(events)

\* What the phone has scanned are the keys of that session, in the PC and in the settings.
PhoneInv ==
    Spared({"unanswered"}) /\ phone.token # 0 =>
        /\ phone.token = token => phone.key = key \/ Asking
        /\ phone.token = saved.session.token => phone.key = saved.session.key \/ Saving

IInv ==
    /\ RoomTypes /\ WindowTypes /\ HubTypes /\ LinkTypes /\ ConnInv /\ KindInv
    /\ RegisterInv /\ RejoinInv /\ AnswerInv /\ FreshInv /\ QrInv /\ SavedInv /\ PhoneInv

-----------------------------------------------------------------------------
(* The session: sequences *)

\* What the window is told
Kinds == {"connected", "disconnected", "created", "recovered", "ready"}

LEMMA AppendIs ==
  ASSUME NEW S, NEW s \in Seq(S), NEW x \in S, NEW t, t = Append(s, x)
  PROVE  /\ t \in Seq(S) /\ t # <<>> /\ DOMAIN t = 1..Len(s) + 1 /\ DOMAIN s = 1..Len(s)
         /\ Len(s) \in Nat /\ t[Len(s) + 1] = x
         /\ \A i \in DOMAIN s : t[i] = s[i]
OBVIOUS

LEMMA TailIs ==
  ASSUME NEW S, NEW s \in Seq(S), s # <<>>, NEW t, t = Tail(s)
  PROVE  /\ t \in Seq(S) /\ 1 \in DOMAIN s /\ Head(s) = s[1] /\ s[1] \in S
         /\ DOMAIN s \subseteq Nat \ {0} /\ DOMAIN t \subseteq Nat \ {0}
         /\ \A i \in DOMAIN t : i + 1 \in DOMAIN s /\ t[i] = s[i + 1]
         /\ \A i \in DOMAIN s : i # 1 => i - 1 \in DOMAIN t /\ t[i - 1] = s[i]
<1>1. Len(s) \in Nat \ {0} /\ t \in Seq(S) /\ Len(t) = Len(s) - 1
  OBVIOUS
<1>2. DOMAIN s = 1..Len(s) /\ DOMAIN t = 1..Len(s) - 1
  BY <1>1
<1>3. \A i \in DOMAIN t : t[i] = s[i + 1]
  BY <1>1, <1>2
<1> QED
  BY <1>1, <1>2, <1>3

LEMMA CutIs ==
  ASSUME NEW S, NEW s \in Seq(S), NEW n \in 0..Len(s), NEW t, t = SubSeq(s, 1, n)
  PROVE  /\ t \in Seq(S) /\ DOMAIN t \subseteq DOMAIN s
         /\ \A i \in DOMAIN t : t[i] = s[i]
OBVIOUS

LEMMA ConcatIs ==
  ASSUME NEW S, NEW s \in Seq(S), NEW t \in Seq(S), NEW u, u = s \o t
  PROVE  /\ u \in Seq(S) /\ Len(s) \in Nat /\ DOMAIN s = 1..Len(s)
         /\ \A i \in DOMAIN u : \/ i \in DOMAIN s /\ u[i] = s[i]
                                \/ i - Len(s) \in DOMAIN t /\ u[i] = t[i - Len(s)]
         /\ \A i \in DOMAIN s : i \in DOMAIN u /\ u[i] = s[i]
         /\ \A i \in DOMAIN t : i + Len(s) \in DOMAIN u /\ u[i + Len(s)] = t[i]
<1>1. u \in Seq(S) /\ Len(s) \in Nat /\ Len(t) \in Nat /\ Len(u) = Len(s) + Len(t)
  OBVIOUS
<1>2. DOMAIN u = 1..Len(s) + Len(t) /\ DOMAIN s = 1..Len(s) /\ DOMAIN t = 1..Len(t)
  BY <1>1
<1>3. \A i \in 1..Len(s) + Len(t) : u[i] = IF i <= Len(s) THEN s[i] ELSE t[i - Len(s)]
  OBVIOUS
<1> QED
  BY <1>1, <1>2, <1>3

\* An answer is put at the end.
LEMMA OneMore ==
  ASSUME NEW S, NEW s \in Seq(S), NEW x \in S PROVE s \o <<x>> = Append(s, x)
OBVIOUS

\* What Loses asks for
LEMMA OutstandingIs ==
  ASSUME TypeOK, KindInv PROVE Outstanding <=> Asking
<1>1. CASE conn = 0
  BY <1>1 DEF Outstanding, Asking
<1>2. CASE conn # 0
  <2> DEFINE w == toHub[conn] \o toPc
  <2>1. conn \in Conns /\ toHub[conn] \in Seq(Messages) /\ toPc \in Seq(Messages)
    BY <1>2 DEF TypeOK, Conns
  <2>2. PICK u : u = w
    OBVIOUS
  <2>3. /\ u \in Seq(Messages) /\ Len(toHub[conn]) \in Nat
        /\ DOMAIN toHub[conn] = 1..Len(toHub[conn])
        /\ \A i \in DOMAIN u :
              \/ i \in DOMAIN toHub[conn] /\ u[i] = toHub[conn][i]
              \/ /\ i - Len(toHub[conn]) \in DOMAIN toPc
                 /\ u[i] = toPc[i - Len(toHub[conn])]
        /\ \A i \in DOMAIN toHub[conn] : i \in DOMAIN u /\ u[i] = toHub[conn][i]
        /\ \A i \in DOMAIN toPc : /\ i + Len(toHub[conn]) \in DOMAIN u
                                  /\ u[i + Len(toHub[conn])] = toPc[i]
    BY <2>1, <2>2, ConcatIs
  <2>4. /\ \A i \in DOMAIN toHub[conn] : toHub[conn][i].type # "session_created"
        /\ \A i \in DOMAIN toPc : toPc[i].type # "create_session"
    BY <2>1 DEF KindInv
  <2>5. Outstanding <=>
            \E i \in DOMAIN u : u[i].type \in {"create_session", "session_created"}
    BY <1>2, <2>2 DEF Outstanding, Range
  <2> QED
    BY <1>2, <2>3, <2>4, <2>5 DEF Asking, Creations
<1> QED
  BY <1>1, <1>2

LEMMA TypeParts == TypeOK <=> RoomTypes /\ WindowTypes /\ HubTypes /\ LinkTypes
BY DEF TypeOK, RoomTypes, WindowTypes, HubTypes, LinkTypes

LEMMA TypePartsNext ==
  RoomTypes' /\ WindowTypes' /\ HubTypes' /\ LinkTypes' => TypeOK'
BY DEF TypeOK, RoomTypes, WindowTypes, HubTypes, LinkTypes

LEMMA UpdateIs ==
  ASSUME NEW D, NEW R, NEW f \in [D -> R], NEW d \in D, NEW r \in R,
         NEW g, g = [f EXCEPT ![d] = r]
  PROVE  g \in [D -> R] /\ g[d] = r /\ \A e \in D : e # d => g[e] = f[e]
OBVIOUS

-----------------------------------------------------------------------------
(* The session: what the steps do *)

\* The connection goes, with what the hub has not got.
Gone ==
    /\ conn' = 0 /\ toPc' = <<>>
    /\ toHub' \in [Conns -> Seq(Messages)]
    /\ \A c \in Conns : /\ DOMAIN toHub'[c] \subseteq DOMAIN toHub[c]
                        /\ \A i \in DOMAIN toHub'[c] : toHub'[c][i] = toHub[c][i]

LEMMA CutsIs == ASSUME TypeOK, NEW n \in Nat, Cut(n) PROVE Gone
<1>a. toHub \in [Conns -> Seq(Messages)] /\ conn \in 0..MaxConns
  BY DEF TypeOK
<1> USE DEF Gone
<1>1. CASE conn = 0
  BY <1>a, <1>1 DEF Cut
<1>2. CASE conn # 0
  <2>a. conn \in Conns
    BY <1>a, <1>2 DEF Conns
  <2>b. toHub[conn] \in Seq(Messages)
    BY <1>a, <2>a
  <2>c. n <= Len(toHub[conn])
    BY <1>2 DEF Cut
  <2>1. conn \in Conns /\ toHub[conn] \in Seq(Messages) /\ n \in 0..Len(toHub[conn])
    BY <2>a, <2>b, <2>c
  <2>2. PICK t : t = SubSeq(toHub[conn], 1, n)
    OBVIOUS
  <2>3. /\ t \in Seq(Messages) /\ DOMAIN t \subseteq DOMAIN toHub[conn]
        /\ \A i \in DOMAIN t : t[i] = toHub[conn][i]
    BY <2>1, <2>2, CutIs
  <2>4. toHub' = [toHub EXCEPT ![conn] = t] /\ conn' = 0 /\ toPc' = <<>>
    BY <1>2, <2>2 DEF Cut
  <2>5. toHub'[conn] = t /\ \A c \in Conns : c # conn => toHub'[c] = toHub[c]
    BY <1>a, <2>1, <2>4
  <2>6. toHub' \in [Conns -> Seq(Messages)]
    BY <1>a, <2>1, <2>3, <2>4
  <2> QED
    BY <2>3, <2>4, <2>5, <2>6
<1> QED
  BY <1>1, <1>2

\* The first request of c is read.
Taken(c) ==
    /\ toHub' \in [Conns -> Seq(Messages)]
    /\ toHub[c] \in Seq(Messages) /\ toHub[c] # <<>>
    /\ 1 \in DOMAIN toHub[c] /\ Head(toHub[c]) = toHub[c][1] /\ toHub[c][1] \in Messages
    /\ DOMAIN toHub[c] \subseteq Nat \ {0} /\ DOMAIN toHub'[c] \subseteq Nat \ {0}
    /\ \A i \in DOMAIN toHub'[c] :
          i + 1 \in DOMAIN toHub[c] /\ toHub'[c][i] = toHub[c][i + 1]
    /\ \A i \in DOMAIN toHub[c] : i # 1 =>
          i - 1 \in DOMAIN toHub'[c] /\ toHub'[c][i - 1] = toHub[c][i]
    /\ \A d \in Conns : d # c => toHub'[d] = toHub[d]

LEMMA ReadsIs ==
  ASSUME TypeOK, NEW c \in Conns, NEW type, Reads(c, type)
  PROVE  Taken(c) /\ toHub[c][1].type = type
<1>1. toHub[c] \in Seq(Messages) /\ toHub[c] # <<>>
  BY DEF TypeOK, Reads
<1>2. PICK t : t = Tail(toHub[c])
  OBVIOUS
<1>3. /\ t \in Seq(Messages) /\ 1 \in DOMAIN toHub[c] /\ Head(toHub[c]) = toHub[c][1]
      /\ toHub[c][1] \in Messages
      /\ DOMAIN toHub[c] \subseteq Nat \ {0} /\ DOMAIN t \subseteq Nat \ {0}
      /\ \A i \in DOMAIN t : i + 1 \in DOMAIN toHub[c] /\ t[i] = toHub[c][i + 1]
      /\ \A i \in DOMAIN toHub[c] : i # 1 => i - 1 \in DOMAIN t /\ t[i - 1] = toHub[c][i]
  BY <1>1, <1>2, TailIs
<1>4. toHub' = [toHub EXCEPT ![c] = t] /\ Head(toHub[c]).type = type
  BY <1>2 DEF Reads
<1>5. toHub \in [Conns -> Seq(Messages)]
  BY DEF TypeOK
<1>6. toHub'[c] = t /\ \A d \in Conns : d # c => toHub'[d] = toHub[d]
  BY <1>4, <1>5
<1>7. toHub' \in [Conns -> Seq(Messages)]
  BY <1>3, <1>4, <1>5
<1> QED
  BY <1>1, <1>3, <1>4, <1>6, <1>7 DEF Taken

\* An answer to the PC is on the way.
Answered(m) ==
    /\ toPc' \in Seq(Messages) /\ toPc' # <<>>
    /\ Len(toPc) \in Nat /\ DOMAIN toPc = 1..Len(toPc)
    /\ DOMAIN toPc' = 1..Len(toPc) + 1 /\ toPc'[Len(toPc) + 1] = m
    /\ \A i \in DOMAIN toPc : toPc'[i] = toPc[i]

LEMMA AnswerIs ==
  ASSUME TypeOK, NEW c \in Conns, NEW m \in Messages, Answer(c, <<m>>)
  PROVE  IF c = conn THEN Answered(m) ELSE toPc' = toPc
<1>1. CASE c = conn
  <2>1. toPc \in Seq(Messages)
    BY DEF TypeOK
  <2>2. toPc' = Append(toPc, m)
    BY <1>1, <2>1, OneMore DEF Answer
  <2> QED
    BY <1>1, <2>1, <2>2, AppendIs DEF Answered
<1>2. CASE c # conn
  BY <1>2 DEF Answer
<1> QED
  BY <1>1, <1>2

\* The PC takes an answer.
LEMMA ReceivesIs ==
  ASSUME TypeOK, NEW type, Receives(type)
  PROVE  /\ toPc' \in Seq(Messages) /\ toPc # <<>>
         /\ 1 \in DOMAIN toPc /\ Head(toPc) = toPc[1] /\ toPc[1] \in Messages
         /\ toPc[1].type = type
         /\ DOMAIN toPc \subseteq Nat \ {0} /\ DOMAIN toPc' \subseteq Nat \ {0}
         /\ \A i \in DOMAIN toPc' : i + 1 \in DOMAIN toPc /\ toPc'[i] = toPc[i + 1]
         /\ \A i \in DOMAIN toPc : i # 1 => i - 1 \in DOMAIN toPc' /\ toPc'[i - 1] = toPc[i]
<1>1. toPc \in Seq(Messages) /\ toPc # <<>> /\ toPc' = Tail(toPc) /\ Head(toPc).type = type
  BY DEF TypeOK, Receives
<1> QED
  BY <1>1, TailIs

\* The connection asks for another session.
Asks ==
    /\ toHub' \in [Conns -> Seq(Messages)] /\ conn' = conn /\ conn \in Conns
    /\ Len(toHub[conn]) \in Nat /\ DOMAIN toHub[conn] = 1..Len(toHub[conn])
    /\ DOMAIN toHub'[conn] = 1..Len(toHub[conn]) + 1 /\ toHub'[conn] # <<>>
    /\ toHub'[conn][Len(toHub[conn]) + 1].type = "create_session"
    /\ \A i \in DOMAIN toHub[conn] : toHub'[conn][i] = toHub[conn][i]
    /\ \A c \in Conns : c # conn => toHub'[c] = toHub[c]

LEMMA AsksIs ==
  ASSUME TypeOK, conn # 0, conn' = conn,
         toHub' = [toHub EXCEPT ![conn] = Append(@, Request("create_session", 0))]
  PROVE  Asks
<1>1. conn \in Conns /\ toHub[conn] \in Seq(Messages) /\ toHub \in [Conns -> Seq(Messages)]
  <2>1. conn \in Conns
    BY DEF TypeOK, Conns
  <2>2. toHub \in [Conns -> Seq(Messages)]
    BY DEF TypeOK
  <2> QED
    BY <2>1, <2>2
<1>2. PICK m : m = Request("create_session", 0)
  OBVIOUS
<1>3. m \in Messages /\ m.type = "create_session"
  BY <1>2 DEF Request, Messages
<1>4. PICK t : t = Append(toHub[conn], m)
  OBVIOUS
<1>5. /\ t \in Seq(Messages) /\ t # <<>> /\ DOMAIN t = 1..Len(toHub[conn]) + 1
      /\ DOMAIN toHub[conn] = 1..Len(toHub[conn]) /\ Len(toHub[conn]) \in Nat
      /\ t[Len(toHub[conn]) + 1] = m /\ \A i \in DOMAIN toHub[conn] : t[i] = toHub[conn][i]
  BY <1>1, <1>3, <1>4, AppendIs
<1>6. toHub' = [toHub EXCEPT ![conn] = t]
  BY <1>2, <1>4
<1>7. toHub'[conn] = t /\ \A c \in Conns : c # conn => toHub'[c] = toHub[c]
  BY <1>1, <1>6
<1>8. toHub' \in [Conns -> Seq(Messages)]
  BY <1>1, <1>5, <1>6
<1> QED
  BY <1>1, <1>3, <1>5, <1>7, <1>8 DEF Asks

\* Something is told to the window.
LEMMA RaisesIs ==
  ASSUME TypeOK, NEW e \in Kinds, events' = Append(events, e)
  PROVE  events' \in Seq(Kinds) /\ Range(events') = Range(events) \cup {e}
<1>1. events \in Seq(Kinds)
  BY DEF TypeOK, Kinds
<1>2. /\ events' \in Seq(Kinds) /\ events' # <<>> /\ DOMAIN events' = 1..Len(events) + 1
      /\ DOMAIN events = 1..Len(events) /\ Len(events) \in Nat
      /\ events'[Len(events) + 1] = e /\ \A i \in DOMAIN events : events'[i] = events[i]
  BY <1>1, AppendIs
<1>3. Len(events) + 1 \in DOMAIN events' /\ DOMAIN events \subseteq DOMAIN events'
  BY <1>2
<1>4. \A i \in DOMAIN events' : i \in DOMAIN events \/ i = Len(events) + 1
  BY <1>2
<1> QED
  BY <1>2, <1>3, <1>4 DEF Range

\* The window hears of something.
LEMMA WindowIs ==
  ASSUME TypeOK, NEW e, Window(e)
  PROVE  /\ events' \in Seq(Kinds)
         /\ Range(events') \subseteq Range(events)
         /\ Range(events) \subseteq Range(events') \cup {e}
<1>1. events \in Seq(Kinds) /\ events # <<>> /\ events' = Tail(events) /\ Head(events) = e
  BY DEF TypeOK, Kinds, Window
<1>2. /\ events' \in Seq(Kinds) /\ events[1] = e
      /\ \A i \in DOMAIN events' : i + 1 \in DOMAIN events /\ events'[i] = events[i + 1]
      /\ \A i \in DOMAIN events : i # 1 =>
            i - 1 \in DOMAIN events' /\ events'[i - 1] = events[i]
  BY <1>1, TailIs
<1> QED
  BY <1>2 DEF Range

LEMMA Bounds ==
  /\ MaxTokens \in Nat /\ MaxConns \in Nat /\ MaxRefresh \in Nat
  /\ Tokens = 1..MaxTokens /\ Conns = 1..MaxConns
BY DesktopSessionAssumption DEF Tokens, Conns

LEMMA OpensTypes == ASSUME IInv, Opens PROVE TypeOK'
<1> USE Bounds DEF IInv
<1>1. conns' \in Nat /\ conn' = conns + 1 /\ conn' \in Conns /\ conn' \in 0..MaxConns
  BY DEF Opens, RoomTypes
<1>2. PICK m : m = IF token # 0 THEN Request("rejoin_session", token)
                                 ELSE Request("create_session", 0)
  OBVIOUS
<1>3. m \in Messages
  BY <1>2 DEF Messages, Request, RoomTypes
<1>4. toHub' = [toHub EXCEPT ![conn'] = <<m>>]
  BY <1>2 DEF Opens
<1>5. <<m>> \in Seq(Messages)
  BY <1>3
<1>6. LinkTypes'
  BY <1>1, <1>4, <1>5 DEF LinkTypes, Opens
<1>7. events' \in Seq(Kinds)
  BY TypeParts, RaisesIs DEF Opens, Kinds
<1>8. RoomTypes'
  BY <1>1 DEF Opens, RoomTypes
<1>9. WindowTypes'
  BY <1>7 DEF Opens, WindowTypes, Kinds
<1>10. HubTypes'
  BY DEF Opens, HubTypes, hubVars
<1> QED
  BY <1>6, <1>8, <1>9, <1>10, TypePartsNext

LEMMA ReadsTypes ==
  ASSUME IInv, NEW c \in Conns, NEW type, Reads(c, type), LinkTypes', HubTypes' PROVE TypeOK'
<1> USE DEF IInv
<1>1. RoomTypes'
  BY DEF RoomTypes, Reads, roomVars, countVars
<1>2. WindowTypes'
  BY DEF WindowTypes, Reads, windowVars
<1> QED
  BY <1>1, <1>2, TypePartsNext

LEMMA HubTypesStay == ASSUME IInv, Hub PROVE TypeOK'
<1> USE Bounds, TypeParts DEF IInv
<1> PICK c \in Conns :
      CreateSession(c) \/ RejoinSession(c) \/ RefuseRejoin(c) \/ Unregister(c)
  BY DEF Hub
<1>0. /\ pcOf \in [Tokens -> 0..MaxConns] /\ sessionOf \in [Conns -> 0..MaxTokens]
      /\ c \in 0..MaxConns
  BY DEF HubTypes
<1>1. CASE CreateSession(c)
  <2>1. Reads(c, "create_session")
    BY <1>1 DEF CreateSession
  <2>2. created' \in Tokens /\ created' \in 0..MaxTokens
    BY <1>1 DEF CreateSession, HubTypes
  <2>3. PICK m : m = Request("session_created", created')
    OBVIOUS
  <2>4. m \in Messages /\ Answer(c, <<m>>)
    BY <1>1, <2>2, <2>3 DEF Request, Messages, CreateSession
  <2>5. LinkTypes'
    BY <2>1, <2>4, ReadsIs, AnswerIs DEF Answered, LinkTypes, Taken
  <2>6. pcOf' \in [Tokens -> 0..MaxConns]
    BY <1>0, <1>1, <2>2, UpdateIs DEF CreateSession
  <2>7. sessionOf' \in [Conns -> 0..MaxTokens]
    BY <1>0, <1>1, <2>2, UpdateIs DEF CreateSession
  <2>8. HubTypes'
    BY <1>1, <2>2, <2>6, <2>7 DEF CreateSession, Reads, HubTypes
  <2> QED
    BY <2>1, <2>5, <2>8, ReadsTypes
<1>2. CASE RejoinSession(c)
  <2>1. Reads(c, "rejoin_session")
    BY <1>2 DEF RejoinSession
  <2>2. toHub' \in [Conns -> Seq(Messages)] /\ Head(toHub[c]) \in Messages
    BY <2>1, ReadsIs DEF Taken
  <2>3. PICK t : t = Head(toHub[c]).token
    OBVIOUS
  <2>4. t \in Tokens /\ t \in Nat /\ t \in 0..MaxTokens
    <3>1. t \in live
      BY <1>2, <2>3 DEF RejoinSession, Rejoinable
    <3>2. t \in Tokens
      BY <3>1 DEF HubTypes
    <3> QED
      BY <3>2
  <2>5. PICK m : m = Request("rejoined", t)
    OBVIOUS
  <2>6. m \in Messages /\ Answer(c, <<m>>)
    BY <1>2, <2>3, <2>4, <2>5 DEF Request, Messages, RejoinSession
  <2>7. LinkTypes'
    BY <2>2, <2>6, AnswerIs DEF Answered, LinkTypes
  <2>8. pcOf' \in [Tokens -> 0..MaxConns]
    BY <1>0, <1>2, <2>3, <2>4, UpdateIs DEF RejoinSession
  <2>9. sessionOf' \in [Conns -> 0..MaxTokens]
    BY <1>0, <1>2, <2>3, <2>4, UpdateIs DEF RejoinSession
  <2>10. HubTypes'
    BY <1>2, <2>8, <2>9 DEF RejoinSession, Reads, HubTypes
  <2> QED
    BY <2>1, <2>7, <2>10, ReadsTypes
<1>3. CASE RefuseRejoin(c)
  <2>1. Reads(c, "rejoin_session")
    BY <1>3 DEF RefuseRejoin
  <2>2. toHub' \in [Conns -> Seq(Messages)] /\ Head(toHub[c]) \in Messages
    BY <2>1, ReadsIs DEF Taken
  <2>3. PICK m : m = Request("error", Head(toHub[c]).token)
    OBVIOUS
  <2>4. m \in Messages /\ Answer(c, <<m>>)
    BY <1>3, <2>2, <2>3 DEF Request, Messages, RefuseRejoin
  <2>5. LinkTypes'
    BY <2>2, <2>4, AnswerIs DEF Answered, LinkTypes
  <2>6. HubTypes'
    BY <1>3 DEF RefuseRejoin, Reads, HubTypes
  <2> QED
    BY <2>1, <2>5, <2>6, ReadsTypes
<1>4. CASE Unregister(c)
  <2>1. sessionOf[c] \in Tokens /\ 0 \in 0..MaxConns /\ 0 \in 0..MaxTokens
    BY <1>4 DEF Unregister, HubTypes
  <2>2. pcOf' \in [Tokens -> 0..MaxConns]
    BY <1>0, <1>4, <2>1, UpdateIs DEF Unregister
  <2>3. sessionOf' \in [Conns -> 0..MaxTokens]
    BY <1>0, <1>4, <2>1, UpdateIs DEF Unregister
  <2>4. HubTypes'
    BY <1>4, <2>2, <2>3 DEF HubTypes, Unregister
  <2>5. RoomTypes' /\ LinkTypes'
    BY <1>4 DEF Unregister, RoomTypes, LinkTypes, roomVars, countVars
  <2>6. WindowTypes'
    BY <1>4 DEF Unregister, WindowTypes, windowVars
  <2> QED
    BY <2>4, <2>5, <2>6, TypePartsNext
<1> QED
  BY <1>1, <1>2, <1>3, <1>4

LEMMA ReceivesTypes ==
  ASSUME IInv, NEW type, Receives(type), key' = key,
         token' \in 0..MaxTokens, trusted' \in BOOLEAN, rejoinPending' \in BOOLEAN,
         events' \in Seq(Kinds), toHub' \in [Conns -> Seq(Messages)]
  PROVE  TypeOK'
<1> USE DEF IInv
<1>1. RoomTypes'
  BY DEF RoomTypes, Receives, countVars
<1>2. WindowTypes'
  BY DEF WindowTypes, Receives, Kinds
<1>3. HubTypes'
  BY DEF HubTypes, Receives, hubVars
<1>4. toPc' \in Seq(Messages)
  BY ReceivesIs, TypeParts
<1> QED
  BY <1>1, <1>2, <1>3, <1>4, TypePartsNext DEF LinkTypes

LEMMA MessageTypes == ASSUME IInv, HandleMessage PROVE TypeOK'
<1> USE Bounds, TypeParts DEF IInv
<1>0. /\ events \in Seq(Kinds) /\ toHub \in [Conns -> Seq(Messages)]
      /\ trusted \in BOOLEAN /\ token \in 0..MaxTokens /\ rejoinPending \in BOOLEAN
  BY DEF WindowTypes, LinkTypes, RoomTypes, Kinds
<1>1. CASE SessionCreated
  <2>1. Receives("session_created") /\ 1 \in Creations /\ Head(toPc) = toPc[1]
        /\ toPc[1] \in Messages
    BY <1>1, ReceivesIs DEF SessionCreated, Creations
  <2>2. token' \in Nat /\ token' <= created
    BY <1>1, <2>1 DEF SessionCreated, FreshInv, Messages
  <2>3. token' \in 0..MaxTokens
    BY <2>2 DEF HubTypes
  <2>4. events' \in Seq(Kinds)
    BY <1>1, RaisesIs DEF SessionCreated, Kinds
  <2> QED
    BY <1>0, <1>1, <2>1, <2>3, <2>4, ReceivesTypes DEF SessionCreated
<1>2. CASE Rejoined
  <2>1. events' \in Seq(Kinds)
    BY <1>2, RaisesIs DEF Rejoined, Kinds
  <2> QED
    BY <1>0, <1>2, <2>1, ReceivesTypes DEF Rejoined
<1>3. CASE OnError
  <2>1. conn # 0 /\ conn' = conn
    BY <1>3 DEF OnError, Receives, ConnInv
  <2>2. toHub' \in [Conns -> Seq(Messages)]
    BY <1>3, <2>1, AsksIs DEF OnError, Asks
  <2>3. /\ Receives("error") /\ key' = key /\ events' = events
        /\ token' = 0 /\ trusted' = FALSE /\ rejoinPending' = FALSE
    BY <1>3 DEF OnError
  <2>4. events' \in Seq(Kinds) /\ token' \in 0..MaxTokens
    BY <1>0, <2>3
  <2> QED
    BY <2>2, <2>3, <2>4, ReceivesTypes
<1>4. CASE Confirmed
  <2>1. events' \in Seq(Kinds)
    BY <1>0, <1>4, RaisesIs DEF Confirmed, Kinds
  <2> QED
    BY <1>0, <1>4, <2>1, ReceivesTypes DEF Confirmed
<1> QED
  BY <1>1, <1>2, <1>3, <1>4 DEF HandleMessage

LEMMA WindowKinds ==
  ASSUME IInv, NEW e, Window(e), shown' \in BOOLEAN, qr' \in Pairs,
         saved' \in [session : Pairs, trusted : BOOLEAN]
  PROVE  TypeOK'
<1> USE DEF IInv
<1>1. RoomTypes'
  BY DEF Window, RoomTypes, roomVars, countVars
<1>2. HubTypes' /\ LinkTypes'
  BY DEF Window, HubTypes, LinkTypes, hubVars
<1>3. events' \in Seq(Kinds)
  BY WindowIs, TypeParts
<1>4. WindowTypes'
  BY <1>3 DEF WindowTypes, Window, Kinds
<1> QED
  BY <1>1, <1>2, <1>4, TypePartsNext

LEMMA CurrentIs == ASSUME RoomTypes PROVE Current \in Pairs /\ NoSession \in Pairs
BY Bounds DEF RoomTypes, Current, NoSession, Pairs

\* What is saved
LEMMA PersistIs ==
  ASSUME RoomTypes, PersistSettings
  PROVE  /\ saved' \in [session : Pairs, trusted : BOOLEAN]
         /\ token = 0 => saved'.session = NoSession /\ saved'.trusted = FALSE
         /\ token # 0 => saved'.session = Current /\ saved'.trusted = trusted
<1>1. Current \in Pairs /\ NoSession \in Pairs
  BY CurrentIs
<1>2. trusted \in BOOLEAN
  BY DEF RoomTypes
<1>3. ASSUME NEW p \in Pairs, NEW b \in BOOLEAN, NEW r, r = [session |-> p, trusted |-> b]
      PROVE  /\ r \in [session : Pairs, trusted : BOOLEAN]
             /\ r.session = p /\ r.trusted = b
  BY <1>3
<1>4. CASE token = 0
  <2>1. saved' = [session |-> NoSession, trusted |-> FALSE]
    BY <1>4 DEF PersistSettings
  <2>2. NoSession \in Pairs /\ FALSE \in BOOLEAN
    BY <1>1
  <2> QED
    BY <1>3, <1>4, <2>1, <2>2, Zenon
<1>5. CASE token # 0
  <2>1. saved' = [session |-> Current, trusted |-> trusted]
    BY <1>5 DEF PersistSettings
  <2>2. Current \in Pairs
    BY <1>1
  <2> QED
    BY <1>2, <1>3, <1>5, <2>1, <2>2, Zenon
<1> QED
  BY <1>4, <1>5

LEMMA DispatcherTypes == ASSUME IInv, Dispatcher PROVE TypeOK'
<1> USE Bounds DEF IInv
<1>0. /\ shown \in BOOLEAN /\ qr \in Pairs /\ saved \in [session : Pairs, trusted : BOOLEAN]
      /\ Current \in Pairs /\ NoSession \in Pairs
  BY CurrentIs DEF WindowTypes
<1>1. CASE OnServerConnectionChanged
  <2>1. shown' \in BOOLEAN /\ qr' = qr /\ saved' = saved
    BY <1>1 DEF OnServerConnectionChanged
  <2>2. Window("connected") \/ Window("disconnected")
    BY <1>1 DEF OnServerConnectionChanged
  <2> QED
    BY <1>0, <2>1, <2>2, WindowKinds
<1>2. CASE OnSessionCreated
  <2>1. shown' \in BOOLEAN /\ qr' \in Pairs
    BY <1>0, <1>2 DEF OnSessionCreated, UpdateQRCode
  <2>2. Window("created") /\ saved' \in [session : Pairs, trusted : BOOLEAN]
    BY <1>2, PersistIs DEF OnSessionCreated
  <2> QED
    BY <2>1, <2>2, WindowKinds
<1>3. CASE OnSessionRecovered
  <2>1. /\ shown' \in BOOLEAN /\ qr' \in Pairs /\ saved' = saved
        /\ Window("recovered")
    BY <1>0, <1>3 DEF OnSessionRecovered, UpdateQRCode
  <2> QED
    BY <1>0, <2>1, WindowKinds
<1>4. CASE OnEncryptionReady
  <2>1. shown' \in BOOLEAN /\ qr' = qr /\ Window("ready")
    BY <1>0, <1>4 DEF OnEncryptionReady
  <2>2. saved' \in [session : Pairs, trusted : BOOLEAN]
    BY <1>4, PersistIs DEF OnEncryptionReady
  <2> QED
    BY <1>0, <2>1, <2>2, WindowKinds
<1> QED
  BY <1>1, <1>2, <1>3, <1>4 DEF Dispatcher

LEMMA LosesIs ==
  ASSUME RoomTypes, WindowTypes, NEW replacement, Loses(replacement)
  PROVE  /\ mishaps' \subseteq Mishaps /\ mishaps \subseteq mishaps'
         /\ Spared({"unanswered"})' => Spared({"unanswered"})
         /\ replacement /\ Spared({"unanswered"})' => token = 0 /\ saved.session.token = 0
<1>1. mishaps' \subseteq Mishaps /\ mishaps \subseteq mishaps'
  BY DEF Loses, Mishaps, WindowTypes
<1>2. ASSUME replacement, Spared({"unanswered"})'
      PROVE  token = 0 /\ saved.session.token = 0
  BY <1>2 DEF Loses, Spared
<1> QED
  BY <1>1, <1>2 DEF Spared

LEMMA UserTypes ==
  ASSUME RoomTypes, WindowTypes, HubTypes, LinkTypes, User PROVE TypeOK'
<1> TypeOK
  BY TypeParts
<1> USE Bounds
<1>1. CASE SaveSettings
  <2>1. WindowTypes'
    BY <1>1, PersistIs DEF SaveSettings, WindowTypes
  <2>2. RoomTypes' /\ LinkTypes' /\ HubTypes'
    BY <1>1 DEF SaveSettings, RoomTypes, LinkTypes, HubTypes, roomVars, hubVars, countVars
  <2> QED
    BY <2>1, <2>2, TypePartsNext
<1>2. CASE RefreshSession
  <2>1. toHub' \in [Conns -> Seq(Messages)]
    <3>1. CASE conn = 0
      BY <1>2, <3>1 DEF RefreshSession, LinkTypes
    <3>2. CASE conn # 0
      BY <1>2, <3>2, AsksIs DEF RefreshSession, Asks
    <3> QED
      BY <3>1, <3>2
  <2>2. mishaps' \subseteq Mishaps
    BY <1>2 DEF RefreshSession, Mishaps, WindowTypes
  <2>3. WindowTypes'
    BY <1>2, <2>2 DEF RefreshSession, WindowTypes, windowVars
  <2>4. RoomTypes'
    <3>1. /\ key' = keys + 1 /\ keys' = keys + 1 /\ refreshes' = refreshes + 1
          /\ trusted' = FALSE
          /\ UNCHANGED <<conn, token, rejoinPending, conns, restarts>>
      BY <1>2 DEF RefreshSession
    <3>2. rejoinPending' \in BOOLEAN /\ trusted' \in BOOLEAN
      BY <3>1, Zenon DEF RoomTypes
    <3>3. /\ key' \in Nat /\ keys' \in Nat /\ refreshes' \in Nat
          /\ conn' \in 0..MaxConns /\ token' \in 0..MaxTokens
          /\ conns' \in Nat /\ restarts' \in Nat
      BY <3>1 DEF RoomTypes
    <3> QED
      BY <3>2, <3>3 DEF RoomTypes
  <2>5. LinkTypes' /\ HubTypes'
    BY <1>2, <2>1 DEF RefreshSession, LinkTypes, HubTypes, hubVars
  <2> QED
    BY <2>3, <2>4, <2>5, TypePartsNext
<1>3. CASE Connect
  <2>1. Gone
    BY <1>3, CutsIs DEF Connect, Click
  <2>2. WindowTypes'
    <3>1. mishaps' \subseteq Mishaps
      BY <1>3, LosesIs DEF Connect, Click
    <3> QED
      BY <1>3, <3>1 DEF Connect, Click, WindowTypes, windowVars
  <2>3. key' \in Nat /\ keys' \in Nat /\ trusted' \in BOOLEAN
    <3>1. key \in Nat /\ keys \in Nat /\ trusted \in BOOLEAN
      BY DEF RoomTypes
    <3>2. CASE token = 0
      <4>1. key' = keys + 1 /\ keys' = keys + 1 /\ trusted' = FALSE
        BY <1>3, <3>2 DEF Connect, NewKeys
      <4>2. trusted' \in BOOLEAN
        BY <4>1, Zenon
      <4>3. key' \in Nat /\ keys' \in Nat
        BY <3>1, <4>1
      <4> QED
        BY <4>2, <4>3
    <3>3. CASE token # 0
      <4>1. key' = key /\ keys' = keys /\ trusted' = trusted
        BY <1>3, <3>3 DEF Connect
      <4> QED
        BY <3>1, <4>1, Zenon
    <3> QED
      BY <3>2, <3>3
  <2>4. RoomTypes'
    BY <1>3, <2>1, <2>3 DEF Connect, Click, Gone, RoomTypes
  <2>5. LinkTypes'
    BY <2>1 DEF Gone, LinkTypes
  <2>6. HubTypes'
    BY <1>3 DEF Connect, Click, HubTypes, hubVars
  <2> QED
    BY <2>2, <2>4, <2>5, <2>6, TypePartsNext
<1>4. CASE Pair
  <2>1. WindowTypes'
    BY <1>4 DEF Pair, WindowTypes, windowVars
  <2>2. PICK m : m = Request("handshake_ack", key)
    OBVIOUS
  <2>3. m \in Messages /\ toPc' = Append(toPc, m)
    BY <1>4, <2>2 DEF Pair, Request, Messages, RoomTypes
  <2>4. toPc' \in Seq(Messages)
    BY <2>3 DEF LinkTypes
  <2>5. RoomTypes' /\ LinkTypes' /\ HubTypes'
    BY <1>4, <2>4 DEF Pair, RoomTypes, LinkTypes, HubTypes, roomVars, hubVars, countVars
  <2> QED
    BY <2>1, <2>5, TypePartsNext
<1> QED
  BY <1>1, <1>2, <1>3, <1>4 DEF User

LEMMA WorldTypes ==
  ASSUME RoomTypes, WindowTypes, HubTypes, LinkTypes, World PROVE TypeOK'
<1> TypeOK
  BY TypeParts
<1> USE Bounds
<1>1. CASE Breaks
  <2>1. Gone
    BY <1>1, CutsIs DEF Breaks
  <2>2. WindowTypes'
    <3>1. mishaps' \subseteq Mishaps
      BY <1>1, LosesIs DEF Breaks
    <3>2. events' \in Seq(Kinds)
      BY <1>1, RaisesIs DEF Breaks, Kinds
    <3> QED
      BY <1>1, <3>1, <3>2 DEF Breaks, WindowTypes, Kinds
  <2>3. RoomTypes'
    BY <1>1, <2>1 DEF Breaks, Gone, RoomTypes, roomVars, countVars
  <2>4. LinkTypes'
    BY <2>1 DEF Gone, LinkTypes
  <2>5. HubTypes'
    BY <1>1 DEF Breaks, HubTypes, hubVars
  <2> QED
    BY <2>2, <2>3, <2>4, <2>5, TypePartsNext
<1>2. CASE Restart
  <2>1. Gone
    BY <1>2, CutsIs DEF Restart
  <2>2. WindowTypes'
    <3>1. mishaps' \subseteq Mishaps
      BY <1>2, LosesIs DEF Restart
    <3>2. events' = <<>> /\ shown' = FALSE /\ qr' = NoSession
      BY <1>2 DEF Restart
    <3> QED
      <4>1. NoSession \in Pairs /\ UNCHANGED <<saved, phone>>
        BY <1>2, CurrentIs DEF Restart
      <4>2. events' \in Seq({"connected", "disconnected", "created", "recovered", "ready"})
        BY <3>2
      <4>3. shown' \in BOOLEAN
        BY <3>2, Zenon
      <4> QED
        BY <3>1, <3>2, <4>1, <4>2, <4>3 DEF WindowTypes
  <2>3. RoomTypes'
    <3>1. /\ saved.session.token \in 0..MaxTokens /\ saved.session.key \in Nat
          /\ saved.trusted \in BOOLEAN
      BY DEF WindowTypes, Pairs
    <3>2. key' \in Nat /\ keys' \in Nat
      BY <1>2, <3>1 DEF Restart, RoomTypes
    <3> QED
      <4>1. /\ token' = saved.session.token /\ trusted' = saved.trusted /\ conn' = 0
            /\ rejoinPending' = FALSE /\ restarts' = restarts + 1
            /\ UNCHANGED <<conns, refreshes>>
        BY <1>2, <2>1 DEF Restart, Gone
      <4>2. trusted' \in BOOLEAN /\ rejoinPending' \in BOOLEAN
        BY <3>1, <4>1, Zenon
      <4>3. /\ conn' \in 0..MaxConns /\ token' \in 0..MaxTokens
            /\ restarts' \in Nat /\ conns' \in Nat /\ refreshes' \in Nat
        BY <3>1, <4>1 DEF RoomTypes
      <4> QED
        BY <3>2, <4>2, <4>3 DEF RoomTypes
  <2>4. LinkTypes'
    BY <2>1 DEF Gone, LinkTypes
  <2>5. HubTypes'
    BY <1>2 DEF Restart, HubTypes, hubVars
  <2> QED
    BY <2>2, <2>3, <2>4, <2>5, TypePartsNext
<1>3. ASSUME NEW t \in Tokens, Expire(t) \/ GraceEnds(t) PROVE TypeOK'
  <2>1. HubTypes'
    BY <1>3 DEF Expire, GraceEnds, HubTypes
  <2>2. RoomTypes' /\ LinkTypes'
    BY <1>3 DEF Expire, GraceEnds, RoomTypes, LinkTypes, roomVars, countVars
  <2>3. WindowTypes'
    BY <1>3 DEF Expire, GraceEnds, WindowTypes, windowVars
  <2> QED
    BY <2>1, <2>2, <2>3, TypePartsNext
<1> QED
  BY <1>1, <1>2, <1>3 DEF World

LEMMA TypesStay == ASSUME IInv, Next PROVE TypeOK'
BY OpensTypes, HubTypesStay, MessageTypes, DispatcherTypes, UserTypes, WorldTypes
   DEF Next, IInv

-----------------------------------------------------------------------------
(* The session: each step in first-order terms *)

Opened ==
    /\ conn = 0 /\ conn' = conns + 1 /\ conns' = conns + 1 /\ conn' \in Conns
    /\ DOMAIN toHub'[conn'] = {1} /\ toHub'[conn'] # <<>>
    /\ token # 0 => /\ toHub'[conn'][1].type = "rejoin_session"
                    /\ toHub'[conn'][1].token = token
    /\ token = 0 => toHub'[conn'][1].type = "create_session"
    /\ \A c \in Conns : c # conn' => toHub'[c] = toHub[c]
    /\ Range(events') = Range(events) \cup {"connected"}
    /\ UNCHANGED <<token, key, trusted, qr, saved, toPc, created, live, pcOf, sessionOf, past,
                   phone, mishaps>>

\* What a step of the hub leaves alone
HubKeeps ==
    UNCHANGED <<conn, token, key, trusted, events, qr, saved, past, phone, mishaps, conns>>

\* c is in session t now.
Joins(c, t) ==
    /\ t \in Tokens
    /\ sessionOf'[c] = t /\ \A d \in Conns : d # c => sessionOf'[d] = sessionOf[d]
    /\ pcOf'[t] = c /\ \A u \in Tokens : u # t => pcOf'[u] = pcOf[u]

Creates(c) ==
    /\ HubKeeps /\ Taken(c) /\ toHub[c][1].type = "create_session"
    /\ created' = created + 1 /\ Joins(c, created')
    /\ live' = (live \ {sessionOf[c]}) \cup {created'}
    /\ IF c = conn THEN Answered(Request("session_created", created')) ELSE toPc' = toPc

Rejoins(c) ==
    /\ HubKeeps /\ Taken(c) /\ toHub[c][1].type = "rejoin_session"
    /\ UNCHANGED <<created, live>>
    /\ toHub[c][1].token \in live /\ pcOf[toHub[c][1].token] = 0
    /\ Joins(c, toHub[c][1].token)
    /\ IF c = conn THEN Answered(Request("rejoined", toHub[c][1].token)) ELSE toPc' = toPc

Refuses(c) ==
    /\ HubKeeps /\ Taken(c) /\ toHub[c][1].type = "rejoin_session"
    /\ UNCHANGED <<created, pcOf, sessionOf>>
    /\ live' \subseteq live /\ live \ live' \subseteq past
    /\ IF c = conn THEN Answered(Request("error", toHub[c][1].token)) ELSE toPc' = toPc

Leaves(c) ==
    /\ HubKeeps /\ UNCHANGED <<created, live, toHub, toPc>>
    /\ c # conn /\ sessionOf[c] # 0
    /\ sessionOf'[c] = 0 /\ \A d \in Conns : d # c => sessionOf'[d] = sessionOf[d]
    /\ \A u \in Tokens : u # sessionOf[c] => pcOf'[u] = pcOf[u]

\* The PC takes an answer.
Takes(type) ==
    /\ conn' = conn /\ conn \in Conns
    /\ toPc' \in Seq(Messages)
    /\ 1 \in DOMAIN toPc /\ toPc[1] \in Messages /\ toPc[1].type = type
    /\ DOMAIN toPc \subseteq Nat \ {0} /\ DOMAIN toPc' \subseteq Nat \ {0}
    /\ \A i \in DOMAIN toPc' : i + 1 \in DOMAIN toPc /\ toPc'[i] = toPc[i + 1]
    /\ \A i \in DOMAIN toPc : i # 1 => i - 1 \in DOMAIN toPc' /\ toPc'[i - 1] = toPc[i]
    /\ UNCHANGED <<qr, saved, created, live, pcOf, sessionOf, past, phone, mishaps, conns,
       key>>

HasCreated ==
    /\ Takes("session_created") /\ UNCHANGED toHub
    /\ token' = toPc[1].token /\ Range(events') = Range(events) \cup {"created"}

HasRejoined ==
    /\ Takes("rejoined") /\ UNCHANGED <<toHub, token, trusted>>
    /\ Range(events') = Range(events) \cup {"recovered"}

HasFailed ==
    /\ Takes("error") /\ Asks /\ token' = 0 /\ UNCHANGED events

HasConfirmed ==
    /\ Takes("handshake_ack") /\ UNCHANGED <<toHub, token>>
    /\ \/ UNCHANGED <<trusted, events>>
       \/ Range(events') = Range(events) \cup {"ready"}

\* The window and the user leave the connection and the hub alone.
LinkKeeps ==
    UNCHANGED <<conn, toHub, toPc, created, live, pcOf, sessionOf, past, conns, token, key,
                trusted, mishaps>>

Persists ==
    /\ token = 0 => saved'.session = NoSession /\ saved'.trusted = FALSE
    /\ token # 0 => saved'.session = Current /\ saved'.trusted = trusted

Heard ==
    \E e \in Kinds :
        /\ LinkKeeps /\ UNCHANGED phone
        /\ Range(events') \subseteq Range(events)
        /\ Range(events) \subseteq Range(events') \cup {e}
        /\ IF e \in {"created", "recovered"}
           THEN qr' = IF token = 0 THEN NoSession ELSE Current
           ELSE qr' = qr
        /\ IF e \in {"created", "ready"} THEN Persists ELSE saved' = saved

Saves == LinkKeeps /\ UNCHANGED <<phone, events, qr>> /\ Persists

Refreshes ==
    /\ UNCHANGED <<conn, token, events, qr, saved, toPc, created, live, pcOf, sessionOf, past,
                   phone, conns>>
    /\ \/ conn = 0 /\ toHub' = toHub /\ "unanswered" \in mishaps'
       \/ conn # 0 /\ Asks /\ mishaps' = mishaps

\* What a lost connection leaves alone
Loss ==
    /\ Gone /\ UNCHANGED <<created, live, pcOf, sessionOf, past, phone, conns, saved>>
    /\ Spared({"unanswered"})' => Spared({"unanswered"})
    /\ Asking /\ Spared({"unanswered"})' => token = 0 /\ saved.session.token = 0

Broke == Loss /\ UNCHANGED <<token, key, trusted,
   qr>> /\ Range(events) \subseteq Range(events')

Connected ==
    /\ Loss /\ UNCHANGED <<token, events, qr>>
    /\ token # 0 => UNCHANGED <<key, trusted>>

Restarted ==
    /\ Loss /\ Range(events') = {}
    /\ token' = saved.session.token /\ trusted' = saved.trusted
    /\ token' # 0 => key' = saved.session.key
    /\ qr' = NoSession
    /\ "created" \in Range(events) /\ Spared({"unanswered"})' =>
          token = 0 /\ saved.session.token = 0

Paired ==
    /\ conn \in Conns /\ conn' = conn
    /\ toPc' \in Seq(Messages) /\ Len(toPc) \in Nat /\ DOMAIN toPc = 1..Len(toPc)
    /\ DOMAIN toPc' = 1..Len(toPc) + 1
    /\ toPc'[Len(toPc) + 1].type = "handshake_ack"
    /\ \A i \in DOMAIN toPc : toPc'[i] = toPc[i]
    /\ qr.token \in live /\ qr.key = key /\ phone' = qr
    /\ UNCHANGED <<conns, token, key, trusted, events, qr, saved, toHub, created, live, pcOf,
                   sessionOf, past, mishaps>>

Expired ==
    /\ live' \subseteq live /\ live' \cup past' = live \cup past
    /\ UNCHANGED <<conn, conns, token, key, trusted, events, qr, saved, toHub, toPc, created,
                   pcOf, sessionOf, phone, mishaps>>

Effect ==
    \/ Opened
    \/ \E c \in Conns : Creates(c) \/ Rejoins(c) \/ Refuses(c) \/ Leaves(c)
    \/ HasCreated \/ HasRejoined \/ HasFailed \/ HasConfirmed
    \/ Heard \/ Saves \/ Refreshes \/ Connected \/ Paired
    \/ Broke \/ Restarted \/ Expired

LEMMA OpensIs == ASSUME IInv, Opens PROVE Opened
<1> RoomTypes /\ LinkTypes /\ TypeOK
  BY TypeParts DEF IInv
<1> USE Bounds
<1>1. conns \in Nat /\ conn' = conns + 1 /\ conn' \in Conns
  BY DEF Opens, RoomTypes
<1>2. PICK m : m = IF token # 0 THEN Request("rejoin_session", token)
                                 ELSE Request("create_session", 0)
  OBVIOUS
<1>3. PICK q : q = <<m>>
  OBVIOUS
<1>4. toHub' = [toHub EXCEPT ![conn'] = q]
  BY <1>2, <1>3 DEF Opens
<1>5. toHub'[conn'] = q /\ \A c \in Conns : c # conn' => toHub'[c] = toHub[c]
  BY <1>1, <1>4 DEF LinkTypes
<1>6. DOMAIN q = {1} /\ q[1] = m /\ q # <<>>
  BY <1>3
<1>7. /\ token # 0 => m.type = "rejoin_session" /\ m.token = token
      /\ token = 0 => m.type = "create_session"
  BY <1>2 DEF Request
<1>8. Range(events') = Range(events) \cup {"connected"}
  BY RaisesIs DEF Opens, Kinds
<1> QED
  BY <1>1, <1>5, <1>6, <1>7, <1>8 DEF Opens, Opened, hubVars

LEMMA JoinsIs ==
  ASSUME HubTypes, NEW c \in Conns, NEW t \in Tokens,
         sessionOf' = [sessionOf EXCEPT ![c] = t], pcOf' = [pcOf EXCEPT ![t] = c]
  PROVE  Joins(c, t)
BY DEF HubTypes, Joins

LEMMA ReadsKeeps == ASSUME NEW c, NEW type, Reads(c, type) PROVE HubKeeps
BY DEF Reads, HubKeeps, roomVars, windowVars, countVars

LEMMA HubIs ==
  ASSUME IInv, Hub
  PROVE  \E c \in Conns : Creates(c) \/ Rejoins(c) \/ Refuses(c) \/ Leaves(c)
<1> HubTypes /\ TypeOK
  BY TypeParts DEF IInv
<1> PICK c \in Conns :
      CreateSession(c) \/ RejoinSession(c) \/ RefuseRejoin(c) \/ Unregister(c)
  BY DEF Hub
<1>1. ASSUME CreateSession(c) PROVE Creates(c)
  <2>1. Reads(c, "create_session") /\ created' = created + 1
    BY <1>1 DEF CreateSession
  <2>2. HubKeeps /\ Taken(c) /\ toHub[c][1].type = "create_session"
    BY <2>1, ReadsIs, ReadsKeeps
  <2>3. created' \in Tokens /\ created' \in Nat
    BY <1>1, Bounds DEF CreateSession, HubTypes
  <2>4. Joins(c, created')
    BY <1>1, <2>3, JoinsIs DEF CreateSession
  <2>5. Request("session_created", created') \in Messages
    BY <2>3 DEF Request, Messages
  <2>6. IF c = conn THEN Answered(Request("session_created", created')) ELSE toPc' = toPc
    BY <1>1, <2>5, AnswerIs DEF CreateSession
  <2> QED
    BY <1>1, <2>1, <2>2, <2>4, <2>6 DEF CreateSession, Creates
<1>2. ASSUME RejoinSession(c) PROVE Rejoins(c)
  <2>1. Reads(c, "rejoin_session")
    BY <1>2 DEF RejoinSession
  <2>2. /\ HubKeeps /\ Taken(c) /\ toHub[c][1].type = "rejoin_session"
        /\ Head(toHub[c]) = toHub[c][1] /\ toHub[c][1] \in Messages
    BY <2>1, ReadsIs, ReadsKeeps DEF Taken
  <2>3. PICK t : t = toHub[c][1].token
    OBVIOUS
  <2>4. t \in live /\ pcOf[t] = 0
    BY <1>2, <2>2, <2>3 DEF RejoinSession, Rejoinable
  <2>5. t \in Tokens
    BY <2>4 DEF HubTypes
  <2>6. Joins(c, t)
    BY <1>2, <2>2, <2>3, <2>5, JoinsIs DEF RejoinSession
  <2>7. Request("rejoined", t) \in Messages
    BY <2>5, Bounds DEF Request, Messages
  <2>8. Answer(c, <<Request("rejoined", t)>>) /\ UNCHANGED <<created, live>>
    BY <1>2, <2>2, <2>3 DEF RejoinSession
  <2>9. IF c = conn THEN Answered(Request("rejoined", t)) ELSE toPc' = toPc
    BY <2>7, <2>8, AnswerIs
  <2> QED
    BY <2>2, <2>3, <2>4, <2>6, <2>8, <2>9 DEF Rejoins
<1>3. ASSUME RefuseRejoin(c) PROVE Refuses(c)
  <2>1. Reads(c, "rejoin_session")
    BY <1>3 DEF RefuseRejoin
  <2>2. /\ HubKeeps /\ Taken(c) /\ toHub[c][1].type = "rejoin_session"
        /\ Head(toHub[c]) = toHub[c][1] /\ toHub[c][1] \in Messages
    BY <2>1, ReadsIs, ReadsKeeps DEF Taken
  <2>3. PICK t : t = toHub[c][1].token
    OBVIOUS
  <2>4. Request("error", t) \in Messages
    BY <2>2, <2>3 DEF Request, Messages
  <2>5. /\ Answer(c, <<Request("error", t)>>) /\ UNCHANGED <<created, pcOf, sessionOf>>
        /\ live' = live \ ({t} \cap past)
    BY <1>3, <2>2, <2>3 DEF RefuseRejoin
  <2>6. IF c = conn THEN Answered(Request("error", t)) ELSE toPc' = toPc
    BY <2>4, <2>5, AnswerIs
  <2> QED
    BY <2>2, <2>3, <2>5, <2>6 DEF Refuses
<1>4. ASSUME Unregister(c) PROVE Leaves(c)
  <2>1. HubKeeps /\ UNCHANGED <<created, live, toHub, toPc>>
    BY <1>4 DEF Unregister, HubKeeps, roomVars, windowVars, countVars
  <2>2. sessionOf[c] \in Tokens
    BY <1>4, Bounds DEF Unregister, HubTypes
  <2> QED
    BY <1>4, <2>1, <2>2 DEF Unregister, Leaves, HubTypes
<1> QED
  BY <1>1, <1>2, <1>3, <1>4

LEMMA TakesIs ==
  ASSUME IInv, NEW type, Receives(type), UNCHANGED key PROVE Takes(type)
<1> RoomTypes /\ TypeOK /\ ConnInv
  BY TypeParts DEF IInv
<1>1. toPc # <<>> /\ conn' = conn
  BY DEF Receives
<1>2. conn \in Conns
  BY <1>1, Bounds DEF ConnInv, RoomTypes
<1>3. UNCHANGED <<qr, saved, created, live, pcOf, sessionOf, past, phone, mishaps, conns>>
  BY DEF Receives, hubVars, countVars
<1> QED
  BY <1>1, <1>2, <1>3, ReceivesIs DEF Takes

LEMMA MessageIs ==
  ASSUME IInv, HandleMessage PROVE HasCreated \/ HasRejoined \/ HasFailed \/ HasConfirmed
<1> TypeOK /\ ConnInv /\ RoomTypes
  BY TypeParts DEF IInv
<1>1. ASSUME SessionCreated PROVE HasCreated
  <2>1. Takes("session_created") /\ Receives("session_created")
    BY <1>1, TakesIs DEF SessionCreated
  <2>2. Head(toPc) = toPc[1]
    BY <2>1, ReceivesIs
  <2>3. Range(events') = Range(events) \cup {"created"}
    BY <1>1, RaisesIs DEF SessionCreated, Kinds
  <2> QED
    BY <1>1, <2>1, <2>2, <2>3 DEF SessionCreated, HasCreated
<1>2. ASSUME Rejoined PROVE HasRejoined
  <2>1. Takes("rejoined")
    BY <1>2, TakesIs DEF Rejoined
  <2>2. Range(events') = Range(events) \cup {"recovered"}
    BY <1>2, RaisesIs DEF Rejoined, Kinds
  <2> QED
    BY <1>2, <2>1, <2>2 DEF Rejoined, HasRejoined
<1>3. ASSUME OnError PROVE HasFailed
  <2>1. Takes("error") /\ conn \in Conns /\ conn' = conn
    BY <1>3, TakesIs DEF OnError, Takes
  <2>2. conn # 0
    BY <2>1, Bounds
  <2>3. Asks
    BY <1>3, <2>1, <2>2, AsksIs DEF OnError
  <2> QED
    BY <1>3, <2>1, <2>3 DEF OnError, HasFailed
<1>4. ASSUME Confirmed PROVE HasConfirmed
  <2>1. Takes("handshake_ack")
    BY <1>4, TakesIs DEF Confirmed
  <2>2. UNCHANGED <<trusted, events>> \/ events' = Append(events, "ready")
    BY <1>4 DEF Confirmed
  <2>3. UNCHANGED <<trusted, events>> \/ Range(events') = Range(events) \cup {"ready"}
    BY <2>2, RaisesIs DEF Kinds
  <2> QED
    BY <1>4, <2>1, <2>3 DEF Confirmed, HasConfirmed
<1> QED
  BY <1>1, <1>2, <1>3, <1>4 DEF HandleMessage

LEMMA PersistsIs == ASSUME RoomTypes, PersistSettings PROVE Persists
BY PersistIs DEF Persists

LEMMA WindowKeeps ==
  ASSUME TypeOK, NEW e \in Kinds, Window(e),
         IF e \in {"created", "recovered"}
         THEN qr' = IF token = 0 THEN NoSession ELSE Current
         ELSE qr' = qr,
         IF e \in {"created", "ready"} THEN Persists ELSE saved' = saved
  PROVE  Heard
<1>1. LinkKeeps /\ UNCHANGED phone
  BY DEF Window, LinkKeeps, roomVars, hubVars, countVars
<1>2. /\ Range(events') \subseteq Range(events)
      /\ Range(events) \subseteq Range(events') \cup {e}
  BY WindowIs
<1> QED
  BY <1>1, <1>2 DEF Heard

LEMMA DispatcherIs == ASSUME IInv, Dispatcher PROVE Heard
<1> TypeOK /\ RoomTypes
  BY TypeParts DEF IInv
<1>1. CASE OnServerConnectionChanged
  <2>1. qr' = qr /\ saved' = saved /\ (Window("connected") \/ Window("disconnected"))
    BY <1>1 DEF OnServerConnectionChanged
  <2> QED
    BY <2>1, WindowKeeps DEF Kinds
<1>2. CASE OnSessionCreated
  <2>1. /\ Window("created") /\ Persists
        /\ qr' = IF token = 0 THEN NoSession ELSE Current
    BY <1>2, PersistsIs DEF OnSessionCreated, UpdateQRCode
  <2> QED
    BY <2>1, WindowKeeps DEF Kinds
<1>3. CASE OnSessionRecovered
  <2>1. /\ Window("recovered") /\ saved' = saved
        /\ qr' = IF token = 0 THEN NoSession ELSE Current
    BY <1>3 DEF OnSessionRecovered, UpdateQRCode
  <2> QED
    BY <2>1, WindowKeeps DEF Kinds
<1>4. CASE OnEncryptionReady
  <2>1. Window("ready") /\ Persists /\ qr' = qr
    BY <1>4, PersistsIs DEF OnEncryptionReady
  <2> QED
    BY <2>1, WindowKeeps DEF Kinds
<1> QED
  BY <1>1, <1>2, <1>3, <1>4 DEF Dispatcher

LEMMA LossIs ==
  ASSUME IInv, NEW n \in Nat, Cut(n), NEW all, Loses(all), Outstanding => all,
         UNCHANGED <<created, live, pcOf, sessionOf, past, phone, conns, saved>>
  PROVE  /\ Loss
         /\ all /\ Spared({"unanswered"})' => token = 0 /\ saved.session.token = 0
<1> TypeOK /\ RoomTypes /\ WindowTypes /\ KindInv
  BY TypeParts DEF IInv
<1>1. Outstanding <=> Asking
  BY OutstandingIs
<1>2. /\ Spared({"unanswered"})' => Spared({"unanswered"})
      /\ all /\ Spared({"unanswered"})' =>
            token = 0 /\ saved.session.token = 0
  BY LosesIs
<1> QED
  BY <1>1, <1>2, CutsIs DEF Loss

LEMMA UserIs == ASSUME IInv, User PROVE Saves \/ Refreshes \/ Connected \/ Paired
<1> TypeOK /\ RoomTypes /\ LinkTypes
  BY TypeParts DEF IInv
<1>1. ASSUME SaveSettings PROVE Saves
  BY <1>1, PersistsIs DEF SaveSettings, Saves, LinkKeeps, roomVars, hubVars, countVars
<1>2. ASSUME RefreshSession PROVE Refreshes
  <2>1. UNCHANGED <<conn, token, events, qr, saved, toPc, created, live, pcOf, sessionOf,
                    past, phone, conns>>
    BY <1>2 DEF RefreshSession, windowVars, hubVars
  <2>2. CASE conn = 0
    BY <1>2, <2>1, <2>2 DEF RefreshSession, Refreshes
  <2>3. CASE conn # 0
    <3>1. Asks /\ mishaps' = mishaps
      BY <1>2, <2>1, <2>3, AsksIs DEF RefreshSession
    <3> QED
      BY <2>1, <2>3, <3>1 DEF Refreshes
  <2> QED
    BY <2>2, <2>3
<1>3. ASSUME Connect PROVE Connected
  <2>1. /\ UNCHANGED <<created, live, pcOf, sessionOf, past, phone, conns, saved>>
        /\ UNCHANGED <<token, events, qr>> /\ Loses(Outstanding)
    BY <1>3 DEF Connect, Click, windowVars, hubVars
  <2>2. PICK n \in Nat : Cut(n)
    BY <1>3 DEF Connect, Click
  <2>3. Loss
    BY <2>1, <2>2, LossIs
  <2>4. token # 0 => UNCHANGED <<key, trusted>>
    BY <1>3 DEF Connect
  <2> QED
    BY <2>1, <2>3, <2>4 DEF Connected
<1>4. ASSUME Pair PROVE Paired
  <2>1. PICK m : m = Request("handshake_ack", key)
    OBVIOUS
  <2>2. m \in Messages /\ m.type = "handshake_ack" /\ toPc' = Append(toPc, m)
    BY <1>4, <2>1 DEF Pair, Request, Messages, RoomTypes
  <2>3. /\ toPc' \in Seq(Messages) /\ Len(toPc) \in Nat /\ DOMAIN toPc = 1..Len(toPc)
        /\ DOMAIN toPc' = 1..Len(toPc) + 1 /\ toPc'[Len(toPc) + 1] = m
        /\ \A i \in DOMAIN toPc : toPc'[i] = toPc[i]
    BY <2>2, AppendIs DEF LinkTypes
  <2>4. UNCHANGED <<conns, token, key, trusted, events, qr, saved, toHub, created, live, pcOf,
                    sessionOf, past, mishaps>>
    BY <1>4 DEF Pair, roomVars, windowVars, hubVars, countVars
  <2>5. conn \in Conns /\ conn' = conn
    BY <1>4, Bounds DEF Pair, RoomTypes
  <2>6. qr.token \in live /\ qr.key = key /\ phone' = qr
    BY <1>4 DEF Pair
  <2> QED
    BY <2>2, <2>3, <2>4, <2>5, <2>6 DEF Paired
<1> QED
  BY <1>1, <1>2, <1>3, <1>4 DEF User

LEMMA WorldIs == ASSUME IInv, World PROVE Broke \/ Restarted \/ Expired
<1> TypeOK /\ RoomTypes
  BY TypeParts DEF IInv
<1>1. ASSUME Breaks PROVE Broke
  <2>1. /\ UNCHANGED <<created, live, pcOf, sessionOf, past, phone, conns, saved>>
        /\ UNCHANGED <<token, key, trusted, qr>> /\ Loses(Outstanding)
    BY <1>1 DEF Breaks, roomVars, hubVars, countVars
  <2>2. PICK n \in Nat : Cut(n)
    BY <1>1 DEF Breaks
  <2>3. Loss
    BY <2>1, <2>2, LossIs
  <2>4. Range(events') = Range(events) \cup {"disconnected"}
    BY <1>1, RaisesIs DEF Breaks, Kinds
  <2> QED
    BY <2>1, <2>3, <2>4 DEF Broke
<1>2. ASSUME Restart PROVE Restarted
  <2>1. /\ UNCHANGED <<created, live, pcOf, sessionOf, past, phone, conns, saved>>
        /\ Loses(Outstanding \/ "created" \in Range(events))
    BY <1>2 DEF Restart, hubVars
  <2>2. PICK n \in Nat : Cut(n)
    BY <1>2 DEF Restart
  <2>3. /\ Loss
        /\ "created" \in Range(events) /\ Spared({"unanswered"})' =>
              token = 0 /\ saved.session.token = 0
    BY <2>1, <2>2, LossIs
  <2>4. events' = <<>> /\ qr' = NoSession
    BY <1>2 DEF Restart
  <2>5. Range(events') = {}
    BY <2>4 DEF Range
  <2>6. /\ token' = saved.session.token /\ trusted' = saved.trusted
        /\ token' # 0 => key' = saved.session.key
    BY <1>2 DEF Restart
  <2> QED
    BY <2>3, <2>4, <2>5, <2>6 DEF Restarted
<1>3. ASSUME NEW t \in Tokens, Expire(t) \/ GraceEnds(t) PROVE Expired
  BY <1>3 DEF Expire, GraceEnds, Expired, roomVars, windowVars, countVars
<1> QED
  BY <1>1, <1>2, <1>3 DEF World

LEMMA StepIs == ASSUME IInv, Next PROVE Effect
BY OpensIs, HubIs, MessageIs, DispatcherIs, UserIs, WorldIs DEF Next, Effect

-----------------------------------------------------------------------------
(* The session: the invariant is inductive *)

LEMMA ConnStays == ASSUME IInv, Effect, TypeOK' PROVE ConnInv'
<1> USE DEF ConnInv
<1>0. /\ ConnInv
      /\ RoomTypes /\ HubTypes /\ LinkTypes /\ TypeOK
  BY TypeParts DEF IInv
<1>1. CASE Opened
  BY <1>0, <1>1, Bounds DEF Opened, RoomTypes, HubTypes
<1>2. ASSUME NEW c \in Conns, Creates(c) PROVE ConnInv'
  <2>1. c <= conns
    BY <1>0, <1>2, Bounds DEF Creates, Taken, RoomTypes
  <2>2. \A d \in Conns : d # c => toHub'[d] = toHub[d] /\ sessionOf'[d] = sessionOf[d]
    BY <1>0, <1>2 DEF Creates, Taken, Joins
  <2>3. conn' = conn /\ conns' = conns /\ (conn' = 0 => toPc' = toPc)
    BY <1>2, Bounds DEF Creates, HubKeeps
  <2> QED
    BY <1>0, <2>1, <2>2, <2>3, Bounds DEF RoomTypes
<1>3. ASSUME NEW c \in Conns, Rejoins(c) PROVE ConnInv'
  <2>1. c <= conns
    BY <1>0, <1>3, Bounds DEF Rejoins, Taken, RoomTypes
  <2>2. \A d \in Conns : d # c => toHub'[d] = toHub[d] /\ sessionOf'[d] = sessionOf[d]
    BY <1>0, <1>3 DEF Rejoins, Taken, Joins
  <2>3. conn' = conn /\ conns' = conns /\ (conn' = 0 => toPc' = toPc)
    BY <1>3, Bounds DEF Rejoins, HubKeeps
  <2> QED
    BY <1>0, <2>1, <2>2, <2>3, Bounds DEF RoomTypes
<1>4. ASSUME NEW c \in Conns, Refuses(c) PROVE ConnInv'
  <2>1. c <= conns
    BY <1>0, <1>4, Bounds DEF Refuses, Taken, RoomTypes
  <2>2. \A d \in Conns : d # c => toHub'[d] = toHub[d] /\ sessionOf'[d] = sessionOf[d]
    BY <1>0, <1>4 DEF Refuses, Taken, Joins
  <2>3. conn' = conn /\ conns' = conns /\ (conn' = 0 => toPc' = toPc)
    BY <1>4, Bounds DEF Refuses, HubKeeps
  <2> QED
    BY <1>0, <2>1, <2>2, <2>3, Bounds DEF RoomTypes
<1>5. ASSUME NEW c \in Conns, Leaves(c) PROVE ConnInv'
  BY <1>0, <1>5, Bounds DEF Leaves, HubKeeps, RoomTypes, HubTypes
<1>6. CASE HasCreated
  BY <1>0, <1>6, Bounds DEF HasCreated, Takes, RoomTypes, HubTypes
<1>7. CASE HasRejoined
  BY <1>0, <1>7, Bounds DEF HasRejoined, Takes, RoomTypes, HubTypes
<1>8. CASE HasFailed
  <2>1. \A c \in Conns : c > conns => toHub'[c] = toHub[c]
    BY <1>0, <1>8, Bounds DEF HasFailed, Asks, RoomTypes
  <2> QED
    BY <1>0, <1>8, <2>1, Bounds DEF HasFailed, Takes
<1>9. CASE HasConfirmed
  BY <1>0, <1>9, Bounds DEF HasConfirmed, Takes, RoomTypes, HubTypes
<1>10. CASE Heard
  BY <1>0, <1>10, Bounds DEF Heard, LinkKeeps, RoomTypes, HubTypes
<1>11. CASE Saves
  BY <1>0, <1>11, Bounds DEF Saves, LinkKeeps, RoomTypes, HubTypes
<1>12. CASE Refreshes
  <2>1. \A c \in Conns : c > conns => toHub'[c] = toHub[c]
    BY <1>0, <1>12, Bounds DEF Refreshes, Asks, RoomTypes
  <2> QED
    BY <1>0, <1>12, <2>1, Bounds DEF Refreshes
<1>13. CASE Connected
  <2>1. \A c \in Conns : DOMAIN toHub'[c] \subseteq DOMAIN toHub[c]
    BY <1>13 DEF Connected, Loss, Gone
  <2>2. conn' = 0 /\ toPc' = <<>> /\ conns' = conns /\ sessionOf' = sessionOf
    BY <1>13 DEF Connected, Loss, Gone
  <2> QED
    BY <1>0, <2>1, <2>2 DEF RoomTypes
<1>14. CASE Paired
  BY <1>0, <1>14, Bounds DEF Paired, RoomTypes, HubTypes
<1>15. CASE Broke
  <2>1. \A c \in Conns : DOMAIN toHub'[c] \subseteq DOMAIN toHub[c]
    BY <1>15 DEF Broke, Loss, Gone
  <2>2. conn' = 0 /\ toPc' = <<>> /\ conns' = conns /\ sessionOf' = sessionOf
    BY <1>15 DEF Broke, Loss, Gone
  <2> QED
    BY <1>0, <2>1, <2>2 DEF RoomTypes
<1>16. CASE Restarted
  <2>1. \A c \in Conns : DOMAIN toHub'[c] \subseteq DOMAIN toHub[c]
    BY <1>16 DEF Restarted, Loss, Gone
  <2>2. conn' = 0 /\ toPc' = <<>> /\ conns' = conns /\ sessionOf' = sessionOf
    BY <1>16 DEF Restarted, Loss, Gone
  <2> QED
    BY <1>0, <2>1, <2>2 DEF RoomTypes
<1>17. CASE Expired
  BY <1>0, <1>17, Bounds DEF Expired, RoomTypes, HubTypes
<1> QED
  BY <1>1, <1>2, <1>3, <1>4, <1>5, <1>6, <1>7, <1>8, <1>9, <1>10, <1>11, <1>12, <1>13, <1>14,
     <1>15, <1>16, <1>17 DEF Effect

LEMMA KindStays == ASSUME IInv, Effect, TypeOK' PROVE KindInv'
<1> USE DEF KindInv
<1>0. /\ KindInv
      /\ RoomTypes /\ HubTypes /\ LinkTypes /\ TypeOK
  BY TypeParts DEF IInv
<1>1. CASE Opened
  <2>1. \A d \in Conns : \A i \in DOMAIN toHub'[d] :
            toHub'[d][i].type \in {"create_session", "rejoin_session"}
    BY <1>0, <1>1 DEF Opened
  <2> QED
    BY <1>0, <1>1, <2>1 DEF Opened
<1>2. ASSUME NEW c \in Conns, Creates(c) PROVE KindInv'
  <2>1. \A d \in Conns : \A i \in DOMAIN toHub'[d] :
            toHub'[d][i].type \in {"create_session", "rejoin_session"}
    <3>1. \A i \in DOMAIN toHub'[c] :
              toHub'[c][i].type \in {"create_session", "rejoin_session"}
      BY <1>0, <1>2 DEF Creates, Taken
    <3>2. \A d \in Conns : d # c => toHub'[d] = toHub[d]
      BY <1>2 DEF Creates, Taken
    <3> QED
      BY <1>0, <3>1, <3>2
  <2>2. \A i \in DOMAIN toPc' : toPc'[i].type \notin {"create_session", "rejoin_session"}
    <3>1. CASE c = conn
      <4>1. \A i \in DOMAIN toPc' : i \in DOMAIN toPc \/ i = Len(toPc) + 1
        BY <1>2, <3>1 DEF Creates, Answered
      <4>2. toPc'[Len(toPc) + 1].type = "session_created"
        BY <1>2, <3>1 DEF Creates, Answered, Request
      <4> QED
        BY <1>0, <1>2, <3>1, <4>1, <4>2 DEF Creates, Answered
    <3>2. CASE c # conn
      BY <1>0, <1>2, <3>2 DEF Creates
    <3> QED
      BY <3>1, <3>2
  <2> QED
    BY <2>1, <2>2
<1>3. ASSUME NEW c \in Conns, Rejoins(c) PROVE KindInv'
  <2>1. \A d \in Conns : \A i \in DOMAIN toHub'[d] :
            toHub'[d][i].type \in {"create_session", "rejoin_session"}
    <3>1. \A i \in DOMAIN toHub'[c] :
              toHub'[c][i].type \in {"create_session", "rejoin_session"}
      BY <1>0, <1>3 DEF Rejoins, Taken
    <3>2. \A d \in Conns : d # c => toHub'[d] = toHub[d]
      BY <1>3 DEF Rejoins, Taken
    <3> QED
      BY <1>0, <3>1, <3>2
  <2>2. \A i \in DOMAIN toPc' : toPc'[i].type \notin {"create_session", "rejoin_session"}
    <3>1. CASE c = conn
      <4>1. \A i \in DOMAIN toPc' : i \in DOMAIN toPc \/ i = Len(toPc) + 1
        BY <1>3, <3>1 DEF Rejoins, Answered
      <4>2. toPc'[Len(toPc) + 1].type = "rejoined"
        BY <1>3, <3>1 DEF Rejoins, Answered, Request
      <4> QED
        BY <1>0, <1>3, <3>1, <4>1, <4>2 DEF Rejoins, Answered
    <3>2. CASE c # conn
      BY <1>0, <1>3, <3>2 DEF Rejoins
    <3> QED
      BY <3>1, <3>2
  <2> QED
    BY <2>1, <2>2
<1>4. ASSUME NEW c \in Conns, Refuses(c) PROVE KindInv'
  <2>1. \A d \in Conns : \A i \in DOMAIN toHub'[d] :
            toHub'[d][i].type \in {"create_session", "rejoin_session"}
    <3>1. \A i \in DOMAIN toHub'[c] :
              toHub'[c][i].type \in {"create_session", "rejoin_session"}
      BY <1>0, <1>4 DEF Refuses, Taken
    <3>2. \A d \in Conns : d # c => toHub'[d] = toHub[d]
      BY <1>4 DEF Refuses, Taken
    <3> QED
      BY <1>0, <3>1, <3>2
  <2>2. \A i \in DOMAIN toPc' : toPc'[i].type \notin {"create_session", "rejoin_session"}
    <3>1. CASE c = conn
      <4>1. \A i \in DOMAIN toPc' : i \in DOMAIN toPc \/ i = Len(toPc) + 1
        BY <1>4, <3>1 DEF Refuses, Answered
      <4>2. toPc'[Len(toPc) + 1].type = "error"
        BY <1>4, <3>1 DEF Refuses, Answered, Request
      <4> QED
        BY <1>0, <1>4, <3>1, <4>1, <4>2 DEF Refuses, Answered
    <3>2. CASE c # conn
      BY <1>0, <1>4, <3>2 DEF Refuses
    <3> QED
      BY <3>1, <3>2
  <2> QED
    BY <2>1, <2>2
<1>5. ASSUME NEW c \in Conns, Leaves(c) PROVE KindInv'
  BY <1>0, <1>5, Bounds DEF Leaves, HubKeeps, LinkTypes
<1>6. CASE HasCreated
  BY <1>0, <1>6, Bounds DEF HasCreated, Takes, LinkTypes
<1>7. CASE HasRejoined
  BY <1>0, <1>7, Bounds DEF HasRejoined, Takes, LinkTypes
<1>8. CASE HasFailed
  <2>1. \A i \in DOMAIN toHub'[conn] : i \in DOMAIN toHub[conn] \/ i = Len(toHub[conn]) + 1
    BY <1>8 DEF HasFailed, Asks
  <2>2. \A d \in Conns : \A i \in DOMAIN toHub'[d] :
            toHub'[d][i].type \in {"create_session", "rejoin_session"}
    BY <1>0, <1>8, <2>1 DEF HasFailed, Asks
  <2> QED
    BY <1>0, <1>8, <2>2 DEF HasFailed, Takes
<1>9. CASE HasConfirmed
  BY <1>0, <1>9, Bounds DEF HasConfirmed, Takes, LinkTypes
<1>10. CASE Heard
  BY <1>0, <1>10, Bounds DEF Heard, LinkKeeps, LinkTypes
<1>11. CASE Saves
  BY <1>0, <1>11, Bounds DEF Saves, LinkKeeps, LinkTypes
<1>12. CASE Refreshes
  <2>1. CASE conn = 0
    BY <1>0, <1>12, <2>1 DEF Refreshes, Asks
  <2>2. CASE conn # 0
    <3>0. Asks
      BY <1>12, <2>2 DEF Refreshes
    <3>1. \A i \in DOMAIN toHub'[conn] :
              i \in DOMAIN toHub[conn] \/ i = Len(toHub[conn]) + 1
      BY <3>0 DEF Asks
    <3>2. \A d \in Conns : \A i \in DOMAIN toHub'[d] :
              toHub'[d][i].type \in {"create_session", "rejoin_session"}
      BY <1>0, <3>0, <3>1 DEF Asks
    <3> QED
      BY <1>0, <1>12, <3>2 DEF Refreshes
  <2> QED
    BY <2>1, <2>2
<1>13. CASE Connected
  BY <1>0, <1>13, Bounds DEF Connected, Loss, Gone, LinkTypes
<1>14. CASE Paired
  <2>1. \A i \in DOMAIN toPc' : i \in DOMAIN toPc \/ i = Len(toPc) + 1
    BY <1>14 DEF Paired
  <2> QED
    BY <1>0, <1>14, <2>1 DEF Paired
<1>15. CASE Broke
  BY <1>0, <1>15, Bounds DEF Broke, Loss, Gone, LinkTypes
<1>16. CASE Restarted
  BY <1>0, <1>16, Bounds DEF Restarted, Loss, Gone, LinkTypes
<1>17. CASE Expired
  BY <1>0, <1>17, Bounds DEF Expired, LinkTypes
<1> QED
  BY <1>1, <1>2, <1>3, <1>4, <1>5, <1>6, <1>7, <1>8, <1>9, <1>10, <1>11, <1>12, <1>13, <1>14,
     <1>15, <1>16, <1>17 DEF Effect

LEMMA RegisterStays == ASSUME IInv, Effect, TypeOK' PROVE RegisterInv'
<1> USE DEF RegisterInv
<1>0. /\ RegisterInv /\ ConnInv
      /\ RoomTypes /\ HubTypes /\ LinkTypes /\ TypeOK
  BY TypeParts DEF IInv
<1>1. CASE Opened
  BY <1>0, <1>1, Bounds DEF Opened, RoomTypes, HubTypes
<1>2. ASSUME NEW c \in Conns, Creates(c) PROVE RegisterInv'
  <2> PICK t \in Tokens : t = created'
    BY <1>2 DEF Creates, Joins
  <2>1. /\ sessionOf'[c] = t /\ pcOf'[t] = c /\ past' = past
        /\ \A d \in Conns : d # c => sessionOf'[d] = sessionOf[d]
        /\ \A u \in Tokens : u # t => pcOf'[u] = pcOf[u]
    BY <1>2 DEF Creates, Joins, HubKeeps
  <2>2. live' \cup past' \subseteq 1..created' /\ t \in live' \cup past'
    BY <1>0, <1>2, Bounds DEF Creates, HubTypes, HubKeeps
  <2>3. ASSUME NEW d \in Conns, d # c, sessionOf[d] # 0
        PROVE  pcOf'[sessionOf[d]] = d /\ sessionOf[d] \in live' \cup past'
    <3>1. pcOf[sessionOf[d]] = d /\ sessionOf[d] \in live \cup past
      BY <1>0, <2>3
    <3>2. sessionOf[d] \in Tokens /\ sessionOf[d] <= created
      BY <1>0, <3>1, Bounds DEF HubTypes
    <3>3. sessionOf[d] # t /\ sessionOf[d] \in live' \cup past'
      <4>1. sessionOf[c] # sessionOf[d]
        BY <1>0, <2>3, <3>1, Bounds
      <4> QED
        BY <1>0, <1>2, <3>1, <3>2, <4>1, <2>1, Bounds DEF Creates, HubTypes
    <3> QED
      BY <2>1, <3>1, <3>2, <3>3
  <2> QED
    BY <2>1, <2>2, <2>3
<1>3. ASSUME NEW c \in Conns, Rejoins(c) PROVE RegisterInv'
  <2> PICK t \in Tokens : t = toHub[c][1].token
    BY <1>3 DEF Rejoins, Joins
  <2>1. /\ sessionOf'[c] = t /\ pcOf'[t] = c /\ past' = past
        /\ \A d \in Conns : d # c => sessionOf'[d] = sessionOf[d]
        /\ \A u \in Tokens : u # t => pcOf'[u] = pcOf[u]
    BY <1>3 DEF Rejoins, Joins, HubKeeps
  <2>2. live' \cup past' \subseteq 1..created' /\ t \in live' \cup past'
    BY <1>0, <1>3, Bounds DEF Rejoins, HubTypes, HubKeeps
  <2>3. ASSUME NEW d \in Conns, d # c, sessionOf[d] # 0
        PROVE  pcOf'[sessionOf[d]] = d /\ sessionOf[d] \in live' \cup past'
    <3>1. pcOf[sessionOf[d]] = d /\ sessionOf[d] \in live \cup past
      BY <1>0, <2>3
    <3>2. sessionOf[d] \in Tokens /\ sessionOf[d] <= created
      BY <1>0, <3>1, Bounds DEF HubTypes
    <3>3. sessionOf[d] # t /\ sessionOf[d] \in live' \cup past'
      BY <1>0, <1>3, <3>1, <2>3, <2>1, Bounds DEF Rejoins
    <3> QED
      BY <2>1, <3>1, <3>2, <3>3
  <2> QED
    BY <2>1, <2>2, <2>3
<1>4. ASSUME NEW c \in Conns, Refuses(c) PROVE RegisterInv'
  BY <1>0, <1>4, Bounds DEF Refuses, HubKeeps, Taken, Answered, Request, RoomTypes, HubTypes
<1>5. ASSUME NEW c \in Conns, Leaves(c) PROVE RegisterInv'
  <2>1. ASSUME NEW d \in Conns, d # c, sessionOf[d] # 0
        PROVE  pcOf'[sessionOf[d]] = d /\ sessionOf[d] \in live' \cup past'
    <3>1. pcOf[sessionOf[d]] = d /\ sessionOf[d] \in live \cup past
      BY <1>0, <2>1
    <3>2. sessionOf[d] # sessionOf[c]
      BY <1>0, <2>1, <3>1, <1>5 DEF Leaves
    <3>3. sessionOf[d] \in Tokens
      BY <1>0, <2>1, Bounds DEF HubTypes
    <3> QED
      BY <1>5, <3>1, <3>2, <3>3 DEF Leaves, HubKeeps
  <2>2. live' \cup past' \subseteq 1..created'
    BY <1>0, <1>5 DEF Leaves, HubKeeps
  <2> QED
    BY <1>5, <2>1, <2>2 DEF Leaves
<1>6. CASE HasCreated
  BY <1>0, <1>6, Bounds DEF HasCreated, Takes, RoomTypes, HubTypes
<1>7. CASE HasRejoined
  BY <1>0, <1>7, Bounds DEF HasRejoined, Takes, RoomTypes, HubTypes
<1>8. CASE HasFailed
  BY <1>0, <1>8, Bounds DEF HasFailed, Takes, Asks, RoomTypes, HubTypes
<1>9. CASE HasConfirmed
  BY <1>0, <1>9, Bounds DEF HasConfirmed, Takes, RoomTypes, HubTypes
<1>10. CASE Heard
  BY <1>0, <1>10, Bounds DEF Heard, LinkKeeps, RoomTypes, HubTypes
<1>11. CASE Saves
  BY <1>0, <1>11, Bounds DEF Saves, LinkKeeps, RoomTypes, HubTypes
<1>12. CASE Refreshes
  BY <1>0, <1>12, Bounds DEF Refreshes, Asks, RoomTypes, HubTypes
<1>13. CASE Connected
  BY <1>0, <1>13, Bounds DEF Connected, Loss, Gone, RoomTypes, HubTypes
<1>14. CASE Paired
  BY <1>0, <1>14, Bounds DEF Paired, RoomTypes, HubTypes
<1>15. CASE Broke
  BY <1>0, <1>15, Bounds DEF Broke, Loss, Gone, RoomTypes, HubTypes
<1>16. CASE Restarted
  BY <1>0, <1>16, Bounds DEF Restarted, Loss, Gone, RoomTypes, HubTypes
<1>17. CASE Expired
  BY <1>0, <1>17, Bounds DEF Expired, RoomTypes, HubTypes
<1> QED
  BY <1>1, <1>2, <1>3, <1>4, <1>5, <1>6, <1>7, <1>8, <1>9, <1>10, <1>11, <1>12, <1>13, <1>14,
     <1>15, <1>16, <1>17 DEF Effect

-----------------------------------------------------------------------------
(* The session: answers and requests on the way *)

LEMMA AnsweredMore ==
  ASSUME NEW m, Answered(m)
  PROVE  /\ Len(toPc) + 1 \in Nat /\ Len(toPc) + 1 \in DOMAIN toPc'
         /\ toPc'[Len(toPc) + 1] = m
         /\ \A i \in DOMAIN toPc : i \in DOMAIN toPc' /\ i < Len(toPc) + 1 /\ toPc'[i] = toPc[i]
         /\ \A i \in DOMAIN toPc' : i \in DOMAIN toPc \/ i = Len(toPc) + 1
         /\ m.type = "session_created" => Creations' = Creations \cup {Len(toPc) + 1}
         /\ m.type # "session_created" => Creations' = Creations
         /\ m.type = "error" => Refusals' = Refusals \cup {Len(toPc) + 1}
         /\ m.type # "error" => Refusals' = Refusals
<1>1. /\ Len(toPc) + 1 \in Nat /\ Len(toPc) + 1 \in DOMAIN toPc'
      /\ toPc'[Len(toPc) + 1] = m
      /\ \A i \in DOMAIN toPc : i \in DOMAIN toPc' /\ i < Len(toPc) + 1 /\ toPc'[i] = toPc[i]
      /\ \A i \in DOMAIN toPc' : i \in DOMAIN toPc \/ i = Len(toPc) + 1
  BY DEF Answered
<1> QED
  BY <1>1 DEF Creations, Refusals

LEMMA TakesLess ==
  ASSUME NEW type, Takes(type)
  PROVE  /\ \A i \in Creations' : /\ i + 1 \in Creations /\ i \in Nat
                                  /\ toPc'[i] = toPc[i + 1]
         /\ \A i \in Creations : /\ i \in Nat \ {0}
                                 /\ i # 1 => /\ i - 1 \in Creations'
                                             /\ toPc'[i - 1] = toPc[i]
         /\ 1 \in Creations <=> type = "session_created"
         /\ \A i \in Refusals' : i + 1 \in Refusals /\ i \in Nat
         /\ \A i \in Refusals : i \in Nat \ {0} /\ (i # 1 => i - 1 \in Refusals')
         /\ 1 \in Refusals <=> type = "error"
BY DEF Takes, Creations, Refusals

\* The appended request asks, and the others are where they were.
LEMMA AsksMore ==
  ASSUME Asks
  PROVE  /\ \E i \in DOMAIN toHub'[conn] : toHub'[conn][i].type = "create_session"
         /\ \A i \in DOMAIN toHub'[conn] :
               \/ i \in DOMAIN toHub[conn] /\ toHub'[conn][i] = toHub[conn][i]
               \/ toHub'[conn][i].type = "create_session"
         /\ \A i \in DOMAIN toHub[conn] :
               i \in DOMAIN toHub'[conn] /\ toHub'[conn][i] = toHub[conn][i]
<1>1. Len(toHub[conn]) + 1 \in DOMAIN toHub'[conn]
  BY DEF Asks
<1> QED
  BY <1>1 DEF Asks

LEMMA PairedMore ==
  ASSUME Paired
  PROVE  /\ Creations' = Creations /\ Refusals' = Refusals
         /\ \A i \in DOMAIN toPc : i \in DOMAIN toPc' /\ toPc'[i] = toPc[i]
<1>1. \A i \in DOMAIN toPc : i \in DOMAIN toPc' /\ toPc'[i] = toPc[i]
  BY DEF Paired
<1>2. /\ \A i \in DOMAIN toPc' : i \in DOMAIN toPc \/ i = Len(toPc) + 1
      /\ toPc'[Len(toPc) + 1].type = "handshake_ack"
  BY DEF Paired
<1> QED
  BY <1>1, <1>2 DEF Creations, Refusals

LEMMA SameAnswers ==
  ASSUME toPc' = toPc PROVE Creations' = Creations /\ Refusals' = Refusals
BY DEF Creations, Refusals

LEMMA SameAsking ==
  ASSUME UNCHANGED <<conn, toHub, toPc>>
  PROVE  (Asking <=> Asking') /\ (Rejoining <=> Rejoining')
<1>1. Creations' = Creations
  BY SameAnswers
<1> QED
  BY <1>1 DEF Asking, Rejoining

\* A request for another session is answered, unless the connection is lost.
LEMMA AskingStays ==
  ASSUME IInv, Effect, Asking, ~HasCreated, ~Loss PROVE Asking'
<1>0. ConnInv /\ RejoinInv /\ RoomTypes /\ LinkTypes /\ conn # 0 /\ conn \in Conns
  BY Bounds DEF IInv, Asking, RoomTypes
<1>1. CASE Opened
  BY <1>0, <1>1 DEF Opened
<1>2. ASSUME NEW c \in Conns, Creates(c) PROVE Asking'
  <2>1. CASE c = conn
    <3>1. Creations' # {}
      BY <1>2, <2>1, AnsweredMore DEF Creates, Request
    <3> QED
      BY <1>0, <1>2, <3>1 DEF Asking, Creates, HubKeeps
  <2>2. CASE c # conn
    <3>1. toHub'[conn] = toHub[conn] /\ conn' = conn /\ toPc' = toPc
      BY <1>0, <1>2, <2>2 DEF Creates, Taken, HubKeeps
    <3> QED
      BY <3>1, SameAnswers DEF Asking
  <2> QED
    BY <2>1, <2>2
<1>3. ASSUME NEW c \in Conns, Rejoins(c) \/ Refuses(c) PROVE Asking'
  <2>0. /\ conn' = conn /\ Taken(c) /\ toHub[c][1].type = "rejoin_session"
        /\ \/ c = conn /\ \E m : Answered(m) /\ m.type # "session_created"
           \/ c # conn /\ toPc' = toPc
    BY <1>3 DEF Rejoins, Refuses, HubKeeps, Request
  <2>1. Creations' = Creations
    BY <2>0, AnsweredMore, SameAnswers
  <2>2. CASE Creations # {}
    BY <1>0, <2>0, <2>1, <2>2 DEF Asking
  <2>3. CASE Creations = {}
    <3>1. PICK i \in DOMAIN toHub[conn] : toHub[conn][i].type = "create_session"
      BY <2>3 DEF Asking
    <3>2. CASE c = conn
      <4>1. i # 1
        BY <2>0, <3>1, <3>2
      <4>2. i - 1 \in DOMAIN toHub'[conn] /\ toHub'[conn][i - 1] = toHub[conn][i]
        BY <2>0, <3>2, <4>1 DEF Taken
      <4> QED
        BY <1>0, <2>0, <3>1, <4>2 DEF Asking
    <3>3. CASE c # conn
      <4>1. toHub'[conn] = toHub[conn]
        BY <1>0, <2>0, <3>3 DEF Taken
      <4> QED
        BY <1>0, <2>0, <3>1, <4>1 DEF Asking
    <3> QED
      BY <3>2, <3>3
  <2> QED
    BY <2>2, <2>3
<1>4. ASSUME NEW c \in Conns, Leaves(c) PROVE Asking'
  BY <1>4, SameAsking DEF Leaves, HubKeeps
<1>5. CASE HasRejoined \/ HasConfirmed
  <2>1. toHub' = toHub /\ conn' = conn /\ (Takes("rejoined") \/ Takes("handshake_ack"))
    BY <1>5 DEF HasRejoined, HasConfirmed, Takes
  <2>2. Creations # {} => Creations' # {}
    BY <2>1, TakesLess
  <2> QED
    BY <2>1, <2>2 DEF Asking
<1>6. CASE HasFailed
  BY <1>0, <1>6, AsksMore DEF HasFailed, Takes, Asking
<1>7. CASE Heard \/ Saves \/ Expired
  BY <1>7, SameAsking DEF Heard, Saves, Expired, LinkKeeps
<1>8. CASE Refreshes
  BY <1>0, <1>8, AsksMore DEF Refreshes, Asking, Asks
<1>9. CASE Paired
  BY <1>9, PairedMore DEF Paired, Asking
<1> QED
  BY <1>1, <1>2, <1>3, <1>4, <1>5, <1>6, <1>7, <1>8, <1>9
     DEF Effect, Connected, Broke, Restarted

\* What the hub answers to a rejoin
LEMMA RejoinFirst ==
  ASSUME IInv, NEW c \in Conns, c = conn, Rejoins(c) \/ Refuses(c)
  PROVE  /\ Creations = {} /\ Refusals = {} /\ sessionOf[conn] = 0
         /\ token = toHub[c][1].token /\ token # 0
<1>1. 1 \in DOMAIN toHub[c] /\ toHub[c][1].type = "rejoin_session"
  BY DEF Rejoins, Refuses, Taken
<1> QED
  BY <1>1 DEF IInv, RejoinInv

LEMMA AskingRenews == (Asking => Renewing) /\ (Asking' => Renewing')
BY DEF Asking, Renewing, Creations

LEMMA RejoinStays == ASSUME IInv, Effect, TypeOK' PROVE RejoinInv'
<1> USE DEF RejoinInv
<1>0. /\ RejoinInv /\ ConnInv
      /\ RoomTypes /\ HubTypes /\ LinkTypes /\ TypeOK
  BY TypeParts DEF IInv
<1>1. CASE Opened
  <2>1. toPc' = <<>> /\ Creations' = {} /\ Refusals' = {}
    BY <1>0, <1>1 DEF Opened, ConnInv, Creations, Refusals
  <2>2. sessionOf'[conn'] = 0
    BY <1>0, <1>1, Bounds DEF Opened, ConnInv, RoomTypes
  <2>3. \A c \in Conns : c # conn' => toHub'[c] = toHub[c] /\ sessionOf'[c] = sessionOf[c]
    BY <1>1 DEF Opened
  <2>4. \A i \in DOMAIN toHub'[conn'] : toHub'[conn'][i].type = "rejoin_session" =>
            i = 1 /\ token' # 0 /\ toHub'[conn'][i].token = token'
    BY <1>1 DEF Opened
  <2> QED
    BY <1>0, <2>1, <2>2, <2>3, <2>4
<1>2. ASSUME NEW c \in Conns, Creates(c) PROVE RejoinInv'
  <2>1. ASSUME NEW i \in DOMAIN toHub'[c], toHub'[c][i].type = "rejoin_session" PROVE FALSE
    <3>1. i + 1 \in DOMAIN toHub[c] /\ toHub[c][i + 1].type = "rejoin_session" /\ i \in Nat \ {0}
      BY <1>2, <2>1 DEF Creates, Taken
    <3> QED
      BY <1>0, <3>1
  <2>2. ASSUME NEW d \in Conns, d # c
        PROVE  /\ toHub'[d] = toHub[d] /\ sessionOf'[d] = sessionOf[d]
               /\ d = conn => toPc' = toPc
    BY <1>2, <2>2 DEF Creates, Taken, Joins
  <2>3. conn' = conn /\ token' = token
    BY <1>2 DEF Creates, HubKeeps
  <2> QED
    BY <1>0, <2>1, <2>2, <2>3, SameAnswers
<1>3. ASSUME NEW c \in Conns, Rejoins(c) PROVE RejoinInv'
  <2>1. ASSUME NEW i \in DOMAIN toHub'[c], toHub'[c][i].type = "rejoin_session" PROVE FALSE
    <3>1. i + 1 \in DOMAIN toHub[c] /\ toHub[c][i + 1].type = "rejoin_session" /\ i \in Nat \ {0}
      BY <1>3, <2>1 DEF Rejoins, Taken
    <3> QED
      BY <1>0, <3>1
  <2>2. ASSUME NEW d \in Conns, d # c
        PROVE  /\ toHub'[d] = toHub[d] /\ sessionOf'[d] = sessionOf[d]
               /\ d = conn => toPc' = toPc
    BY <1>3, <2>2 DEF Rejoins, Taken, Joins
  <2>3. conn' = conn /\ token' = token
    BY <1>3 DEF Rejoins, HubKeeps
  <2> QED
    BY <1>0, <2>1, <2>2, <2>3, SameAnswers
<1>4. ASSUME NEW c \in Conns, Refuses(c) PROVE RejoinInv'
  <2>1. ASSUME NEW i \in DOMAIN toHub'[c], toHub'[c][i].type = "rejoin_session" PROVE FALSE
    <3>1. i + 1 \in DOMAIN toHub[c] /\ toHub[c][i + 1].type = "rejoin_session" /\ i \in Nat \ {0}
      BY <1>4, <2>1 DEF Refuses, Taken
    <3> QED
      BY <1>0, <3>1
  <2>2. ASSUME NEW d \in Conns, d # c
        PROVE  /\ toHub'[d] = toHub[d] /\ sessionOf'[d] = sessionOf[d]
               /\ d = conn => toPc' = toPc
    BY <1>4, <2>2 DEF Refuses, Taken, Joins
  <2>3. conn' = conn /\ token' = token
    BY <1>4 DEF Refuses, HubKeeps
  <2> QED
    BY <1>0, <2>1, <2>2, <2>3, SameAnswers
<1>5. ASSUME NEW c \in Conns, Leaves(c) PROVE RejoinInv'
  <2>1. /\ UNCHANGED <<toHub, conn, token, toPc>> /\ sessionOf'[c] = 0
        /\ \A d \in Conns : d # c => sessionOf'[d] = sessionOf[d]
    BY <1>5 DEF Leaves, HubKeeps
  <2> QED
    BY <1>0, <2>1, SameAnswers
<1>6. CASE HasCreated
  <2>1. UNCHANGED <<toHub, conn, sessionOf>> /\ Creations # {}
    BY <1>6, TakesLess DEF HasCreated, Takes
  <2> QED
    BY <1>0, <2>1
<1>7. CASE HasRejoined
  <2>1. UNCHANGED <<toHub, conn, sessionOf, token>>
    BY <1>7 DEF HasRejoined, Takes
  <2>2. (Creations = {} => Creations' = {}) /\ (Refusals = {} => Refusals' = {})
    BY <1>7, TakesLess DEF HasRejoined
  <2> QED
    BY <1>0, <2>1, <2>2
<1>8. CASE HasFailed
  <2>1. Asks /\ UNCHANGED <<conn, sessionOf>> /\ 1 \in Refusals /\ conn \in Conns
    BY <1>8 DEF HasFailed, Takes, Refusals
  <2>2. \A i \in DOMAIN toHub'[conn] : toHub'[conn][i].type # "rejoin_session"
    BY <1>0, <2>1, AsksMore
  <2>3. \A c \in Conns : c # conn => toHub'[c] = toHub[c]
    BY <2>1 DEF Asks
  <2> QED
    BY <1>0, <2>1, <2>2, <2>3
<1>9. CASE HasConfirmed
  <2>1. UNCHANGED <<toHub, conn, sessionOf, token>>
    BY <1>9 DEF HasConfirmed, Takes
  <2>2. (Creations = {} => Creations' = {}) /\ (Refusals = {} => Refusals' = {})
    BY <1>9, TakesLess DEF HasConfirmed
  <2> QED
    BY <1>0, <2>1, <2>2
<1>10. CASE Heard
  BY <1>0, <1>10, SameAnswers DEF Heard, LinkKeeps
<1>11. CASE Saves
  BY <1>0, <1>11, SameAnswers DEF Saves, LinkKeeps
<1>12. CASE Refreshes
  <2>1. UNCHANGED <<conn, sessionOf, token, toPc>>
    BY <1>12 DEF Refreshes
  <2>2. CASE conn = 0
    BY <1>0, <1>12, <2>1, <2>2, SameAnswers DEF Refreshes
  <2>3. CASE conn # 0
    <3>1. Asks /\ conn \in Conns
      BY <1>12, <2>3 DEF Refreshes, Asks
    <3>2. \A i \in DOMAIN toHub'[conn] : toHub'[conn][i].type = "rejoin_session" =>
              i \in DOMAIN toHub[conn] /\ toHub'[conn][i] = toHub[conn][i]
      BY <3>1, AsksMore
    <3>3. \A c \in Conns : c # conn => toHub'[c] = toHub[c]
      BY <3>1 DEF Asks
    <3> QED
      BY <1>0, <2>1, <3>2, <3>3, SameAnswers
  <2> QED
    BY <2>2, <2>3
<1>13. CASE Connected
  <2>1. /\ conn' = 0 /\ sessionOf' = sessionOf
        /\ \A c \in Conns : /\ DOMAIN toHub'[c] \subseteq DOMAIN toHub[c]
                            /\ \A i \in DOMAIN toHub'[c] : toHub'[c][i] = toHub[c][i]
    BY <1>13 DEF Connected, Loss, Gone
  <2> QED
    BY <1>0, <2>1, Bounds
<1>14. CASE Paired
  <2>1. UNCHANGED <<conn, sessionOf, token, toHub>>
    BY <1>14 DEF Paired
  <2> QED
    BY <1>0, <1>14, <2>1, PairedMore
<1>15. CASE Broke
  <2>1. /\ conn' = 0 /\ sessionOf' = sessionOf
        /\ \A c \in Conns : /\ DOMAIN toHub'[c] \subseteq DOMAIN toHub[c]
                            /\ \A i \in DOMAIN toHub'[c] : toHub'[c][i] = toHub[c][i]
    BY <1>15 DEF Broke, Loss, Gone
  <2> QED
    BY <1>0, <2>1, Bounds
<1>16. CASE Restarted
  <2>1. /\ conn' = 0 /\ sessionOf' = sessionOf
        /\ \A c \in Conns : /\ DOMAIN toHub'[c] \subseteq DOMAIN toHub[c]
                            /\ \A i \in DOMAIN toHub'[c] : toHub'[c][i] = toHub[c][i]
    BY <1>16 DEF Restarted, Loss, Gone
  <2> QED
    BY <1>0, <2>1, Bounds
<1>17. CASE Expired
  BY <1>0, <1>17, SameAnswers DEF Expired
<1> QED
  BY <1>1, <1>2, <1>3, <1>4, <1>5, <1>6, <1>7, <1>8, <1>9, <1>10, <1>11, <1>12, <1>13, <1>14,
     <1>15, <1>16, <1>17 DEF Effect

LEMMA AnswerStays == ASSUME IInv, Effect, TypeOK' PROVE AnswerInv'
<1> USE DEF AnswerInv
<1>0. /\ AnswerInv /\ ConnInv /\ FreshInv
      /\ RoomTypes /\ HubTypes /\ LinkTypes /\ TypeOK
  BY TypeParts DEF IInv
<1>1. CASE Opened
  <2>1. conn' \in Conns /\ conn' # 0 /\ toPc' = <<>> /\ token' = token
    BY <1>0, <1>1, Bounds DEF Opened, ConnInv
  <2>2. Creations' = {} /\ Refusals' = {}
    BY <2>1 DEF Creations, Refusals
  <2>3. sessionOf'[conn'] = 0
    BY <1>0, <1>1, Bounds DEF Opened, ConnInv, RoomTypes
  <2>4. token # 0 => Rejoining'
    BY <1>1, <2>1 DEF Opened, Rejoining
  <2>5. token = 0 => Asking'
    BY <1>1, <2>1 DEF Opened, Asking
  <2> QED
    BY <2>1, <2>2, <2>3, <2>4, <2>5
<1>2. ASSUME NEW c \in Conns, Creates(c) PROVE AnswerInv'
  <2>1. CASE c = conn
    <3>1. PICK n \in Nat : n = Len(toPc) + 1
      BY <1>2, <2>1, AnsweredMore DEF Creates
    <3>2. /\ Creations' = Creations \cup {n} /\ Refusals' = Refusals
          /\ toPc'[n].token = created'
          /\ \A i \in Creations \cup Refusals : i < n
      BY <1>2, <2>1, <3>1, AnsweredMore DEF Creates, Request, Creations, Refusals
    <3>3. sessionOf'[conn'] = created' /\ conn' = conn
      BY <1>2, <2>1 DEF Creates, Joins, HubKeeps
    <3>4. Asking'
      BY <1>0, <2>1, <3>2, <3>3, Bounds DEF Asking
    <3> QED
      BY <3>2, <3>3, <3>4
  <2>2. CASE c # conn
    <3>1. UNCHANGED <<conn, toPc, token>>
      BY <1>2, <2>2 DEF Creates, HubKeeps
    <3>2. conn # 0 => toHub'[conn] = toHub[conn] /\ sessionOf'[conn] = sessionOf[conn]
      BY <1>0, <1>2, <2>2, Bounds DEF Creates, Taken, Joins, RoomTypes
    <3>3. conn # 0 => (Asking <=> Asking') /\ (Rejoining <=> Rejoining')
      BY <3>1, <3>2, SameAnswers DEF Asking, Rejoining
    <3> QED
      BY <1>0, <3>1, <3>2, <3>3, SameAnswers
  <2> QED
    BY <2>1, <2>2
<1>3. ASSUME NEW c \in Conns, Rejoins(c) PROVE AnswerInv'
  <2>1. CASE c = conn
    <3>1. Creations' = {} /\ Refusals' = {}
      BY <1>3, <2>1, AnsweredMore, RejoinFirst DEF Rejoins, Request
    <3>2. sessionOf'[conn'] = token' /\ token' # 0
      BY <1>3, <2>1, RejoinFirst DEF Rejoins, Joins, HubKeeps
    <3> QED
      BY <3>1, <3>2
  <2>2. CASE c # conn
    <3>1. UNCHANGED <<conn, toPc, token>>
      BY <1>3, <2>2 DEF Rejoins, HubKeeps
    <3>2. conn # 0 => toHub'[conn] = toHub[conn] /\ sessionOf'[conn] = sessionOf[conn]
      BY <1>0, <1>3, <2>2, Bounds DEF Rejoins, Taken, Joins, RoomTypes
    <3>3. conn # 0 => (Asking <=> Asking') /\ (Rejoining <=> Rejoining')
      BY <3>1, <3>2, SameAnswers DEF Asking, Rejoining
    <3> QED
      BY <1>0, <3>1, <3>2, <3>3, SameAnswers
  <2> QED
    BY <2>1, <2>2
<1>4. ASSUME NEW c \in Conns, Refuses(c) PROVE AnswerInv'
  <2>1. CASE c = conn
    <3>1. Creations' = {} /\ Refusals' # {}
      BY <1>4, <2>1, AnsweredMore, RejoinFirst DEF Refuses, Request
    <3>2. sessionOf'[conn'] = 0 /\ token' # 0
      BY <1>4, <2>1, RejoinFirst DEF Refuses, HubKeeps
    <3> QED
      BY <3>1, <3>2
  <2>2. CASE c # conn
    <3>1. UNCHANGED <<conn, toPc, token>>
      BY <1>4, <2>2 DEF Refuses, HubKeeps
    <3>2. conn # 0 => toHub'[conn] = toHub[conn] /\ sessionOf'[conn] = sessionOf[conn]
      BY <1>0, <1>4, <2>2, Bounds DEF Refuses, Taken, Joins, RoomTypes
    <3>3. conn # 0 => (Asking <=> Asking') /\ (Rejoining <=> Rejoining')
      BY <3>1, <3>2, SameAnswers DEF Asking, Rejoining
    <3> QED
      BY <1>0, <3>1, <3>2, <3>3, SameAnswers
  <2> QED
    BY <2>1, <2>2
<1>5. ASSUME NEW c \in Conns, Leaves(c) PROVE AnswerInv'
  <2>1. UNCHANGED <<conn, toHub, toPc, token>>
    BY <1>5 DEF Leaves, HubKeeps
  <2>2. conn # 0 => sessionOf'[conn] = sessionOf[conn]
    BY <1>0, <1>5, Bounds DEF Leaves, RoomTypes
  <2> QED
    BY <1>0, <2>1, <2>2, SameAnswers, SameAsking
<1>6. CASE HasCreated
  <2>1. UNCHANGED <<conn, toHub, sessionOf>> /\ token' = toPc[1].token /\ conn # 0
        /\ Takes("session_created")
    BY <1>6, Bounds DEF HasCreated, Takes
  <2>2. 1 \in Creations /\ token' # 0
    <3>1. 1 \in Creations
      BY <2>1, TakesLess
    <3>2. token < toPc[1].token
      BY <1>0, <3>1 DEF FreshInv, Known
    <3> QED
      BY <1>0, <2>1, <3>1, <3>2 DEF RoomTypes
  <2>3. ASSUME NEW i \in Creations'
        PROVE  toPc'[i].token = sessionOf[conn] \/ \E j \in Creations' : j > i
    BY <1>0, <2>1, TakesLess
  <2>4. ASSUME NEW i \in Refusals'
        PROVE  sessionOf[conn] = 0 \/ \E j \in Creations' : j > i
    BY <1>0, <2>1, TakesLess
  <2>5. Creations' = {} => token' = sessionOf[conn]
    BY <1>0, <2>1, <2>2, TakesLess
  <2> QED
    BY <2>1, <2>2, <2>3, <2>4, <2>5
<1>7. CASE HasRejoined
  <2>1. UNCHANGED <<conn, toHub, token, sessionOf>> /\ conn # 0 /\ Takes("rejoined")
    BY <1>7, Bounds DEF HasRejoined, Takes
  <2>2. ASSUME NEW i \in Creations'
        PROVE  toPc'[i].token = sessionOf[conn] \/ \E j \in Creations' : j > i
    BY <1>0, <2>1, TakesLess
  <2>3. ASSUME NEW i \in Refusals'
        PROVE  sessionOf[conn] = 0 \/ \E j \in Creations' : j > i
    BY <1>0, <2>1, TakesLess
  <2>4. (Creations' = {} => Creations = {}) /\ (Refusals' = {} => Refusals = {})
    BY <2>1, TakesLess
  <2>5. (Asking => Asking') /\ (Rejoining => Rejoining')
    BY <2>1, <2>4 DEF Asking, Rejoining
  <2> QED
    BY <1>0, <2>1, <2>2, <2>3, <2>4, <2>5
<1>8. CASE HasFailed
  <2>1. UNCHANGED <<conn, sessionOf>> /\ token' = 0 /\ conn # 0 /\ Takes("error") /\ Asks
    BY <1>8, Bounds DEF HasFailed, Takes
  <2>2. ASSUME NEW i \in Creations'
        PROVE  toPc'[i].token = sessionOf[conn] \/ \E j \in Creations' : j > i
    BY <1>0, <2>1, TakesLess
  <2>3. ASSUME NEW i \in Refusals'
        PROVE  sessionOf[conn] = 0 \/ \E j \in Creations' : j > i
    BY <1>0, <2>1, TakesLess
  <2>4. Creations' = {} => sessionOf[conn] = 0
    BY <1>0, <2>1, TakesLess
  <2>5. Asking'
    BY <2>1, AsksMore DEF Asking
  <2> QED
    BY <2>1, <2>2, <2>3, <2>4, <2>5
<1>9. CASE HasConfirmed
  <2>1. UNCHANGED <<conn, toHub, token, sessionOf>> /\ conn # 0 /\ Takes("handshake_ack")
    BY <1>9, Bounds DEF HasConfirmed, Takes
  <2>2. ASSUME NEW i \in Creations'
        PROVE  toPc'[i].token = sessionOf[conn] \/ \E j \in Creations' : j > i
    BY <1>0, <2>1, TakesLess
  <2>3. ASSUME NEW i \in Refusals'
        PROVE  sessionOf[conn] = 0 \/ \E j \in Creations' : j > i
    BY <1>0, <2>1, TakesLess
  <2>4. (Creations' = {} => Creations = {}) /\ (Refusals' = {} => Refusals = {})
    BY <2>1, TakesLess
  <2>5. (Asking => Asking') /\ (Rejoining => Rejoining')
    BY <2>1, <2>4 DEF Asking, Rejoining
  <2> QED
    BY <1>0, <2>1, <2>2, <2>3, <2>4, <2>5
<1>10. CASE Heard
  <2>1. UNCHANGED <<conn, toHub, toPc, token, sessionOf>>
    BY <1>10 DEF Heard, LinkKeeps
  <2> QED
    BY <1>0, <2>1, SameAnswers, SameAsking
<1>11. CASE Saves
  <2>1. UNCHANGED <<conn, toHub, toPc, token, sessionOf>>
    BY <1>11 DEF Saves, LinkKeeps
  <2> QED
    BY <1>0, <2>1, SameAnswers, SameAsking
<1>12. CASE Refreshes
  <2>1. UNCHANGED <<conn, toPc, token, sessionOf>>
    BY <1>12 DEF Refreshes
  <2>2. CASE conn = 0
    BY <2>1, <2>2
  <2>3. CASE conn # 0
    <3>1. Asks
      BY <1>12, <2>3 DEF Refreshes
    <3>2. Asking' /\ (Rejoining => Rejoining')
      BY <2>1, <2>3, <3>1, AsksMore DEF Asking, Rejoining
    <3> QED
      BY <1>0, <2>1, <3>2, SameAnswers
  <2> QED
    BY <2>2, <2>3
<1>13. CASE Connected
  BY <1>13 DEF Connected, Loss, Gone
<1>14. CASE Paired
  <2>1. UNCHANGED <<conn, toHub, token, sessionOf>>
    BY <1>14 DEF Paired
  <2>2. /\ Creations' = Creations /\ Refusals' = Refusals
        /\ \A i \in Creations : toPc'[i] = toPc[i]
    BY <1>14, PairedMore DEF Creations
  <2>3. (Asking <=> Asking') /\ (Rejoining <=> Rejoining')
    BY <2>1, <2>2 DEF Asking, Rejoining
  <2> QED
    BY <1>0, <2>1, <2>2, <2>3
<1>15. CASE Broke
  BY <1>15 DEF Broke, Loss, Gone
<1>16. CASE Restarted
  BY <1>16 DEF Restarted, Loss, Gone
<1>17. CASE Expired
  <2>1. UNCHANGED <<conn, toHub, toPc, token, sessionOf>>
    BY <1>17 DEF Expired
  <2> QED
    BY <1>0, <2>1, SameAnswers, SameAsking
<1> QED
  BY <1>1, <1>2, <1>3, <1>4, <1>5, <1>6, <1>7, <1>8, <1>9, <1>10, <1>11, <1>12, <1>13, <1>14,
     <1>15, <1>16, <1>17 DEF Effect

LEMMA SavesKnown == ASSUME Persists PROVE saved'.session.token \in {0, token}
<1>1. CASE token = 0
  BY <1>1 DEF Persists, NoSession
<1>2. CASE token # 0
  BY <1>2 DEF Persists, Current
<1> QED
  BY <1>1, <1>2

LEMMA HeardKnown == ASSUME Heard PROVE Known' \subseteq Known \cup {0}
<1>1. saved'.session.token \in {0, token, saved.session.token}
  BY SavesKnown DEF Heard
<1>2. qr'.token \in {0, token, qr.token}
  BY DEF Heard, NoSession, Current
<1> QED
  BY <1>1, <1>2 DEF Heard, LinkKeeps, Known

LEMMA CreationTypes ==
  ASSUME LinkTypes
  PROVE  \A i \in Creations : i \in Nat /\ toPc[i] \in Messages /\ toPc[i].token \in Nat
<1> SUFFICES ASSUME NEW i \in Creations
             PROVE  i \in Nat /\ toPc[i] \in Messages /\ toPc[i].token \in Nat
  OBVIOUS
<1>1. toPc \in Seq(Messages) /\ i \in DOMAIN toPc
  BY DEF LinkTypes, Creations
<1>2. i \in Nat /\ toPc[i] \in Messages
  BY <1>1
<1> QED
  BY <1>2 DEF Messages

LEMMA ZeroFresh == ASSUME IInv PROVE \A i \in Creations : 0 < toPc[i].token
<1>1. RoomTypes /\ LinkTypes /\ FreshInv
  BY DEF IInv
<1> SUFFICES ASSUME NEW i \in Creations PROVE 0 < toPc[i].token
  OBVIOUS
<1>2. token < toPc[i].token /\ toPc[i].token \in Nat /\ token \in Nat
  BY <1>1, CreationTypes DEF FreshInv, Known, RoomTypes
<1> QED
  BY <1>2

LEMMA KnownTypes == ASSUME RoomTypes, WindowTypes PROVE Known \subseteq Nat
BY DEF RoomTypes, WindowTypes, Known, Pairs

LEMMA FreshStays == ASSUME IInv, Effect, TypeOK' PROVE FreshInv'
<1> USE DEF FreshInv
<1>0. /\ FreshInv /\ WindowTypes
      /\ RoomTypes /\ HubTypes /\ LinkTypes /\ TypeOK
  BY TypeParts DEF IInv
<1>k. Known \subseteq Nat
  BY <1>0, KnownTypes
<1>1. CASE Opened
  <2>1. Known' = Known /\ created' = created /\ toPc' = toPc
    BY <1>1 DEF Opened, Known
  <2> QED
    BY <1>0, <2>1, SameAnswers
<1>2. ASSUME NEW c \in Conns, Creates(c) PROVE FreshInv'
  <2>1. Known' = Known /\ created' = created + 1 /\ created \in Nat
    BY <1>0, <1>2 DEF Creates, HubKeeps, Known, HubTypes
  <2>2. CASE c # conn
    <3>1. toPc' = toPc
      BY <1>2, <2>2 DEF Creates
    <3>2. \A i \in Creations : toPc[i].token \in Nat
      BY <1>0, CreationTypes
    <3> QED
      BY <1>0, <1>k, <2>1, <3>1, <3>2, SameAnswers
  <2>3. CASE c = conn
    <3>1. PICK n \in Nat : n = Len(toPc) + 1
      BY <1>2, <2>3, AnsweredMore DEF Creates
    <3>2. /\ Creations' = Creations \cup {n} /\ toPc'[n].token = created'
          /\ \A i \in Creations : i < n /\ toPc'[i] = toPc[i]
      BY <1>2, <2>3, <3>1, AnsweredMore DEF Creates, Request, Creations
    <3>3. \A i \in Creations : toPc[i].token \in Nat /\ i \in Nat
      BY <1>0, CreationTypes
    <3>4. \A i \in Creations' : toPc'[i].token <= created' /\ \A t \in Known : t < toPc'[i].token
      BY <1>0, <1>k, <2>1, <3>2, <3>3
    <3>5. \A i, j \in Creations' : i < j => toPc'[i].token < toPc'[j].token
      BY <1>0, <2>1, <3>1, <3>2, <3>3
    <3> QED
      BY <1>0, <1>k, <2>1, <3>4, <3>5
  <2> QED
    BY <2>2, <2>3
<1>3. ASSUME NEW c \in Conns, Rejoins(c) PROVE FreshInv'
  <2>1. Known' = Known /\ created' = created
    BY <1>3 DEF Rejoins, HubKeeps, Known
  <2>2. Creations' = Creations /\ \A i \in Creations : toPc'[i] = toPc[i]
    <3>1. CASE c = conn
      BY <1>3, <3>1, AnsweredMore DEF Rejoins, Request, Creations
    <3>2. CASE c # conn
      BY <1>3, <3>2, SameAnswers DEF Rejoins
    <3> QED
      BY <3>1, <3>2
  <2> QED
    BY <1>0, <2>1, <2>2
<1>4. ASSUME NEW c \in Conns, Refuses(c) PROVE FreshInv'
  <2>1. Known' = Known /\ created' = created
    BY <1>4 DEF Refuses, HubKeeps, Known
  <2>2. Creations' = Creations /\ \A i \in Creations : toPc'[i] = toPc[i]
    <3>1. CASE c = conn
      BY <1>4, <3>1, AnsweredMore DEF Refuses, Request, Creations
    <3>2. CASE c # conn
      BY <1>4, <3>2, SameAnswers DEF Refuses
    <3> QED
      BY <3>1, <3>2
  <2> QED
    BY <1>0, <2>1, <2>2
<1>5. ASSUME NEW c \in Conns, Leaves(c) PROVE FreshInv'
  <2>1. Known' = Known /\ created' = created /\ toPc' = toPc
    BY <1>5 DEF Leaves, HubKeeps, Known
  <2> QED
    BY <1>0, <2>1, SameAnswers
<1>6. CASE HasCreated
  <2>1. /\ Known' \subseteq Known \cup {toPc[1].token} /\ created' = created
        /\ Takes("session_created")
    BY <1>6 DEF HasCreated, Takes, Known
  <2>2. /\ 1 \in Creations
        /\ \A i \in Creations' : i + 1 \in Creations /\ i \in Nat \ {0} /\ toPc'[i] = toPc[i + 1]
    BY <2>1, TakesLess DEF Takes, Creations
  <2> QED
    BY <1>0, <2>1, <2>2
<1>7. CASE HasRejoined
  <2>1. Known' = Known /\ created' = created /\ Takes("rejoined")
    BY <1>7 DEF HasRejoined, Takes, Known
  <2>2. \A i \in Creations' : i + 1 \in Creations /\ i \in Nat /\ toPc'[i] = toPc[i + 1]
    BY <2>1, TakesLess
  <2> QED
    BY <1>0, <2>1, <2>2
<1>8. CASE HasFailed
  <2>1. Known' \subseteq Known \cup {0} /\ created' = created /\ Takes("error")
    BY <1>8 DEF HasFailed, Takes, Known
  <2>2. \A i \in Creations' : i + 1 \in Creations /\ i \in Nat /\ toPc'[i] = toPc[i + 1]
    BY <2>1, TakesLess
  <2>3. ASSUME NEW i \in Creations' PROVE 0 < toPc'[i].token
    <3>1. token < toPc[i + 1].token
      BY <1>0, <2>2 DEF Known
    <3>2. toPc[i + 1] \in Messages
      BY <1>0, <2>2 DEF LinkTypes, Creations
    <3> QED
      BY <1>0, <2>2, <3>1, <3>2 DEF RoomTypes, Messages
  <2> QED
    BY <1>0, <2>1, <2>2, <2>3 DEF HubTypes
<1>9. CASE HasConfirmed
  <2>1. Known' = Known /\ created' = created /\ Takes("handshake_ack")
    BY <1>9 DEF HasConfirmed, Takes, Known
  <2>2. \A i \in Creations' : i + 1 \in Creations /\ i \in Nat /\ toPc'[i] = toPc[i + 1]
    BY <2>1, TakesLess
  <2> QED
    BY <1>0, <2>1, <2>2
<1>10. CASE Heard
  <2>1. Known' \subseteq Known \cup {0} /\ created' = created /\ toPc' = toPc
    BY <1>10, HeardKnown DEF Heard, LinkKeeps
  <2> QED
    BY <1>0, <1>k, <2>1, SameAnswers, ZeroFresh DEF HubTypes
<1>11. CASE Saves
  <2>1. Known' \subseteq Known \cup {0} /\ created' = created /\ toPc' = toPc
    BY <1>11, SavesKnown DEF Saves, LinkKeeps, Known
  <2> QED
    BY <1>0, <1>k, <2>1, SameAnswers, ZeroFresh DEF HubTypes
<1>12. CASE Refreshes
  <2>1. Known' = Known /\ created' = created /\ toPc' = toPc
    BY <1>12 DEF Refreshes, Known
  <2> QED
    BY <1>0, <2>1, SameAnswers
<1>13. CASE Connected
  <2>1. toPc' = <<>> /\ created' = created /\ Known' \subseteq Known \cup {0}
    BY <1>13 DEF Connected, Loss, Gone, Known
  <2>2. Creations' = {}
    BY <2>1 DEF Creations
  <2> QED
    BY <1>0, <2>1, <2>2 DEF HubTypes
<1>14. CASE Paired
  <2>1. Known' \subseteq Known /\ created' = created
    BY <1>14 DEF Paired, Known
  <2>2. Creations' = Creations /\ \A i \in Creations : toPc'[i] = toPc[i]
    BY <1>14, PairedMore DEF Creations
  <2> QED
    BY <1>0, <2>1, <2>2
<1>15. CASE Broke
  <2>1. toPc' = <<>> /\ created' = created /\ Known' \subseteq Known \cup {0}
    BY <1>15 DEF Broke, Loss, Gone, Known
  <2>2. Creations' = {}
    BY <2>1 DEF Creations
  <2> QED
    BY <1>0, <2>1, <2>2 DEF HubTypes
<1>16. CASE Restarted
  <2>1. toPc' = <<>> /\ created' = created /\ Known' \subseteq Known \cup {0}
    BY <1>16 DEF Restarted, Loss, Gone, Known, NoSession
  <2>2. Creations' = {}
    BY <2>1 DEF Creations
  <2> QED
    BY <1>0, <2>1, <2>2 DEF HubTypes
<1>17. CASE Expired
  <2>1. Known' = Known /\ created' = created /\ toPc' = toPc
    BY <1>17 DEF Expired, Known
  <2> QED
    BY <1>0, <2>1, SameAnswers
<1> QED
  BY <1>1, <1>2, <1>3, <1>4, <1>5, <1>6, <1>7, <1>8, <1>9, <1>10, <1>11, <1>12, <1>13, <1>14,
     <1>15, <1>16, <1>17 DEF Effect

LEMMA SameQr ==
  ASSUME QrInv, UNCHANGED <<conn, toPc, events, qr, token, key>>,
         conn # 0 => toHub'[conn] = toHub[conn]
  PROVE  QrInv'
<1>1. Current' = Current
  BY DEF Current
<1> QED
  BY <1>1 DEF QrInv, Renewing

LEMMA QrStays == ASSUME IInv, Effect, TypeOK' PROVE QrInv'
<1> USE DEF QrInv
<1>0. /\ QrInv /\ AnswerInv
      /\ RoomTypes /\ LinkTypes
  BY TypeParts DEF IInv
<1>1. CASE Opened
  BY <1>1 DEF Opened, Renewing
<1>2. ASSUME NEW c \in Conns, Creates(c) PROVE QrInv'
  <2>1. CASE c = conn
    <3>1. \E i \in DOMAIN toPc' : toPc'[i].type # "handshake_ack"
      BY <1>2, <2>1, AnsweredMore DEF Creates, Request
    <3> QED
      BY <3>1 DEF Renewing
  <2>2. CASE c # conn
    <3>1. UNCHANGED <<conn, toPc, events, qr, token, key>>
      BY <1>2, <2>2 DEF Creates, HubKeeps
    <3>2. conn # 0 => toHub'[conn] = toHub[conn]
      BY <1>0, <1>2, <2>2, Bounds DEF Creates, Taken, RoomTypes
    <3> QED
      BY <1>0, <3>1, <3>2, SameQr
  <2> QED
    BY <2>1, <2>2
<1>3. ASSUME NEW c \in Conns, Rejoins(c) PROVE QrInv'
  <2>1. CASE c = conn
    <3>1. \E i \in DOMAIN toPc' : toPc'[i].type # "handshake_ack"
      BY <1>3, <2>1, AnsweredMore DEF Rejoins, Request
    <3> QED
      BY <3>1 DEF Renewing
  <2>2. CASE c # conn
    <3>1. UNCHANGED <<conn, toPc, events, qr, token, key>>
      BY <1>3, <2>2 DEF Rejoins, HubKeeps
    <3>2. conn # 0 => toHub'[conn] = toHub[conn]
      BY <1>0, <1>3, <2>2, Bounds DEF Rejoins, Taken, RoomTypes
    <3> QED
      BY <1>0, <3>1, <3>2, SameQr
  <2> QED
    BY <2>1, <2>2
<1>4. ASSUME NEW c \in Conns, Refuses(c) PROVE QrInv'
  <2>1. CASE c = conn
    <3>1. \E i \in DOMAIN toPc' : toPc'[i].type # "handshake_ack"
      BY <1>4, <2>1, AnsweredMore DEF Refuses, Request
    <3> QED
      BY <3>1 DEF Renewing
  <2>2. CASE c # conn
    <3>1. UNCHANGED <<conn, toPc, events, qr, token, key>>
      BY <1>4, <2>2 DEF Refuses, HubKeeps
    <3>2. conn # 0 => toHub'[conn] = toHub[conn]
      BY <1>0, <1>4, <2>2, Bounds DEF Refuses, Taken, RoomTypes
    <3> QED
      BY <1>0, <3>1, <3>2, SameQr
  <2> QED
    BY <2>1, <2>2
<1>5. ASSUME NEW c \in Conns, Leaves(c) PROVE QrInv'
  BY <1>0, <1>5, SameQr DEF Leaves, HubKeeps
<1>6. CASE HasCreated
  BY <1>6 DEF HasCreated, Renewing
<1>7. CASE HasRejoined
  BY <1>7 DEF HasRejoined, Renewing
<1>8. CASE HasFailed
  BY <1>8 DEF HasFailed, Asks, Renewing
<1>9. CASE HasConfirmed
  <2>1. /\ Takes("handshake_ack") /\ UNCHANGED <<conn, toHub, qr, token, key>>
        /\ Range(events) \subseteq Range(events')
    BY <1>9 DEF HasConfirmed, Takes
  <2>2. \A i \in DOMAIN toPc : toPc[i].type # "handshake_ack" =>
            i - 1 \in DOMAIN toPc' /\ toPc'[i - 1] = toPc[i]
    BY <2>1 DEF Takes
  <2>3. Current' = Current
    BY <2>1 DEF Current
  <2>4. Renewing => Renewing'
    BY <2>1, <2>2 DEF Renewing
  <2> QED
    BY <1>0, <2>1, <2>3, <2>4
<1>10. CASE Heard
  <2>0. UNCHANGED <<conn, toHub, toPc, token, key>> /\ Current' = Current
    BY <1>10 DEF Heard, LinkKeeps, Current
  <2>1. CASE conn = 0
    BY <2>0, <2>1
  <2>2. CASE conn # 0 /\ token = 0
    <3>1. Asking
      BY <1>0, <2>2 DEF AnswerInv
    <3>2. Asking'
      BY <2>0, <3>1, SameAsking
    <3> QED
      BY <3>2, AskingRenews
  <2>3. CASE conn # 0 /\ token # 0
    <3>1. \/ qr' = Current
          \/ qr' = qr /\ ({"created", "recovered"} \cap Range(events) # {} =>
                            {"created", "recovered"} \cap Range(events') # {})
      BY <1>10, <2>3 DEF Heard
    <3>2. CASE qr' = Current
      BY <2>0, <3>2
    <3>3. CASE qr' = qr /\ ({"created", "recovered"} \cap Range(events) # {} =>
                               {"created", "recovered"} \cap Range(events') # {})
      BY <1>0, <2>0, <3>3 DEF Renewing
    <3> QED
      BY <3>1, <3>2, <3>3
  <2> QED
    BY <2>1, <2>2, <2>3
<1>11. CASE Saves
  BY <1>0, <1>11, SameQr DEF Saves, LinkKeeps
<1>12. CASE Refreshes
  <2>1. CASE conn = 0
    BY <1>12, <2>1 DEF Refreshes
  <2>2. CASE conn # 0
    BY <1>12, <2>2 DEF Refreshes, Asks, Renewing
  <2> QED
    BY <2>1, <2>2
<1>13. CASE Connected
  BY <1>13 DEF Connected, Loss, Gone
<1>14. CASE Paired
  <2>1. UNCHANGED <<conn, toHub, events, qr, token, key>>
    BY <1>14 DEF Paired
  <2>2. \A i \in DOMAIN toPc : i \in DOMAIN toPc' /\ toPc'[i] = toPc[i]
    BY <1>14, PairedMore
  <2>3. Current' = Current
    BY <2>1 DEF Current
  <2>4. Renewing => Renewing'
    BY <2>1, <2>2 DEF Renewing
  <2> QED
    BY <1>0, <2>1, <2>3, <2>4
<1>15. CASE Broke
  BY <1>15 DEF Broke, Loss, Gone
<1>16. CASE Restarted
  BY <1>16 DEF Restarted, Loss, Gone
<1>17. CASE Expired
  BY <1>0, <1>17, SameQr DEF Expired
<1> QED
  BY <1>1, <1>2, <1>3, <1>4, <1>5, <1>6, <1>7, <1>8, <1>9, <1>10, <1>11, <1>12, <1>13, <1>14,
     <1>15, <1>16, <1>17 DEF Effect

LEMMA AsksAsks == ASSUME Asks PROVE Asking'
<1>1. conn' \in Conns /\ \E i \in DOMAIN toHub'[conn'] : toHub'[conn'][i].type = "create_session"
  BY AsksMore DEF Asks
<1> QED
  BY <1>1, Bounds DEF Asking

LEMMA SavingStays ==
  ASSUME IInv, Effect, conn' = conn, Saving,
         "created" \in Range(events) => "created" \in Range(events')
  PROVE  Saving'
<1>1. CASE "created" \in Range(events)
  BY <1>1 DEF Saving
<1>2. CASE Asking
  <2>1. ~Loss
    BY <1>2 DEF Asking, Loss, Gone
  <2>2. HasCreated \/ Asking'
    BY <1>2, <2>1, AskingStays
  <2> QED
    BY <2>2 DEF Saving, HasCreated
<1> QED
  BY <1>1, <1>2 DEF Saving

LEMMA NoSessionIs ==
  ASSUME NEW p \in Pairs, p.token = 0, p.key = 0 PROVE p = NoSession
BY DEF Pairs, NoSession

LEMMA UnchangedSaved ==
  ASSUME SavedInv, UNCHANGED <<token, key, trusted, saved, mishaps>>, Saving => Saving',
         "ready" \in Range(events) => "ready" \in Range(events')
  PROVE  SavedInv'
<1>1. Current' = Current /\ (Spared({"unanswered"})' <=> Spared({"unanswered"}))
  BY DEF Current, Spared
<1>2. saved.trusted = (token # 0 /\ trusted) => saved'.trusted = (token' # 0 /\ trusted')
  BY Zenon
<1> QED
  BY <1>1, <1>2 DEF SavedInv

LEMMA SameSaved ==
  ASSUME IInv, Effect, UNCHANGED <<conn, token, key, trusted, saved, mishaps>>,
         Range(events) \subseteq Range(events')
  PROVE  SavedInv'
<1>1. Saving => Saving'
  BY SavingStays
<1> QED
  BY <1>1, UnchangedSaved DEF IInv

\* What PersistSettings leaves
LEMMA PersistsSaved ==
  ASSUME RoomTypes, UNCHANGED <<token, key, trusted>>, Persists PROVE SavedInv'
<1>1. CASE token = 0
  <2>1. saved'.session = NoSession /\ saved'.trusted = FALSE
    BY <1>1 DEF Persists
  <2>2. saved'.trusted = (token' # 0 /\ trusted')
    BY <1>1, <2>1, Zenon
  <2> QED
    BY <1>1, <2>1, <2>2 DEF SavedInv, NoSession
<1>2. CASE token # 0
  <2>1. saved'.session = Current /\ saved'.trusted = trusted /\ Current' = Current
    BY <1>2 DEF Persists, Current
  <2>2. trusted \in BOOLEAN
    BY DEF RoomTypes
  <2>3. saved'.trusted = (token' # 0 /\ trusted')
    BY <1>2, <2>1, <2>2, Zenon
  <2> QED
    BY <1>2, <2>1, <2>3 DEF SavedInv, Current
<1> QED
  BY <1>1, <1>2

\* A connection that is lost takes a request with it only where there is nothing to save.
LEMMA LossSaved ==
  ASSUME WindowTypes, SavedInv, UNCHANGED <<token, saved>>,
         token # 0 => UNCHANGED <<key, trusted>>,
         Range(events) \subseteq Range(events'),
         Spared({"unanswered"})' => Spared({"unanswered"}),
         Asking /\ Spared({"unanswered"})' => token = 0 /\ saved.session.token = 0
  PROVE  SavedInv'
<1>1. saved.session \in Pairs /\ saved.trusted \in BOOLEAN
  BY DEF WindowTypes
<1>2. token # 0 => Current' = Current
  BY DEF Current
<1>3. saved.trusted = (token # 0 /\ trusted) => saved'.trusted = (token' # 0 /\ trusted')
  <2>1. CASE token = 0
    BY <2>1, Zenon
  <2>2. CASE token # 0
    <3>1. trusted' = trusted /\ token' = token /\ saved' = saved
      BY <2>2, Zenon
    <3> QED
      BY <3>1, Zenon
  <2> QED
    BY <2>1, <2>2
<1>4. ASSUME token = 0, saved.session.token = 0
      PROVE  saved.session = NoSession /\ saved'.trusted = (token' # 0 /\ trusted')
  <2>1. saved.session = NoSession /\ ~saved.trusted
    BY <1>1, <1>4, NoSessionIs DEF SavedInv
  <2> QED
    BY <1>1, <1>4, <2>1, Zenon
<1> QED
  BY <1>2, <1>3, <1>4 DEF SavedInv, Saving

LEMMA SavedStays == ASSUME IInv, Effect, TypeOK' PROVE SavedInv'
<1> USE DEF SavedInv
<1>0. /\ SavedInv
      /\ WindowTypes /\ RoomTypes
  BY TypeParts DEF IInv
<1>1. CASE Opened
  <2>1. /\ UNCHANGED <<token, key, trusted, saved, mishaps>> /\ conn = 0
        /\ Range(events) \subseteq Range(events')
    BY <1>1 DEF Opened
  <2>2. ~Asking
    BY <2>1 DEF Asking
  <2>3. Saving => Saving'
    BY <2>1, <2>2 DEF Saving
  <2> QED
    BY <1>0, <2>1, <2>3, UnchangedSaved
<1>2. ASSUME NEW c \in Conns, Creates(c) PROVE SavedInv'
  <2>1. /\ UNCHANGED <<conn, token, key, trusted, saved, mishaps>>
        /\ Range(events) \subseteq Range(events')
    BY <1>2 DEF Creates, HubKeeps
  <2> QED
    BY <1>0, <2>1, SameSaved
<1>3. ASSUME NEW c \in Conns, Rejoins(c) PROVE SavedInv'
  <2>1. /\ UNCHANGED <<conn, token, key, trusted, saved, mishaps>>
        /\ Range(events) \subseteq Range(events')
    BY <1>3 DEF Rejoins, HubKeeps
  <2> QED
    BY <1>0, <2>1, SameSaved
<1>4. ASSUME NEW c \in Conns, Refuses(c) PROVE SavedInv'
  <2>1. /\ UNCHANGED <<conn, token, key, trusted, saved, mishaps>>
        /\ Range(events) \subseteq Range(events')
    BY <1>4 DEF Refuses, HubKeeps
  <2> QED
    BY <1>0, <2>1, SameSaved
<1>5. ASSUME NEW c \in Conns, Leaves(c) PROVE SavedInv'
  <2>1. /\ UNCHANGED <<conn, token, key, trusted, saved, mishaps>>
        /\ Range(events) \subseteq Range(events')
    BY <1>5 DEF Leaves, HubKeeps
  <2> QED
    BY <1>0, <2>1, SameSaved
<1>6. CASE HasCreated
  <2>1. saved' = saved /\ "created" \in Range(events')
    BY <1>6 DEF HasCreated, Takes
  <2> QED
    BY <1>0, <2>1 DEF Saving
<1>7. CASE HasRejoined
  <2>1. /\ UNCHANGED <<conn, token, key, trusted, saved, mishaps>>
        /\ Range(events) \subseteq Range(events')
    BY <1>7 DEF HasRejoined, Takes
  <2> QED
    BY <1>0, <2>1, SameSaved
<1>8. CASE HasFailed
  <2>1. saved' = saved
    BY <1>8 DEF HasFailed, Takes
  <2>2. Asking'
    BY <1>8, AsksAsks DEF HasFailed
  <2> QED
    BY <1>0, <2>1, <2>2 DEF Saving
<1>9. CASE HasConfirmed
  <2>1. /\ UNCHANGED <<conn, token, key, saved, mishaps>>
        /\ Range(events) \subseteq Range(events')
        /\ trusted' = trusted \/ "ready" \in Range(events')
    BY <1>9 DEF HasConfirmed, Takes
  <2>2. CASE trusted' = trusted
    BY <1>0, <2>1, <2>2, SameSaved
  <2>3. CASE "ready" \in Range(events')
    <3>1. Saving => Saving'
      BY <2>1, SavingStays
    <3>2. Current' = Current /\ (Spared({"unanswered"})' <=> Spared({"unanswered"}))
      BY <2>1 DEF Current, Spared
    <3> QED
      BY <1>0, <2>1, <2>3, <3>1, <3>2
  <2> QED
    BY <2>1, <2>2, <2>3
<1>10. CASE Heard
  <2> PICK e \in Kinds :
          /\ LinkKeeps
          /\ Range(events) \subseteq Range(events') \cup {e}
          /\ IF e \in {"created", "ready"} THEN Persists ELSE saved' = saved
    BY <1>10 DEF Heard
  <2>1. UNCHANGED <<conn, token, key, trusted, mishaps>>
    BY DEF LinkKeeps
  <2>2. CASE e \in {"created", "ready"}
    BY <1>0, <2>1, <2>2, PersistsSaved
  <2>3. CASE e \notin {"created", "ready"}
    <3>1. /\ saved' = saved
          /\ "created" \in Range(events) => "created" \in Range(events')
          /\ "ready" \in Range(events) => "ready" \in Range(events')
      BY <2>3
    <3>2. Saving => Saving'
      BY <2>1, <3>1, SavingStays
    <3> QED
      BY <1>0, <2>1, <3>1, <3>2, UnchangedSaved
  <2> QED
    BY <2>2, <2>3
<1>11. CASE Saves
  <2>1. UNCHANGED <<token, key, trusted, mishaps>> /\ Persists
    BY <1>11 DEF Saves, LinkKeeps
  <2> QED
    BY <1>0, <2>1, PersistsSaved
<1>12. CASE Refreshes
  <2>1. saved' = saved
    BY <1>12 DEF Refreshes
  <2>2. CASE conn = 0
    <3>1. ~Spared({"unanswered"})'
      BY <1>12, <2>2 DEF Refreshes, Spared
    <3> QED
      BY <1>0, <2>1, <3>1
  <2>3. CASE conn # 0
    <3>1. Asking'
      BY <1>12, <2>3, AsksAsks DEF Refreshes
    <3> QED
      BY <1>0, <2>1, <3>1 DEF Saving
  <2> QED
    BY <2>2, <2>3
<1>13. CASE Connected
  <2>1. /\ UNCHANGED <<token, saved>> /\ (token # 0 => UNCHANGED <<key, trusted>>)
        /\ Range(events) \subseteq Range(events')
        /\ Spared({"unanswered"})' => Spared({"unanswered"})
        /\ Asking /\ Spared({"unanswered"})' => token = 0 /\ saved.session.token = 0
    BY <1>13 DEF Connected, Loss
  <2> QED
    BY <1>0, <2>1, LossSaved
<1>14. CASE Paired
  <2>1. /\ UNCHANGED <<conn, token, key, trusted, saved, mishaps>>
        /\ Range(events) \subseteq Range(events')
    BY <1>14 DEF Paired
  <2> QED
    BY <1>0, <2>1, SameSaved
<1>15. CASE Broke
  <2>1. /\ UNCHANGED <<token, saved>> /\ (token # 0 => UNCHANGED <<key, trusted>>)
        /\ Range(events) \subseteq Range(events')
        /\ Spared({"unanswered"})' => Spared({"unanswered"})
        /\ Asking /\ Spared({"unanswered"})' => token = 0 /\ saved.session.token = 0
    BY <1>15 DEF Broke, Loss
  <2> QED
    BY <1>0, <2>1, LossSaved
<1>16. CASE Restarted
  <2>1. /\ saved' = saved /\ token' = saved.session.token /\ trusted' = saved.trusted
        /\ token' # 0 => key' = saved.session.key
    BY <1>16 DEF Restarted, Loss
  <2>2. saved.session \in Pairs /\ saved.trusted \in BOOLEAN
    BY <1>0 DEF WindowTypes
  <2>3. CASE token' = 0
    <3>1. saved.session = NoSession /\ ~saved.trusted
      BY <1>0, <2>1, <2>2, <2>3, NoSessionIs
    <3>2. saved'.trusted = (token' # 0 /\ trusted')
      BY <2>1, <2>2, <2>3, <3>1, Zenon
    <3> QED
      BY <1>0, <2>1, <2>3, <3>1, <3>2
  <2>4. CASE token' # 0
    <3>1. saved.session = Current'
      BY <2>1, <2>2, <2>4 DEF Current, Pairs
    <3>2. saved'.trusted = (token' # 0 /\ trusted')
      BY <2>1, <2>2, <2>4, Zenon
    <3> QED
      BY <1>0, <2>1, <2>4, <3>1, <3>2
  <2> QED
    BY <2>3, <2>4
<1>17. CASE Expired
  <2>1. /\ UNCHANGED <<conn, token, key, trusted, saved, mishaps>>
        /\ Range(events) \subseteq Range(events')
    BY <1>17 DEF Expired
  <2> QED
    BY <1>0, <2>1, SameSaved
<1> QED
  BY <1>1, <1>2, <1>3, <1>4, <1>5, <1>6, <1>7, <1>8, <1>9, <1>10, <1>11, <1>12, <1>13, <1>14,
     <1>15, <1>16, <1>17 DEF Effect

\* Until the token is replaced
LEMMA AskingKept ==
  ASSUME IInv, Effect, UNCHANGED <<conn, token>>, Asking PROVE Asking'
<1>1. ~Loss
  BY DEF Asking, Loss, Gone
<1>2. ASSUME HasCreated PROVE FALSE
  <2>1. 1 \in Creations /\ token' = toPc[1].token
    BY <1>2, TakesLess DEF HasCreated
  <2>2. token < toPc[1].token /\ token \in Nat /\ toPc[1].token \in Nat
    BY <2>1, CreationTypes, Bounds DEF IInv, FreshInv, Known, RoomTypes
  <2> QED
    BY <2>1, <2>2
<1> QED
  BY <1>1, <1>2, AskingStays

LEMMA UnchangedPhone ==
  ASSUME PhoneInv, UNCHANGED <<token, key, saved, phone, mishaps>>,
         Asking => Asking', Saving => Saving'
  PROVE  PhoneInv'
BY DEF PhoneInv, Spared

LEMMA PersistsPhone ==
  ASSUME PhoneInv, UNCHANGED <<token, key, phone, mishaps>>, Asking => Asking', Persists
  PROVE  PhoneInv'
<1>1. Spared({"unanswered"})' <=> Spared({"unanswered"})
  BY DEF Spared
<1>2. /\ token = 0 => saved'.session.token = 0
      /\ token # 0 => saved'.session.token = token /\ saved'.session.key = key
  BY DEF Persists, NoSession, Current
<1> QED
  BY <1>1, <1>2 DEF PhoneInv, Saving

LEMMA LossPhone ==
  ASSUME PhoneInv, UNCHANGED <<token, saved, phone>>, token # 0 => key' = key,
         Range(events) \subseteq Range(events'),
         Spared({"unanswered"})' => Spared({"unanswered"}),
         Asking /\ Spared({"unanswered"})' => token = 0 /\ saved.session.token = 0
  PROVE  PhoneInv'
BY DEF PhoneInv, Saving

LEMMA PhoneStays == ASSUME IInv, Effect, TypeOK' PROVE PhoneInv'
<1> USE DEF PhoneInv
<1>0. /\ PhoneInv /\ SavedInv /\ FreshInv
      /\ WindowTypes /\ RoomTypes /\ HubTypes
  BY TypeParts DEF IInv
<1>1. CASE Opened
  <2>1. /\ UNCHANGED <<token, key, saved, phone, mishaps>> /\ conn = 0
        /\ Range(events) \subseteq Range(events')
    BY <1>1 DEF Opened
  <2>2. ~Asking
    BY <2>1 DEF Asking
  <2>3. Saving => Saving'
    BY <2>1, <2>2 DEF Saving
  <2> QED
    BY <1>0, <2>1, <2>2, <2>3, UnchangedPhone
<1>2. ASSUME NEW c \in Conns, Creates(c) PROVE PhoneInv'
  <2>1. /\ UNCHANGED <<conn, token, key, saved, phone, mishaps>>
        /\ Range(events) \subseteq Range(events')
    BY <1>2 DEF Creates, HubKeeps
  <2> QED
    BY <1>0, <2>1, AskingKept, SavingStays, UnchangedPhone
<1>3. ASSUME NEW c \in Conns, Rejoins(c) PROVE PhoneInv'
  <2>1. /\ UNCHANGED <<conn, token, key, saved, phone, mishaps>>
        /\ Range(events) \subseteq Range(events')
    BY <1>3 DEF Rejoins, HubKeeps
  <2> QED
    BY <1>0, <2>1, AskingKept, SavingStays, UnchangedPhone
<1>4. ASSUME NEW c \in Conns, Refuses(c) PROVE PhoneInv'
  <2>1. /\ UNCHANGED <<conn, token, key, saved, phone, mishaps>>
        /\ Range(events) \subseteq Range(events')
    BY <1>4 DEF Refuses, HubKeeps
  <2> QED
    BY <1>0, <2>1, AskingKept, SavingStays, UnchangedPhone
<1>5. ASSUME NEW c \in Conns, Leaves(c) PROVE PhoneInv'
  <2>1. /\ UNCHANGED <<conn, token, key, saved, phone, mishaps>>
        /\ Range(events) \subseteq Range(events')
    BY <1>5 DEF Leaves, HubKeeps
  <2> QED
    BY <1>0, <2>1, AskingKept, SavingStays, UnchangedPhone
<1>6. CASE HasCreated
  <2>1. /\ phone' = phone /\ token' = toPc[1].token /\ "created" \in Range(events')
        /\ 1 \in Creations
    BY <1>6, TakesLess DEF HasCreated, Takes
  <2>2. phone.token < toPc[1].token /\ phone.token \in Nat
    BY <1>0, <2>1 DEF FreshInv, Known, WindowTypes, Pairs
  <2>3. toPc[1].token \in Nat
    BY <1>0, <2>1, CreationTypes DEF IInv
  <2>4. phone'.token # token'
    BY <2>1, <2>2, <2>3
  <2> QED
    BY <2>1, <2>4 DEF Saving
<1>7. CASE HasRejoined
  <2>1. /\ UNCHANGED <<conn, token, key, saved, phone, mishaps>>
        /\ Range(events) \subseteq Range(events')
    BY <1>7 DEF HasRejoined, Takes
  <2> QED
    BY <1>0, <2>1, AskingKept, SavingStays, UnchangedPhone
<1>8. CASE HasFailed
  <2>1. token' = 0 /\ Asking'
    BY <1>8, AsksAsks DEF HasFailed
  <2> QED
    BY <2>1 DEF Saving
<1>9. CASE HasConfirmed
  <2>1. /\ UNCHANGED <<conn, token, key, saved, phone, mishaps>>
        /\ Range(events) \subseteq Range(events')
    BY <1>9 DEF HasConfirmed, Takes
  <2> QED
    BY <1>0, <2>1, AskingKept, SavingStays, UnchangedPhone
<1>10. CASE Heard
  <2> PICK e \in Kinds :
          /\ LinkKeeps /\ UNCHANGED phone
          /\ Range(events) \subseteq Range(events') \cup {e}
          /\ IF e \in {"created", "ready"} THEN Persists ELSE saved' = saved
    BY <1>10 DEF Heard
  <2>1. UNCHANGED <<conn, token, key, phone, mishaps>>
    BY DEF LinkKeeps
  <2>2. CASE e \in {"created", "ready"}
    BY <1>0, <2>1, <2>2, AskingKept, PersistsPhone
  <2>3. CASE e \notin {"created", "ready"}
    <3>1. saved' = saved /\ ("created" \in Range(events) => "created" \in Range(events'))
      BY <2>3
    <3> QED
      BY <1>0, <2>1, <3>1, AskingKept, SavingStays, UnchangedPhone
  <2> QED
    BY <2>2, <2>3
<1>11. CASE Saves
  <2>1. UNCHANGED <<conn, token, key, phone, mishaps>> /\ Persists
    BY <1>11 DEF Saves, LinkKeeps
  <2> QED
    BY <1>0, <2>1, AskingKept, PersistsPhone
<1>12. CASE Refreshes
  <2>1. CASE conn = 0
    BY <1>12, <2>1 DEF Refreshes, Spared
  <2>2. CASE conn # 0
    <3>1. Asking'
      BY <1>12, <2>2, AsksAsks DEF Refreshes
    <3> QED
      BY <3>1 DEF Saving
  <2> QED
    BY <2>1, <2>2
<1>13. CASE Connected
  <2>1. /\ UNCHANGED <<token, saved, phone>> /\ (token # 0 => key' = key)
        /\ Range(events) \subseteq Range(events')
        /\ Spared({"unanswered"})' => Spared({"unanswered"})
        /\ Asking /\ Spared({"unanswered"})' => token = 0 /\ saved.session.token = 0
    BY <1>13 DEF Connected, Loss
  <2> QED
    BY <1>0, <2>1, LossPhone
<1>14. CASE Paired
  <2>1. /\ UNCHANGED <<conn, token, key, events, saved, mishaps>>
        /\ phone' = qr /\ qr.key = key
    BY <1>14 DEF Paired
  <2>2. Saving => Saving'
    BY <2>1, SavingStays
  <2>3. /\ token = 0 => NoSession.token = 0
        /\ Current.token = token /\ Current.key = key
    BY DEF NoSession, Current
  <2>4. Spared({"unanswered"})' <=> Spared({"unanswered"})
    BY <2>1 DEF Spared
  <2>5. ASSUME Spared({"unanswered"}), qr.token # 0, qr.token = saved.session.token, ~Saving
        PROVE  saved.session.key = key
    BY <1>0, <2>3, <2>5 DEF SavedInv
  <2> QED
    BY <2>1, <2>2, <2>4, <2>5
<1>15. CASE Broke
  <2>1. /\ UNCHANGED <<token, saved, phone>> /\ (token # 0 => key' = key)
        /\ Range(events) \subseteq Range(events')
        /\ Spared({"unanswered"})' => Spared({"unanswered"})
        /\ Asking /\ Spared({"unanswered"})' => token = 0 /\ saved.session.token = 0
    BY <1>15 DEF Broke, Loss
  <2> QED
    BY <1>0, <2>1, LossPhone
<1>16. CASE Restarted
  <2>1. /\ UNCHANGED <<saved, phone>> /\ token' = saved.session.token
        /\ token' # 0 => key' = saved.session.key
        /\ Spared({"unanswered"})' => Spared({"unanswered"})
        /\ Asking /\ Spared({"unanswered"})' => saved.session.token = 0
        /\ "created" \in Range(events) /\ Spared({"unanswered"})' => saved.session.token = 0
    BY <1>16 DEF Restarted, Loss
  <2> QED
    BY <1>0, <2>1 DEF Saving
<1>17. CASE Expired
  <2>1. /\ UNCHANGED <<conn, token, key, saved, phone, mishaps>>
        /\ Range(events) \subseteq Range(events')
    BY <1>17 DEF Expired
  <2> QED
    BY <1>0, <2>1, AskingKept, SavingStays, UnchangedPhone
<1> QED
  BY <1>1, <1>2, <1>3, <1>4, <1>5, <1>6, <1>7, <1>8, <1>9, <1>10, <1>11, <1>12, <1>13, <1>14,
     <1>15, <1>16, <1>17 DEF Effect

LEMMA InvStays == ASSUME IInv, [Next]_vars PROVE IInv'
<1>1. CASE Next
  <2>1. Effect /\ TypeOK'
    BY <1>1, StepIs, TypesStay
  <2>2. RoomTypes' /\ WindowTypes' /\ HubTypes' /\ LinkTypes'
    BY <2>1 DEF TypeOK, RoomTypes, WindowTypes, HubTypes, LinkTypes
  <2>3. ConnInv' /\ KindInv' /\ RegisterInv' /\ RejoinInv'
    BY <2>1, ConnStays, KindStays, RegisterStays, RejoinStays
  <2>4. AnswerInv' /\ FreshInv' /\ QrInv' /\ SavedInv' /\ PhoneInv'
    BY <2>1, AnswerStays, FreshStays, QrStays, SavedStays, PhoneStays
  <2> QED
    BY <2>2, <2>3, <2>4 DEF IInv
<1>2. CASE UNCHANGED vars
  <2>1. /\ UNCHANGED <<conn, toHub, toPc, phone, mishaps>>
        /\ UNCHANGED roomVars /\ UNCHANGED windowVars /\ UNCHANGED hubVars
        /\ UNCHANGED countVars
    BY <1>2 DEF vars
  <2>2. RoomTypes' /\ WindowTypes' /\ HubTypes' /\ LinkTypes'
    BY <2>1
       DEF IInv, RoomTypes, WindowTypes, HubTypes, LinkTypes, roomVars, windowVars, hubVars,
           countVars
  <2>3. ConnInv' /\ KindInv' /\ RegisterInv' /\ RejoinInv'
    BY <2>1, SameAnswers
       DEF IInv, ConnInv, KindInv, RegisterInv, RejoinInv, roomVars, hubVars, countVars
  <2>4. AnswerInv' /\ FreshInv'
    BY <2>1, SameAnswers, SameAsking
       DEF IInv, AnswerInv, FreshInv, Known, roomVars, windowVars, hubVars
  <2>5. QrInv'
    BY <2>1, SameQr DEF IInv, roomVars, windowVars
  <2>6. /\ UNCHANGED <<conn, token, key, trusted, saved, phone, mishaps, events>>
        /\ Asking <=> Asking'
    BY <2>1, SameAsking DEF roomVars, windowVars
  <2>7. Saving <=> Saving'
    BY <2>6 DEF Saving
  <2>8. SavedInv' /\ PhoneInv'
    BY <2>6, <2>7, UnchangedSaved, UnchangedPhone DEF IInv
  <2> QED
    BY <2>2, <2>3, <2>4, <2>5, <2>8 DEF IInv
<1> QED
  BY <1>1, <1>2

LEMMA EmptyIs == ASSUME NEW S PROVE <<>> \in Seq(S) /\ DOMAIN <<>> = {} /\ Range(<<>>) = {}
BY DEF Range

LEMMA InvInit == ASSUME Init PROVE IInv
<1> USE Bounds
<1>1. /\ conn = 0 /\ token = 0 /\ key = 1 /\ conns = 0 /\ created = 0
      /\ live = {} /\ past = {} /\ toPc = <<>> /\ events = <<>>
      /\ qr = NoSession /\ phone = NoSession /\ saved.session = NoSession /\ ~saved.trusted
      /\ \A c \in Conns : toHub[c] = <<>> /\ sessionOf[c] = 0
  BY DEF Init
<1>2. /\ NoSession \in Pairs /\ NoSession.token = 0 /\ NoSession.key = 0
      /\ DOMAIN toPc = {} /\ Range(events) = {} /\ \A c \in Conns : DOMAIN toHub[c] = {}
  BY <1>1, EmptyIs DEF NoSession, Pairs
<1>3. RoomTypes
  <2>1. rejoinPending \in BOOLEAN /\ trusted \in BOOLEAN
    BY DEF Init
  <2> QED
    BY <1>1, <2>1 DEF RoomTypes, Init
<1>4. WindowTypes
  <2>1. shown \in BOOLEAN
    BY DEF Init
  <2>2. saved \in [session : Pairs, trusted : BOOLEAN] /\ mishaps \subseteq Mishaps
    BY <1>2 DEF Init
  <2> QED
    BY <1>1, <1>2, <2>1, <2>2, EmptyIs DEF WindowTypes
<1>5. HubTypes /\ LinkTypes
  <2>1. HubTypes
    BY DEF Init, HubTypes
  <2>2. LinkTypes
    BY EmptyIs DEF Init, LinkTypes
  <2> QED
    BY <2>1, <2>2
<1>6. ConnInv /\ KindInv /\ RegisterInv /\ RejoinInv /\ AnswerInv /\ QrInv
  BY <1>1, <1>2 DEF ConnInv, KindInv, RegisterInv, RejoinInv, AnswerInv, QrInv
<1>7. Creations = {} /\ ~Asking
  BY <1>1, <1>2 DEF Creations, Asking
<1>8. FreshInv
  BY <1>1, <1>2, <1>7 DEF FreshInv, Known
<1>9. SavedInv
  <2>1. saved.trusted = (token # 0 /\ trusted)
    BY <1>1, Zenon DEF Init
  <2> QED
    BY <1>1, <1>2, <2>1 DEF SavedInv
<1>10. PhoneInv
  BY <1>1, <1>2 DEF PhoneInv
<1> QED
  BY <1>3, <1>4, <1>5, <1>6, <1>8, <1>9, <1>10 DEF IInv

-----------------------------------------------------------------------------
\* At rest nothing is on its way, and the parts of the invariant come down to
\* SessionInv's.
LEMMA InvImpliesSessionInv == ASSUME IInv PROVE SessionInv
<1>1. TypeOK
  BY TypeParts DEF IInv
<1>2. ASSUME Quiet
      PROVE  /\ conn \in Conns /\ Creations = {} /\ Refusals = {} /\ ~Asking
             /\ ~Rejoining /\ ~Renewing /\ ~Saving /\ "ready" \notin Range(events)
  <2>1. conn \in Conns /\ DOMAIN toHub[conn] = {} /\ DOMAIN toPc = {} /\ Range(events) = {}
    BY <1>2, Bounds, EmptyIs DEF Quiet, IInv, RoomTypes
  <2>2. Creations = {} /\ Refusals = {} /\ ~Asking
    BY <2>1 DEF Creations, Refusals, Asking
  <2>3. ~Rejoining /\ ~Renewing
    BY <1>2, <2>1 DEF Rejoining, Renewing, Quiet
  <2> QED
    BY <2>1, <2>2, <2>3 DEF Saving
<1>3. Quiet => token # 0 /\ token = sessionOf[conn]
  BY <1>2 DEF IInv, AnswerInv, Quiet
<1>4. HubAgrees
  BY <1>2, <1>3 DEF HubAgrees, Agreed, IInv, RegisterInv
<1>5. QrIsCurrent
  BY <1>2 DEF QrIsCurrent, IInv, QrInv, Quiet
<1>6. SavedIsCurrent
  <2> SUFFICES ASSUME Quiet, Spared({"unanswered"})
               PROVE  saved = [session |-> Current, trusted |-> trusted]
    BY DEF SavedIsCurrent
  <2>1. saved.session = Current
    BY <1>2, <1>3 DEF IInv, SavedInv
  <2>2. saved.trusted = (token # 0 /\ trusted)
    BY <1>2 DEF IInv, SavedInv
  <2>3. saved \in [session : Pairs, trusted : BOOLEAN] /\ trusted \in BOOLEAN
    BY DEF IInv, WindowTypes, RoomTypes
  <2>4. saved.trusted = trusted
    <3>1. token # 0 /\ trusted \in BOOLEAN
      BY <1>3, <2>3
    <3>2. trusted = (token # 0 /\ trusted)
      BY <3>1, Zenon
    <3> QED
      BY <2>2, <3>2, <3>1
  <2> QED
    BY <2>1, <2>3, <2>4
<1>7. PhoneCanReturn
  BY <1>2, <1>3 DEF PhoneCanReturn, IInv, PhoneInv
<1> QED
  BY <1>1, <1>4, <1>5, <1>6, <1>7 DEF SessionInv

\* At rest, hub, PC, QR code, settings and phone have one session and one key pair,
\* after any number of refreshes, refusals, lost connections, deadlines and restarts in
\* any order (RoomManager.cs, MainWindow.xaml.cs, hub.go).
THEOREM SpecSessionInv == Spec => []SessionInv
<1>1. Init => IInv
  BY InvInit
<1>2. IInv /\ [Next]_vars => IInv'
  BY InvStays
<1> QED
  BY <1>1, <1>2, InvImpliesSessionInv, PTL DEF Spec

-----------------------------------------------------------------------------
\* A PC is its socket or its session, in whichever order they move: what is proved of
\* either holds of it.
THEOREM DesktopIsEither == DesktopSpec => Spec /\ Socket!Spec
<1>1. DesktopInit => Init /\ Socket!Init
  BY DEF DesktopInit
<1>2. [DesktopNext]_<<part, vars, sockVars>> => [Next]_vars
  BY DEF DesktopNext
<1>3. [DesktopNext]_<<part, vars, sockVars>> => [Socket!Next]_(Socket!vars)
  <2>1. UNCHANGED sockVars => UNCHANGED Socket!vars
    BY DEF sockVars, Socket!vars, Socket!netVars, Socket!taskVars, Socket!windowVars
  <2> QED
    BY <2>1 DEF DesktopNext
<1> QED
  BY <1>1, <1>2, <1>3, PTL DEF DesktopSpec, Spec, Socket!Spec
=============================================================================
