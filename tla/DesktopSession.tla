--------------------------- MODULE DesktopSession ---------------------------
(***************************************************************************)
(* The PC's session: what RoomManager.cs, the window and the settings file *)
(* know of it, across refreshes, lost connections and restarts, and what   *)
(* the hub makes of it (hub.go).                                           *)
(*                                                                         *)
(* DesktopSocket says when connections are made; here one opens and breaks *)
(* at any time.  The hub reads the requests of a connection that is gone   *)
(* as far as they have reached it, and finds it gone only after that.      *)
(* The handshake, SecureLink's subject, is one step: it needs a phone that *)
(* knows the public key that the PC has.                                   *)
(*                                                                         *)
(* Sessions (Tokens), key pairs and connections are numbered in the order  *)
(* in which they are made; 0 is none.                                      *)
(***************************************************************************)
EXTENDS Naturals, Sequences, FiniteSets, Functions

CONSTANTS
    MaxTokens,   \* bound: sessions
    MaxConns,    \* bound: connections
    MaxExpired,  \* bound: sessions that expire
    MaxRefresh,  \* bound: refreshes and connections that the user or a timer asks for
    MaxRestarts  \* bound: restarts of the PC's program

ASSUME DesktopSessionAssumption ==
    {MaxTokens, MaxConns, MaxExpired, MaxRefresh, MaxRestarts} \subseteq Nat

Tokens == 1..MaxTokens
Conns == 1..MaxConns

VARIABLES
    \* RoomManager
    conn,          \* the connection that is open
    token,         \* _currentToken
    key,           \* the key pair of _crypto
    rejoinPending, \* _rejoinPending
    trusted,       \* _trustedSessionEstablished
    \* the window
    events,        \* what is on the way to the dispatcher
    shown,         \* _serverConnected
    qr,            \* token and key in the QR code
    saved,         \* the session in the settings file
    \* between PC and hub
    toHub,         \* the requests of each connection
    toPc,          \* the answers to the PC's connection
    \* the hub
    created,       \* how many sessions there have been
    live,          \* Hub.sessions
    pcOf,          \* Session.PC
    sessionOf,     \* Client.session
    past,          \* sessions past their deadline
    \* the phone
    phone,         \* token and key of the PC that it has paired with
    \* history
    mishaps,
    keys, conns, refreshes, restarts \* bookkeeping: how many there have been

roomVars == <<token, key, rejoinPending, trusted>>
windowVars == <<events, shown, qr, saved>>
hubVars == <<created, live, pcOf, sessionOf, past>>
countVars == <<keys, conns, refreshes, restarts>>
vars == <<conn, roomVars, windowVars, toHub, toPc, hubVars, phone, mishaps, countVars>>

NoSession == [token |-> 0, key |-> 0]
Current == [token |-> token, key |-> key]

Mishaps == {"unanswered"}

Request(type, t) == [type |-> type, token |-> t]

\* A first start: ConnectAsync has made a key pair.
Init ==
    /\ conn = 0 /\ token = 0 /\ key = 1 /\ rejoinPending = FALSE /\ trusted = FALSE
    /\ events = <<>> /\ shown = FALSE /\ qr = NoSession
    /\ saved = [session |-> NoSession, trusted |-> FALSE]
    /\ toHub = [c \in Conns |-> <<>>] /\ toPc = <<>>
    /\ created = 0 /\ live = {} /\ past = {}
    /\ pcOf = [t \in Tokens |-> 0] /\ sessionOf = [c \in Conns |-> 0]
    /\ phone = NoSession /\ mishaps = {}
    /\ keys = 1 /\ conns = 0 /\ refreshes = 0 /\ restarts = 0

-----------------------------------------------------------------------------
(* Connections *)

\* OnConnected: the PC asks for its session, or for one.
Opens ==
    /\ conn = 0 /\ conns < MaxConns
    /\ conn' = conns + 1 /\ conns' = conns + 1
    /\ toHub' = [toHub EXCEPT ![conn'] =
          <<IF token # 0 THEN Request("rejoin_session", token)
                         ELSE Request("create_session", 0)>>]
    /\ rejoinPending' = (rejoinPending \/ token # 0)
    /\ events' = Append(events, "connected")
    /\ UNCHANGED <<token, key, trusted, shown, qr, saved, toPc, hubVars, phone,
                   mishaps, keys, refreshes, restarts>>

\* A request for another session, or the answer to it, that the PC has not got.
Outstanding ==
    conn # 0 /\ \E m \in Range(toHub[conn] \o toPc) :
                   m.type \in {"create_session", "session_created"}

\* History: the PC had a session, and what would have replaced it is lost.
Loses(replacement) ==
    mishaps' = IF replacement /\ {token, saved.session.token} # {0}
               THEN mishaps \cup {"unanswered"} ELSE mishaps

\* The connection, if there is one, is lost with what was on its way: the hub still
\* gets the first n of the PC's requests.
Cut(n) ==
    /\ IF conn = 0 THEN n = 0 /\ UNCHANGED toHub
                   ELSE /\ n <= Len(toHub[conn])
                        /\ toHub' = [toHub EXCEPT ![conn] = SubSeq(@, 1, n)]
    /\ conn' = 0 /\ toPc' = <<>>

\* HandleDisconnect
Breaks ==
    /\ conn # 0 /\ conns < MaxConns
    /\ \E n \in 0..(MaxRefresh + 2) : Cut(n)
    /\ Loses(Outstanding)
    /\ events' = Append(events, "disconnected")
    /\ UNCHANGED <<roomVars, shown, qr, saved, hubVars, phone, countVars>>

\* The program ends and starts anew: LoadSettings, ConnectAsync.
Restart ==
    /\ restarts < MaxRestarts /\ conns < MaxConns
    /\ restarts' = restarts + 1
    /\ \E n \in 0..(MaxRefresh + 2) : Cut(n)
    /\ Loses(Outstanding \/ "created" \in Range(events))
    /\ token' = saved.session.token /\ trusted' = saved.trusted
    /\ IF token' = 0 THEN key' = keys + 1 /\ keys' = keys + 1
                     ELSE key' = saved.session.key /\ UNCHANGED keys
    /\ rejoinPending' = FALSE
    /\ events' = <<>> /\ shown' = FALSE /\ qr' = NoSession
    /\ UNCHANGED <<saved, hubVars, phone, conns, refreshes>>

-----------------------------------------------------------------------------
(* The hub *)

Answer(c, ms) ==
    toPc' = IF c = conn THEN toPc \o ms ELSE toPc

Reads(c, type) ==
    /\ toHub[c] # <<>> /\ Head(toHub[c]).type = type
    /\ toHub' = [toHub EXCEPT ![c] = Tail(@)]
    /\ UNCHANGED <<conn, roomVars, windowVars, past, phone, mishaps, countVars>>

\* handleCreateSession
CreateSession(c) ==
    /\ Reads(c, "create_session")
    /\ created < MaxTokens /\ created' = created + 1
    /\ live' = (live \ {sessionOf[c]}) \cup {created'}
    /\ sessionOf' = [sessionOf EXCEPT ![c] = created']
    /\ pcOf' = [pcOf EXCEPT ![created'] = c]
    /\ Answer(c, <<Request("session_created", created')>>)

\* handleRejoinSession: the session is there, in time, and nobody's.
Rejoinable(t) == t \in live /\ t \notin past /\ pcOf[t] = 0

RejoinSession(c) ==
    LET t == Head(toHub[c]).token IN
    /\ Reads(c, "rejoin_session")
    /\ Rejoinable(t)
    /\ sessionOf' = [sessionOf EXCEPT ![c] = t]
    /\ pcOf' = [pcOf EXCEPT ![t] = c]
    /\ Answer(c, <<Request("rejoined", t)>>)
    /\ UNCHANGED <<created, live>>

\* Mutant of RefuseRejoin: there is no answer.
NoAnswer(c) ==
    LET t == Head(toHub[c]).token IN
    /\ Reads(c, "rejoin_session")
    /\ ~Rejoinable(t)
    /\ live' = live \ ({t} \cap past)
    /\ UNCHANGED <<created, pcOf, sessionOf, toPc>>

\* An expired session is removed on that occasion.
RefuseRejoin(c) ==
    LET t == Head(toHub[c]).token IN
    /\ Reads(c, "rejoin_session")
    /\ ~Rejoinable(t)
    /\ live' = live \ ({t} \cap past)
    /\ Answer(c, <<Request("error", t)>>)
    /\ UNCHANGED <<created, pcOf, sessionOf>>

\* Unregister: the hub finds a connection gone.
Unregister(c) ==
    LET t == sessionOf[c] IN
    /\ c <= conns /\ c # conn /\ toHub[c] = <<>>
    /\ t # 0
    /\ pcOf' = [pcOf EXCEPT ![t] = 0] /\ sessionOf' = [sessionOf EXCEPT ![c] = 0]
    /\ UNCHANGED <<conn, roomVars, windowVars, toHub, toPc, created, live, past, phone,
                   mishaps, countVars>>

\* The deadline of a session passes.
Expire(t) ==
    /\ t \in live \ past /\ past' = past \cup {t}
    /\ Cardinality(past) < MaxExpired
    /\ UNCHANGED <<conn, roomVars, windowVars, toHub, toPc, created, live, pcOf, sessionOf,
                   phone, mishaps, countVars>>

\* expireSession
GraceEnds(t) ==
    /\ t \in live \cap past /\ pcOf[t] = 0
    /\ live' = live \ {t}
    /\ UNCHANGED <<conn, roomVars, windowVars, toHub, toPc, created, pcOf, sessionOf, past,
                   phone, mishaps, countVars>>

-----------------------------------------------------------------------------
(* RoomManager's HandleMessage *)

Receives(type) ==
    /\ toPc # <<>> /\ Head(toPc).type = type
    /\ toPc' = Tail(toPc)
    /\ UNCHANGED <<conn, shown, qr, saved, hubVars, phone, mishaps, countVars>>

SessionCreated ==
    /\ Receives("session_created")
    /\ token' = Head(toPc).token
    /\ trusted' = FALSE /\ rejoinPending' = FALSE
    /\ events' = Append(events, "created")
    /\ UNCHANGED <<key, toHub>>

Rejoined ==
    /\ Receives("rejoined")
    /\ rejoinPending' = FALSE
    /\ events' = Append(events, "recovered")
    /\ UNCHANGED <<token, key, trusted, toHub>>

\* A rejoin that is refused: the PC gives up the token and asks for a session.
OnError ==
    /\ Receives("error") /\ rejoinPending
    /\ rejoinPending' = FALSE /\ token' = 0 /\ trusted' = FALSE
    /\ toHub' = [toHub EXCEPT ![conn] = Append(@, Request("create_session", 0))]
    /\ UNCHANGED <<key, events>>

\* handshake_ack, which only opens under the key that the phone has encrypted for
Confirmed ==
    /\ Receives("handshake_ack")
    /\ IF Head(toPc).token = key
       THEN trusted' = TRUE /\ events' = Append(events, "ready")
       ELSE UNCHANGED <<trusted, events>>
    /\ UNCHANGED <<token, key, rejoinPending, toHub>>

-----------------------------------------------------------------------------
(* The window and its user *)

\* UpdateQRCode shows what there is now, not what there was when the event was raised.
UpdateQRCode == qr' = IF token = 0 THEN NoSession ELSE Current

\* PersistSettings; without a session there is none to save.
PersistSettings ==
    saved' = IF token = 0 THEN [session |-> NoSession, trusted |-> FALSE]
                          ELSE [session |-> Current, trusted |-> trusted]

Window(event) ==
    /\ events # <<>> /\ Head(events) = event
    /\ events' = Tail(events)
    /\ UNCHANGED <<conn, roomVars, toHub, toPc, hubVars, phone, mishaps, countVars>>

OnServerConnectionChanged ==
    /\ \/ Window("connected") /\ shown' = TRUE
       \/ Window("disconnected") /\ shown' = FALSE
    /\ UNCHANGED <<qr, saved>>

OnSessionCreated ==
    /\ Window("created")
    /\ UpdateQRCode /\ PersistSettings
    /\ UNCHANGED shown

OnSessionRecovered ==
    /\ Window("recovered")
    /\ UpdateQRCode
    /\ UNCHANGED <<shown, saved>>

OnEncryptionReady ==
    /\ Window("ready")
    /\ PersistSettings
    /\ UNCHANGED <<shown, qr>>

\* SaveSettings_Click; TryConnectAsync saves the settings too, once its attempt is over.
SaveSettings ==
    /\ PersistSettings /\ saved' # saved
    /\ UNCHANGED <<conn, roomVars, events, shown, qr, toHub, toPc, hubVars, phone,
                   mishaps, countVars>>

\* RefreshSession: new keys, and a request for a new session if there is a connection.
\* Until the answer comes the PC has the old token.  Refresh_Click calls it from the
\* settings and, at any time, from the tray; SessionTimer_Tick for an expired session.
RefreshSession ==
    /\ refreshes < MaxRefresh /\ refreshes' = refreshes + 1
    /\ key' = keys + 1 /\ keys' = keys + 1
    /\ trusted' = FALSE
    /\ IF conn = 0
       THEN /\ UNCHANGED toHub
            /\ mishaps' = mishaps \cup {"unanswered"}
       ELSE /\ toHub' = [toHub EXCEPT ![conn] = Append(@, Request("create_session", 0))]
            /\ UNCHANGED mishaps
    /\ UNCHANGED <<conn, token, rejoinPending, windowVars, toPc, hubVars, phone, conns,
                   restarts>>

\* Connect_Click, where the window has not heard of a connection, or there has been none
\* that a session was made on; a connection that there is is given up.
Click ==
    /\ ~shown /\ (conn # 0 \/ token = 0) /\ conns < MaxConns
    /\ refreshes < MaxRefresh /\ refreshes' = refreshes + 1
    /\ \E n \in 0..(MaxRefresh + 2) : Cut(n)
    /\ Loses(Outstanding)
    /\ UNCHANGED <<token, rejoinPending, windowVars, hubVars, phone, conns, restarts>>

NewKeys == key' = keys + 1 /\ keys' = keys + 1 /\ trusted' = FALSE

\* Mutant of Connect: there are new keys for every connection.
FreshKeys == Click /\ NewKeys

\* RoomManager.ConnectAsync: new keys only where there is no session.
Connect ==
    /\ Click
    /\ IF token = 0 THEN NewKeys ELSE UNCHANGED <<key, keys, trusted>>

\* A phone scans the QR code and shakes hands with the PC that the hub links it to:
\* that works only with the PC's present keys.
Pair ==
    /\ conn # 0 /\ qr # NoSession /\ phone # qr
    /\ qr.token \in live \ past /\ pcOf[qr.token] = conn
    /\ qr.key = key
    /\ phone' = qr
    /\ toPc' = Append(toPc, Request("handshake_ack", key))
    /\ UNCHANGED <<conn, roomVars, windowVars, toHub, hubVars, mishaps, countVars>>

-----------------------------------------------------------------------------
Hub ==
    \E c \in Conns : CreateSession(c) \/ RejoinSession(c) \/ RefuseRejoin(c) \/ Unregister(c)
HandleMessage == SessionCreated \/ Rejoined \/ OnError \/ Confirmed
Dispatcher ==
    \/ OnServerConnectionChanged \/ OnSessionCreated \/ OnSessionRecovered
    \/ OnEncryptionReady
User == SaveSettings \/ RefreshSession \/ Connect \/ Pair
World == Breaks \/ Restart \/ \E t \in Tokens : Expire(t) \/ GraceEnds(t)

Next == Opens \/ Hub \/ HandleMessage \/ Dispatcher \/ User \/ World

Spec == Init /\ [][Next]_vars

\* The PC reconnects (DesktopSocket), and what has arrived is handled: somebody of these
\* goes on as long as one of them can.
Progress == Opens \/ Hub \/ HandleMessage \/ Dispatcher

-----------------------------------------------------------------------------
Pairs == [token : 0..MaxTokens, key : Nat]
Messages ==
    [type : {"create_session", "rejoin_session", "session_created", "rejoined", "error",
             "handshake_ack"}, token : Nat]

TypeOK ==
    /\ conn \in 0..MaxConns /\ token \in 0..MaxTokens /\ key \in Nat
    /\ {rejoinPending, trusted, shown} \subseteq BOOLEAN
    /\ events \in Seq({"connected", "disconnected", "created", "recovered", "ready"})
    /\ qr \in Pairs /\ phone \in Pairs /\ saved \in [session : Pairs, trusted : BOOLEAN]
    /\ toHub \in [Conns -> Seq(Messages)] /\ toPc \in Seq(Messages)
    /\ created \in 0..MaxTokens /\ live \subseteq Tokens /\ past \subseteq Tokens
    /\ pcOf \in [Tokens -> 0..MaxConns] /\ sessionOf \in [Conns -> 0..MaxTokens]
    /\ mishaps \subseteq Mishaps /\ {keys, conns, refreshes, restarts} \subseteq Nat

Spared(exceptions) == mishaps \cap exceptions = {}

\* The connection is there, and nothing is on its way.
Quiet == conn # 0 /\ toHub[conn] = <<>> /\ toPc = <<>> /\ events = <<>>

\* The hub has the PC's connection in the PC's session.
Agreed == pcOf[token] = conn /\ sessionOf[conn] = token /\ (token \in live \/ token \in past)

\* Once all requests are answered the PC has the session that the hub has it in
\* (hub.go, RoomManager.cs), whatever was refreshed, refused or lost before; phones can
\* join it until it expires.
HubAgrees == Quiet => token # 0 /\ Agreed

\* ... and its QR code shows that session with the keys that the PC can decrypt with
\* (UpdateQRCode), although keys and token change at different times.
QrIsCurrent == Quiet => qr = Current

\* ... and that is what the PC would be restored from (PersistSettings), unless a
\* request for another session was never answered.
SavedIsCurrent ==
    Quiet /\ Spared({"unanswered"}) => saved = [session |-> Current, trusted |-> trusted]

\* A phone that is paired with the PC's session knows the PC's keys, so that it can
\* shake hands again at any time ("Don't reset crypto", RoomManager.cs), unless a
\* request for another session was never answered.
PhoneCanReturn ==
    Quiet /\ Spared({"unanswered"}) /\ phone.token = token => phone.key = key

\* At rest, hub, PC, QR code, settings and phone have one session and one key pair, over
\* all orders of refreshes, refusals, losses, deadlines and restarts.
SessionInv == TypeOK /\ HubAgrees /\ QrIsCurrent /\ SavedIsCurrent /\ PhoneCanReturn

\* Once connections last the PC is in a session again, and shows it.
SessionReturns == []<>(Quiet /\ Agreed /\ qr = Current)
=============================================================================
