------------------------------ MODULE RelayHub ------------------------------
(***************************************************************************)
(* The relay server of Fluentia (server/hub.go, client.go, room.go,        *)
(* session_store.go and the admission check of main.go).                   *)
(*                                                                         *)
(* A desktop (PC) opens a connection and creates or rejoins a session; a   *)
(* phone opens a connection and joins the session with the token of the QR *)
(* code, or with a device code that the PC confirms.  The hub links at     *)
(* most one PC and one phone per session, tells each side when the other   *)
(* comes and goes, keeps a session without a PC until its deadline, and    *)
(* writes the fingerprints of its sessions to a file in the background so  *)
(* that they survive a restart.                                            *)
(*                                                                         *)
(* Every handler runs under Hub.mu, so each is one action.  What runs      *)
(* outside the mutex is an action of its own: the admission check, the     *)
(* grace timer and the goroutine it starts, the snapshot writes, the end   *)
(* of a connection's read loop.                                            *)
(*                                                                         *)
(* A send on a closed Go channel panics, and a panic in a read loop ends   *)
(* the process: a handler with such a receiver is the action Panic.        *)
(***************************************************************************)
EXTENDS Naturals, Sequences, FiniteSets, SequencesExt

CONSTANTS
    Conns,          \* connection objects (*Client), reused once nothing points to them
    Devices,        \* deviceId values of the phones
    PCPeer,         \* what a phone is told of when its peer is a PC
    None,           \* the nil pointer
    MaxSessions,    \* bound: sessions ever created
    MaxConnections, \* ServerGlobals.MaxConnections, 0 for no limit
    MaxWrites,      \* bound: snapshot writes in flight
    StorePath,      \* SessionStorePath is configured
    Restarts,       \* the host stops the server and starts it again
    StaleCodes      \* device codes of destroyed sessions are still used

ASSUME ConstantsAssumption ==
    /\ MaxSessions \in Nat /\ MaxConnections \in Nat /\ MaxWrites \in Nat
    /\ {StorePath, Restarts, StaleCodes} \subseteq BOOLEAN
    /\ None \notin Conns \cup Devices
    /\ PCPeer \notin Devices \cup {None}

\* Sessions are named by their token.  Tokens are random; here the n-th token
\* handed out is n, and 0 stands for a nil *Session.
Tokens == 1 .. MaxSessions

VARIABLES
    \* the process, and the world outside it
    up,         \* "up", "down" (stopped) or "panicked"
    created,    \* how many tokens have been handed out
    horizon,    \* sessions 1..horizon are past ExpiresAt (validity is constant)
    \* Hub.sessions, Hub.persistedSessions and the fields of a Session
    live, persisted, pcOf, mobileOf,
    timer,      \* sessions whose GraceTimer is armed
    expiring,   \* sessions with a goroutine about to run expireSession
    \* Hub.clients and the fields of a Client
    phase,      \* "idle" (no connection), "upgrading", "open" (its read loop runs)
    clients,    \* Hub.clients
    closed,     \* connections whose send channel is closed
    role, sessionOf, device,
    told,       \* the peer named by the last status message queued to a client
    \* Hub.deviceCodes: a session has at most one entry, filed under the session
    codePC, pending,
    \* the session store
    file,       \* the fingerprints in the file
    writes,     \* snapshots whose goroutine has not written the file yet
    overtaken   \* history: the youngest of them was written before an older one

procVars == <<up, created, horizon>>
sessVars == <<live, persisted, pcOf, mobileOf, timer, expiring>>
connVars == <<phase, clients, closed, role, sessionOf, device, told>>
codeVars == <<codePC, pending>>
diskVars == <<file, writes, overtaken>>
vars == <<procVars, sessVars, connVars, codeVars, diskVars>>

-----------------------------------------------------------------------------
Expired(t) == t <= horizon

\* The peer a message of c is forwarded to.
PeerOf(c) ==
    IF sessionOf[c] = 0 THEN None
    ELSE IF role[c] = "pc" THEN mobileOf[sessionOf[c]]
    ELSE pcOf[sessionOf[c]]

\* The phone linked to session t; a nil session has none.
MobileIn(t) == IF t = 0 THEN None ELSE mobileOf[t]

\* The read loop of c runs and the hub is alive: c's messages are dispatched.
Dispatching(c) == up = "up" /\ phase[c] = "open"

\* c has not yet sent its first message.  Phones send exactly one of
\* join_session and device_code_join, when the socket opens; desktops start
\* with rejoin_session or create_session.
Fresh(c) == role[c] = "unset" /\ device[c] = None

\* A token that a client can hold and that the hub still knows, in memory or
\* as a persisted fingerprint (hydratePersistedSessionLocked).
Known(t) == t <= created /\ t \in live \cup persisted

\* snapshotSessions, evaluated under the mutex with the values l and p of
\* sessions and persistedSessions
Snapshot(l, p) == {t \in l \cup p : ~Expired(t)}

\* Mutant of Spawn: a refresh saves only the state in which its session is gone.
SpawnFirst(snaps) ==
    /\ Len(writes) + Len(snaps) <= MaxWrites
    /\ writes' = IF StorePath THEN writes \o SubSeq(snaps, 1, 1) ELSE writes
    /\ overtaken' = FALSE /\ UNCHANGED file

\* go writeSessionsSnapshot(...): the goroutines have their snapshot and no order.
Spawn(snaps) ==
    /\ Len(writes) + Len(snaps) <= MaxWrites
    /\ writes' = IF StorePath THEN writes \o snaps ELSE writes
    /\ overtaken' = FALSE /\ UNCHANGED file

\* delete(h.clients, m) and the close of m's channel by SendAndClose; m may be None.
Kick(m) ==
    /\ clients' = clients \ {m}
    /\ closed' = closed \cup ({m} \ {None})

\* Mutant of Relink: a preempted or kicked phone keeps its session.
RelinkOne(c, t, m) ==
    sessionOf' = [x \in Conns |-> IF x = c THEN t ELSE sessionOf[x]]

\* c.session = t and m.session = nil; c or m may be None.
Relink(c, t, m) ==
    sessionOf' = [x \in Conns |-> IF x = c THEN t ELSE IF x = m THEN 0 ELSE sessionOf[x]]

\* Mutant of TellAlone: the peer of a leaving client is not notified.
TellOne(c, m) == told' = [x \in Conns |-> IF x = c THEN None ELSE told[x]]

\* c and m, which may be None, have no peer now: c starts a session or is gone,
\* m is sent peer_left.
TellAlone(c, m) == told' = [x \in Conns |-> IF x \in {c, m} THEN None ELSE told[x]]

\* Mutants of StartGrace: the session ends with its PC's connection; nothing is
\* started for a session that is past its deadline already.
NoGrace(t) == expiring' = expiring \cup {t} /\ timer' = timer \ {t}
GraceOrNothing(t) ==
    /\ timer' = IF Expired(t) THEN timer \ {t} ELSE timer \cup {t}
    /\ UNCHANGED expiring

\* The PC of session t is gone: stop the old GraceTimer, and arm a new one or,
\* past the deadline, start expireSession at once.
StartGrace(t) ==
    IF Expired(t)
    THEN timer' = timer \ {t} /\ expiring' = expiring \cup {t}
    ELSE timer' = timer \cup {t} /\ UNCHANGED expiring

\* Mutant of Abandoned: expireSession does not look for a PC that came back.
NotDestroyed(t) == t \in live

\* expireSession's early returns: t exists and has no PC.
Abandoned(t) == t \in live /\ pcOf[t] = None

\* Nothing points to c any more: the object is garbage and its slot is free.
Unreferenced(c) ==
    \A t \in Tokens : c \notin {pcOf[t], mobileOf[t], codePC[t], pending[t]}

\* NewHub: every variable of the process but `up` has its initial value.
NoPtr == [t \in Tokens |-> None]
Init ==
    /\ up = "up" /\ created = 0 /\ horizon = 0 /\ file = {}
    /\ live = {} /\ persisted = {} /\ timer = {} /\ expiring = {}
    /\ pcOf = NoPtr /\ mobileOf = NoPtr /\ codePC = NoPtr /\ pending = NoPtr
    /\ phase = [c \in Conns |-> "idle"] /\ clients = {} /\ closed = {}
    /\ role = [c \in Conns |-> "unset"] /\ sessionOf = [c \in Conns |-> 0]
    /\ device = [c \in Conns |-> None] /\ told = [c \in Conns |-> None]
    /\ writes = << >> /\ overtaken = FALSE

\* The process ends in state `state` and all it held in memory is gone.
ProcessEnds(state) ==
    /\ up' = state
    /\ live' = {} /\ persisted' = {} /\ timer' = {} /\ expiring' = {}
    /\ pcOf' = NoPtr /\ mobileOf' = NoPtr /\ codePC' = NoPtr /\ pending' = NoPtr
    /\ phase' = [c \in Conns |-> "idle"] /\ clients' = {} /\ closed' = {}
    /\ role' = [c \in Conns |-> "unset"] /\ sessionOf' = [c \in Conns |-> 0]
    /\ device' = [c \in Conns |-> None] /\ told' = [c \in Conns |-> None]
    /\ writes' = << >> /\ overtaken' = FALSE
    /\ UNCHANGED <<created, horizon, file>>

-----------------------------------------------------------------------------
(* Connections *)

\* serveWs up to the end of the WebSocket upgrade: the limit is compared with
\* the clients registered so far.
Accept(c) ==
    /\ up = "up" /\ phase[c] = "idle" /\ Unreferenced(c)
    /\ MaxConnections = 0 \/ Cardinality(clients) < MaxConnections
    /\ phase' = [phase EXCEPT ![c] = "upgrading"]
    /\ closed' = closed \ {c}
    /\ UNCHANGED <<procVars, sessVars, clients, role, sessionOf, device, told,
                   codeVars, diskVars>>

\* hub.Register and the start of the pumps
Register(c) ==
    /\ up = "up" /\ phase[c] = "upgrading"
    /\ phase' = [phase EXCEPT ![c] = "open"]
    /\ clients' = clients \cup {c}
    /\ UNCHANGED <<procVars, sessVars, closed, role, sessionOf, device, told,
                   codeVars, diskVars>>

\* The read loop of c has ended.  Its fields are never read again and are
\* reset; the channel stays closed for whoever still points to c.
Ended(c) ==
    /\ phase' = [phase EXCEPT ![c] = "idle"]
    /\ clients' = clients \ {c}
    /\ closed' = closed \cup {c}
    /\ role' = [role EXCEPT ![c] = "unset"]
    /\ sessionOf' = [sessionOf EXCEPT ![c] = 0]
    /\ device' = [device EXCEPT ![c] = None]

\* Unregister of a connection outside any session, or of a kicked one: that was
\* deleted from clients when it was kicked.
UnregisterUnlinked(c) ==
    /\ Dispatching(c) /\ (c \in clients => sessionOf[c] = 0)
    /\ Ended(c)
    /\ TellAlone(c, None)
    /\ UNCHANGED <<procVars, sessVars, codeVars, diskVars>>

\* Unregister of a PC: its session stays reusable until the deadline.
UnregisterPC(c) ==
    LET t == sessionOf[c] IN
    /\ Dispatching(c) /\ c \in clients /\ t # 0 /\ role[c] = "pc"
    /\ PeerOf(c) \notin closed
    /\ Ended(c)
    /\ pcOf' = [pcOf EXCEPT ![t] = None]
    /\ TellAlone(c, mobileOf[t])
    /\ StartGrace(t)
    /\ UNCHANGED <<procVars, live, persisted, mobileOf, codeVars, diskVars>>

\* Unregister of a phone
UnregisterMobile(c) ==
    LET t == sessionOf[c] IN
    /\ Dispatching(c) /\ c \in clients /\ t # 0 /\ role[c] = "mobile"
    /\ PeerOf(c) \notin closed
    /\ Ended(c)
    /\ mobileOf' = [mobileOf EXCEPT ![t] = None]
    /\ TellAlone(c, pcOf[t])
    /\ UNCHANGED <<procVars, live, persisted, pcOf, timer, expiring,
                   codeVars, diskVars>>

-----------------------------------------------------------------------------
(* Sessions *)

\* handleCreateSession: a first session, or a refresh that destroys the old one.
\* The old session's PC pointer and device code are left as they are.
CreateSession(c) ==
    LET old == sessionOf[c]
        m == MobileIn(old)
        t == created + 1
        live1 == live \ {old}
        persisted1 == persisted \ {old}
    IN
    /\ Dispatching(c) /\ c \notin closed
    /\ Fresh(c) \/ role[c] = "pc"
    /\ t \in Tokens
    /\ created' = t
    /\ live' = live1 \cup {t}
    /\ persisted' = persisted1 \cup {t}
    /\ pcOf' = [pcOf EXCEPT ![t] = c]
    /\ mobileOf' = [x \in Tokens |-> IF x = old THEN None ELSE mobileOf[x]]
    /\ timer' = timer \ {old}
    /\ Kick(m)
    /\ role' = [role EXCEPT ![c] = "pc"]
    /\ Relink(c, t, m)
    /\ TellAlone(c, m)
    /\ Spawn((IF old = 0 THEN << >> ELSE <<Snapshot(live1, persisted1)>>)
             \o <<Snapshot(live', persisted')>>)
    /\ UNCHANGED <<up, horizon, expiring, phase, device, codeVars>>

\* handleRejoinSession on a session that is still valid and has no PC.  The
\* deadline may pass after the expiry check and before GraceTimer.Stop (late):
\* the timer has then fired and its goroutine waits for the mutex.
RejoinSession(c, t) ==
    LET m == mobileOf[t] IN
    /\ Dispatching(c) /\ c \notin closed /\ Fresh(c)
    /\ Known(t) /\ ~Expired(t) /\ pcOf[t] = None
    /\ live' = live \cup {t}
    /\ pcOf' = [pcOf EXCEPT ![t] = c]
    /\ role' = [role EXCEPT ![c] = "pc"]
    /\ sessionOf' = [sessionOf EXCEPT ![c] = t]
    /\ told' = [x \in Conns |-> IF x = c THEN (IF m = None THEN None ELSE device[m])
                                ELSE IF x = m THEN PCPeer ELSE told[x]]
    /\ timer' = timer \ {t}
    /\ \/ UNCHANGED <<horizon, expiring>>
       \/ t \in timer /\ horizon' = t /\ expiring' = expiring \cup {t}
    /\ UNCHANGED <<up, created, persisted, mobileOf, phase, clients, closed, device,
                   codeVars, diskVars>>

\* The common part of handleJoinSession and handleDeviceCodeConfirm: phone c
\* becomes the mobile of session t and the previous one is preempted.
LinkMobile(c, t, d) ==
    LET old == mobileOf[t]
        p == pcOf[t]
    IN
    /\ mobileOf' = [mobileOf EXCEPT ![t] = c]
    /\ role' = [role EXCEPT ![c] = "mobile"]
    /\ device' = [device EXCEPT ![c] = d]
    /\ Relink(c, t, old)
    /\ Kick(old)
    /\ told' = [x \in Conns |-> IF x = c THEN (IF p = None THEN None ELSE PCPeer)
                                ELSE IF x = old THEN None
                                ELSE IF x = p THEN d ELSE told[x]]

\* handleJoinSession on a valid session, hydrated from its fingerprint if need be
JoinSession(c, t, d) ==
    /\ Dispatching(c) /\ c \notin closed /\ Fresh(c)
    /\ Known(t) /\ ~Expired(t)
    /\ live' = live \cup {t}
    /\ LinkMobile(c, t, d)
    /\ UNCHANGED <<procVars, persisted, pcOf, timer, expiring, phase, codeVars, diskVars>>

\* Rejoin or join with an expired token: the session is dropped from sessions,
\* or its fingerprint from persistedSessions, and the client gets an error.
ExpiredToken(c, t) ==
    /\ Dispatching(c) /\ c \notin closed /\ Fresh(c)
    /\ Known(t) /\ Expired(t)
    /\ live' = live \ {t}
    /\ persisted' = IF t \in live THEN persisted ELSE persisted \ {t}
    /\ Spawn(<<Snapshot(live', persisted')>>)
    /\ UNCHANGED <<procVars, pcOf, mobileOf, timer, expiring, connVars, codeVars>>

-----------------------------------------------------------------------------
(* Deadlines *)

\* The clock reaches the next session's ExpiresAt.
Tick ==
    /\ horizon < created
    /\ horizon' = horizon + 1
    /\ UNCHANGED <<up, created, sessVars, connVars, codeVars, diskVars>>

\* The runtime starts the goroutine of an armed GraceTimer.
TimerFires(t) ==
    /\ t \in timer /\ Expired(t)
    /\ timer' = timer \ {t}
    /\ expiring' = expiring \cup {t}
    /\ UNCHANGED <<procVars, live, persisted, pcOf, mobileOf, connVars, codeVars,
                   diskVars>>

\* expireSession of a session already destroyed, or whose PC has come back
ExpireNothing(t) ==
    /\ t \in expiring /\ ~Abandoned(t)
    /\ expiring' = expiring \ {t}
    /\ UNCHANGED <<procVars, live, persisted, pcOf, mobileOf, timer, connVars,
                   codeVars, diskVars>>

\* expireSession of a session without a PC: destroy it and kick its phone
ExpireSession(t) ==
    LET m == mobileOf[t] IN
    /\ t \in expiring /\ Abandoned(t)
    /\ expiring' = expiring \ {t}
    /\ live' = live \ {t}
    /\ persisted' = persisted \ {t}
    /\ mobileOf' = [mobileOf EXCEPT ![t] = None]
    /\ Kick(m)
    /\ Relink(None, 0, m)
    /\ TellAlone(None, m)
    /\ Spawn(<<Snapshot(live', persisted')>>)
    /\ UNCHANGED <<procVars, pcOf, timer, phase, role, device, codeVars>>

-----------------------------------------------------------------------------
(* Device codes *)

\* handleDeviceCodeRequest: a new code replaces the session's previous one.
RequestCode(c) ==
    LET t == sessionOf[c] IN
    /\ Dispatching(c) /\ c \notin closed
    /\ role[c] = "pc" /\ t # 0 /\ ~Expired(t)
    /\ codePC' = [codePC EXCEPT ![t] = c]
    /\ pending' = [pending EXCEPT ![t] = None]
    /\ UNCHANGED <<procVars, sessVars, connVars, diskVars>>

DropCode(t) ==
    /\ codePC' = [codePC EXCEPT ![t] = None]
    /\ pending' = [pending EXCEPT ![t] = None]

\* Device codes that phones and PCs act on
Usable(t) == StaleCodes \/ t \in live

\* handleDeviceCodeJoin with a valid code, past the rate limiter: phone c, of
\* device d, waits for the PC that requested the code of session t.
CodeJoin(c, t, d) ==
    /\ Dispatching(c) /\ c \notin closed /\ Fresh(c)
    /\ codePC[t] # None /\ codePC[t] \notin closed
    /\ ~Expired(t) /\ Usable(t)
    /\ pending' = [pending EXCEPT ![t] = c]
    /\ device' = [device EXCEPT ![c] = d]
    /\ UNCHANGED <<procVars, sessVars, phase, clients, closed, role, sessionOf, told,
                   codePC, diskVars>>

\* handleDeviceCodeConfirm: the PC that requested the code lets the phone in.
ConfirmCode(c, t) ==
    LET m == pending[t] IN
    /\ Dispatching(c) /\ c \notin closed
    /\ codePC[t] = c /\ m # None /\ m \notin closed /\ Usable(t)
    /\ LinkMobile(m, t, device[m])
    /\ DropCode(t)
    /\ UNCHANGED <<procVars, live, persisted, pcOf, timer, expiring, phase, diskVars>>

\* handleDeviceCodeReject
RejectCode(c, t) ==
    /\ Dispatching(c) /\ c \notin closed
    /\ codePC[t] = c /\ pending[t] # None /\ pending[t] \notin closed
    /\ pending' = [pending EXCEPT ![t] = None]
    /\ UNCHANGED <<procVars, sessVars, connVars, codePC, diskVars>>

\* The time.AfterFunc of generateDeviceCodeLocked, or handleDeviceCodeJoin with
\* an expired code: the entry is deleted.
CleanupCode(t) ==
    /\ codePC[t] # None /\ Expired(t)
    /\ DropCode(t)
    /\ UNCHANGED <<procVars, sessVars, connVars, diskVars>>

-----------------------------------------------------------------------------
(* The session store and the process *)

\* A snapshot goroutine gets writeMu, in any order, and replaces the file.
LandWrite(i) ==
    /\ i \in DOMAIN writes
    /\ overtaken' = (overtaken \/ (1 < i /\ i = Len(writes)))
    /\ file' = writes[i]
    /\ writes' = RemoveAt(writes, i)
    /\ UNCHANGED <<procVars, sessVars, connVars, codeVars>>

\* The next message or disconnect of c makes the hub send on a closed channel:
\* c itself was kicked, its peer is gone, or the PC or the phone of a device
\* code is gone.
SendsToClosed(c) ==
    \/ c \in closed
    \/ PeerOf(c) \in closed
    \/ \E t \in Tokens :
          \/ Fresh(c) /\ codePC[t] \in closed /\ ~Expired(t) /\ Usable(t)
          \/ codePC[t] = c /\ pending[t] \in closed /\ Usable(t)

Panic(c) ==
    /\ Dispatching(c) /\ SendsToClosed(c)
    /\ ProcessEnds("panicked")

\* SIGTERM, a power cut: everything but the file is lost.
Stop ==
    /\ Restarts /\ up = "up"
    /\ ProcessEnds("down")

\* main: NewHub and LoadPersistedSessions
Restart ==
    /\ Restarts /\ up # "up"
    /\ up' = "up"
    /\ persisted' = {t \in file : ~Expired(t)}
    /\ UNCHANGED <<created, horizon, live, pcOf, mobileOf, timer, expiring, connVars,
                   codeVars, diskVars>>

-----------------------------------------------------------------------------
ConnStep(c) ==
    \/ Accept(c) \/ Register(c)
    \/ UnregisterUnlinked(c) \/ UnregisterPC(c) \/ UnregisterMobile(c)
    \/ CreateSession(c) \/ RequestCode(c) \/ Panic(c)

TokenStep(c, t) ==
    \/ RejoinSession(c, t) \/ ExpiredToken(c, t)
    \/ ConfirmCode(c, t) \/ RejectCode(c, t)
    \/ \E d \in Devices : JoinSession(c, t, d) \/ CodeJoin(c, t, d)

Background(t) ==
    TimerFires(t) \/ ExpireNothing(t) \/ ExpireSession(t) \/ CleanupCode(t)

Next ==
    \/ \E c \in Conns : ConnStep(c) \/ \E t \in Tokens : TokenStep(c, t)
    \/ \E t \in Tokens : Background(t)
    \/ \E i \in DOMAIN writes : LandWrite(i)
    \/ Tick \/ Stop \/ Restart

Spec == Init /\ [][Next]_vars

-----------------------------------------------------------------------------
(* Properties *)

Ptr == Conns \cup {None}

\* Every variable has its type; this is where the pointers of the Go structs
\* get their ranges.
ProcType ==
    /\ up \in {"up", "down", "panicked"}
    /\ created \in 0 .. MaxSessions /\ horizon \in 0 .. created
SessType ==
    /\ live \subseteq Tokens /\ persisted \subseteq Tokens
    /\ timer \subseteq Tokens /\ expiring \subseteq Tokens
    /\ pcOf \in [Tokens -> Ptr] /\ mobileOf \in [Tokens -> Ptr]
ConnType ==
    /\ phase \in [Conns -> {"idle", "upgrading", "open"}]
    /\ clients \subseteq Conns /\ closed \subseteq Conns
    /\ role \in [Conns -> {"unset", "pc", "mobile"}]
    /\ sessionOf \in [Conns -> 0 .. MaxSessions]
    /\ device \in [Conns -> Devices \cup {None}]
    /\ told \in [Conns -> Devices \cup {PCPeer, None}]
CodeType == codePC \in [Tokens -> Ptr] /\ pending \in [Tokens -> Ptr]
DiskType ==
    file \subseteq Tokens /\ writes \in Seq(SUBSET Tokens) /\ overtaken \in BOOLEAN
TypeOK == ProcType /\ SessType /\ ConnType /\ CodeType /\ DiskType

\* The inductive invariant behind RelayIsMutual, part by part.
\* A connection is registered exactly while its read loop runs and its channel
\* is open, and is linked or marked only then.
ConnInv ==
    \A c \in Conns :
        /\ c \in clients => phase[c] = "open" /\ c \notin closed
        /\ phase[c] = "open" /\ c \notin closed => c \in clients
        /\ phase[c] = "upgrading" => c \notin closed
        /\ phase[c] # "open" => role[c] = "unset" /\ device[c] = None
        /\ sessionOf[c] <= created
\* A client's session points back to it.
OwnerInv ==
    \A c \in Conns : sessionOf[c] # 0 =>
        /\ c \in clients
        /\ \/ role[c] = "pc" /\ pcOf[sessionOf[c]] = c
           \/ role[c] = "mobile" /\ mobileOf[sessionOf[c]] = c
\* A session's phone, and its PC while the hub holds the session, point to it.
PhoneInv ==
    \A t \in Tokens : mobileOf[t] # None =>
        role[mobileOf[t]] = "mobile" /\ sessionOf[mobileOf[t]] = t
PCInv ==
    \A t \in live : pcOf[t] # None => role[pcOf[t]] = "pc" /\ sessionOf[pcOf[t]] = t
\* A session that can be hydrated, now or after a restart, has no PC.
HydrateInv ==
    /\ \A t \in persisted \ live : Expired(t) \/ pcOf[t] = None
    /\ up # "up" => \A t \in Tokens : pcOf[t] = None
\* A phone waits for one confirmation at most and is in no session meanwhile.
PendingInv ==
    \A t \in Tokens :
        /\ codePC[t] # None => t <= created
        /\ pending[t] # None =>
            /\ pending[t] \notin closed =>
                  /\ pending[t] \in clients /\ sessionOf[pending[t]] = 0
                  /\ role[pending[t]] = "unset" /\ device[pending[t]] # None
            /\ \A u \in Tokens : pending[u] = pending[t] => u = t

\* The links between connections, sessions and device codes are consistent after
\* every handler.
LinkInv == ConnInv /\ OwnerInv /\ PhoneInv /\ PCInv /\ HydrateInv /\ PendingInv

\* What handleRelay relies on: as long as the read loop of a client runs, the peer
\* its messages go to, in a session the hub still holds, is a registered client
\* with an open channel and has that client as its own peer.  Violated by a
\* kick, a preemption or a disconnect that leaves one of the pointers of a pair
\* behind.
RelayIsMutual ==
    \A c \in Conns :
        phase[c] = "open" /\ sessionOf[c] \in live /\ PeerOf(c) # None =>
            /\ PeerOf(c) \in clients \ closed
            /\ sessionOf[PeerOf(c)] = sessionOf[c]
            /\ PeerOf(PeerOf(c)) = c

\* A PC and a phone linked in a session stay linked until one of them
\* disconnects, the PC makes a new session, another phone takes over or the
\* process ends.  In particular neither the deadline nor a grace timer that
\* fired while the PC was coming back parts them.
LinkedPairStays ==
    [][\A t \in Tokens :
        LET p == pcOf[t]
            m == mobileOf[t]
        IN  /\ p # None /\ m # None /\ sessionOf[p] = t
            /\ ~(pcOf'[t] = p /\ mobileOf'[t] = m)
            => \/ up' # "up"
               \/ phase'[p] = "idle" \/ phase'[m] = "idle"
               \/ sessionOf'[p] # t
               \/ mobileOf'[t] \notin {m, None}]_vars

\* A session that is still valid leaves the hub only when its own PC replaces it
\* or the process ends ("reusable until expiry").
OnlyItsPCDestroys ==
    [][\A t \in live :
        t \notin live' /\ ~Expired(t)' =>
            \/ up' # "up"
            \/ \E c \in clients : /\ role[c] = "pc" /\ sessionOf[c] = t
                                  /\ sessionOf'[c] = created']_vars

\* Each client in a session has been told the truth about its peer: the last
\* status message queued to it names the peer it now has.  (Given that no one
\* acts on the code of a destroyed session and no send buffer overflows.)
ToldTheTruth ==
    \A c \in clients : sessionOf[c] # 0 =>
        told[c] = IF PeerOf(c) = None THEN None
                  ELSE IF role[c] = "pc" THEN device[PeerOf(c)] ELSE PCPeer

\* A session without a PC always has something that will end it at its
\* deadline: an armed grace timer or a goroutine that timer started.
OfflineSessionsAreTimed ==
    \A t \in live : pcOf[t] = None => t \in timer \cup expiring

\* While no snapshot is on its way, the file holds exactly the valid sessions: no
\* handler changes them without saving them, and a crash that loses snapshots, with the
\* restart after it, puts the hub back to what the file says.  The only way in which it
\* does not is that the youngest snapshot was written before an older one.
Stored == {t \in file : ~Expired(t)} = Snapshot(live, persisted)
FileIsCurrent ==
    up = "up" /\ StorePath /\ writes = << >> => overtaken \/ Stored

\* concurrency_test.go: connecting and disconnecting clients do not make the
\* server panic.
NeverPanics == up # "panicked"
=============================================================================
