---------------------------- MODULE DesktopSocket ----------------------------
(***************************************************************************)
(* The PC's socket to the relay (WebSocketService.cs): connections made by *)
(* the user and by the reconnect loop, and the button of MainWindow that   *)
(* starts the former.                                                      *)
(*                                                                         *)
(* Both go through ConnectInternal, which _connectLock admits one at a     *)
(* time.  ConnectAsync ends the reconnect loop first; what it cannot end,  *)
(* an attempt that is already under way, is an "orphan" from then on.  The *)
(* events of the service reach the window through its dispatcher, later.   *)
(*                                                                         *)
(* A click, a turn of the dispatcher, and what a task does between two     *)
(* awaits are one action; "finishing" is the one place where it matters    *)
(* that another task can run between two statements of a task.             *)
(***************************************************************************)
EXTENDS Naturals, Sequences

CONSTANTS
    MaxFails,    \* bound: attempts that fail and connections that break
    MaxClicks    \* bound: clicks of the user

VARIABLES
    sock,     \* _webSocket; "broken": it is not open any more, or nobody reads it
    reader,   \* whose connection ReceiveLoop and HeartbeatLoop watch
    handled,  \* _disconnectHandled
    lock,     \* who is in ConnectInternal
    waiting,  \* how many calls of ConnectAsync wait for the lock
    loop,     \* the task in _reconnectLoopTask: where it is
    events,   \* OnServerConnectionChanged, on the way to the window
    shown,    \* _serverConnected of the window
    button,   \* ConnectBtn.IsEnabled
    online,   \* CanUseConfiguredServer
    mishaps,  \* history: the defects of the code that have shown
    fails, clicks  \* bookkeeping

netVars == <<sock, reader, handled>>
taskVars == <<lock, waiting, loop>>
windowVars == <<events, shown, button, online>>
vars == <<netVars, taskVars, windowVars, mishaps, fails, clicks>>

Mishaps == {"twice", "finishing", "crossed", "unstarted"}

\* The window connects when it is loaded (AutoConnectAsync), unless there is no network
\* then, or no URL yet; a network that comes back connects nobody.
Init ==
    /\ sock = "none" /\ reader = "none" /\ handled = FALSE
    /\ lock = "free" /\ loop = "none"
    /\ events = <<>> /\ shown = FALSE
    /\ online \in BOOLEAN
    /\ \/ online /\ waiting = 1 /\ button = FALSE /\ mishaps = {}
       \/ waiting = 0 /\ button = online /\ mishaps = {"unstarted"}
    /\ fails = 0 /\ clicks = 0

-----------------------------------------------------------------------------
(* Connections *)

\* DisposeConnection of ConnectInternal: the present connection is given up, and its
\* tasks have ended before the next one is made.
Begins(who) ==
    /\ lock = "free" /\ lock' = who
    /\ sock' = "connecting" /\ reader' = "none"

\* ConnectInternal succeeds: the receive loop starts after OnConnected.
Succeeds(who) ==
    /\ lock = who /\ lock' = "free"
    /\ sock' = "open" /\ handled' = FALSE
    /\ events' = Append(events, TRUE)
    /\ UNCHANGED <<shown, fails>>

\* ConnectInternal fails.
Fails(who) ==
    /\ lock = who /\ lock' = "free"
    /\ sock' = "none"
    /\ fails < MaxFails /\ fails' = fails + 1

\* Mutant of HandleDisconnect: what is there to report is reported once and for all.
ReportOnly ==
    /\ handled' = TRUE
    /\ events' = IF handled THEN events ELSE Append(events, FALSE)
    /\ UNCHANGED <<loop, mishaps>>

\* HandleDisconnect reports a disconnection, if it is the first since a connection
\* was made, and EnsureReconnectLoop starts a loop, if there is none.  The early return
\* of the former leaves a PC whose loop was cancelled without one; the latter takes a
\* loop for one that will connect although it is about to return, and knows nothing
\* of a call that waits for the lock.
HandleDisconnect ==
    /\ handled' = TRUE
    /\ events' = IF handled THEN events ELSE Append(events, FALSE)
    /\ loop' = IF ~handled /\ loop = "none" THEN "delay" ELSE loop
    /\ mishaps' = mishaps \cup (IF handled /\ loop = "none" THEN {"twice"} ELSE {})
                          \cup (IF ~handled /\ loop = "finishing" THEN {"finishing"} ELSE {})
                          \cup (IF ~handled /\ waiting > 0 THEN {"crossed"} ELSE {})

\* A connection breaks.  The PC finds out when it reads, or by the heartbeat.
Breaks ==
    /\ sock = "open" /\ sock' = "broken"
    /\ fails < MaxFails /\ fails' = fails + 1
    /\ UNCHANGED <<reader, handled, taskVars, windowVars, mishaps, clicks>>

\* ReceiveLoop or HeartbeatLoop find the connection broken.
Report ==
    /\ sock = "broken" /\ reader # "none"
    /\ reader' = "none"
    /\ HandleDisconnect
    /\ UNCHANGED <<sock, lock, waiting, shown, button, online, fails, clicks>>

\* A handler of OnMessage throws: ReceiveLoop ends and reports a disconnection, although
\* the connection is open.
Throws ==
    /\ sock = "open" /\ reader # "none"
    /\ fails < MaxFails /\ fails' = fails + 1
    /\ sock' = "broken" /\ reader' = "none"
    /\ HandleDisconnect
    /\ UNCHANGED <<lock, waiting, shown, button, online, clicks>>

-----------------------------------------------------------------------------
(* The user's connections *)

\* UpdateControlState
Redraw == button' = (~shown' /\ online')

\* CancelReconnectLoop.  It cancels the tasks of a connection that the loop has made,
\* too, and an attempt under way is nobody's from now on.
Cancels ==
    /\ loop' = "none"
    /\ lock' = IF lock = "loop" THEN "orphan" ELSE lock
    /\ reader' = IF reader = "loop" THEN "none" ELSE reader

\* Connect_Click, and TryConnectAsync where it does not return early
Click ==
    /\ button /\ button' = FALSE
    /\ clicks < MaxClicks /\ clicks' = clicks + 1
    /\ waiting' = waiting + 1
    /\ Cancels
    /\ mishaps' = mishaps \ {"unstarted"}
    /\ UNCHANGED <<sock, handled, events, shown, online, fails>>

UserBegins ==
    /\ waiting > 0 /\ waiting' = waiting - 1
    /\ Begins("user")
    /\ UNCHANGED <<handled, loop, windowVars, mishaps, fails, clicks>>

\* TryConnectAsync goes on: the button is enabled as the window's state has it.
UserConnects ==
    /\ Succeeds("user")
    /\ reader' = "user"
    /\ UNCHANGED <<online, waiting, loop, mishaps, clicks>> /\ Redraw

\* The attempt fails; the loop that starts is not the one that Click has cancelled.
UserFails ==
    /\ Fails("user")
    /\ HandleDisconnect
    /\ UNCHANGED <<reader, waiting, shown, online, clicks>> /\ Redraw

-----------------------------------------------------------------------------
(* The reconnect loop *)

\* Task.Delay is over.
DelayEnds ==
    /\ loop = "delay" /\ loop' = "waiting"
    /\ UNCHANGED <<netVars, lock, waiting, windowVars, mishaps, fails, clicks>>

LoopBegins ==
    /\ loop = "waiting" /\ loop' = "connecting"
    /\ Begins("loop")
    /\ UNCHANGED <<handled, waiting, windowVars, mishaps, fails, clicks>>

\* The attempt succeeds; its task has yet to return.
LoopConnects ==
    /\ Succeeds("loop")
    /\ reader' = "loop"
    /\ loop' = "finishing"
    /\ UNCHANGED <<waiting, button, online, mishaps, clicks>>

\* The attempt fails, and nobody is told: the loop tries again.
LoopFails ==
    /\ Fails("loop")
    /\ loop' = "delay"
    /\ UNCHANGED <<reader, handled, waiting, windowVars, mishaps, clicks>>

LoopEnds ==
    /\ loop = "finishing" /\ loop' = "none"
    /\ UNCHANGED <<netVars, lock, waiting, windowVars, mishaps, fails, clicks>>

\* An attempt whose loop was cancelled while the connection was made: it is
\* reported, but the token that its tasks watch is cancelled.
OrphanConnects ==
    /\ Succeeds("orphan")
    /\ UNCHANGED <<reader, waiting, loop, button, online, mishaps, clicks>>

\* The cancelled attempt ends.
OrphanEnds ==
    /\ lock = "orphan" /\ lock' = "free"
    /\ sock' = "none"
    /\ UNCHANGED <<reader, handled, waiting, loop, windowVars, mishaps, fails, clicks>>

-----------------------------------------------------------------------------
(* The window *)

\* OnServerConnectionChanged, in the dispatcher
WindowHears ==
    /\ events # <<>> /\ events' = Tail(events)
    /\ shown' = Head(events)
    /\ UNCHANGED <<online, netVars, taskVars, mishaps, fails, clicks>> /\ Redraw

\* NetworkAvailabilityChanged and NetworkAddressChanged redraw the window, and the button
\* with it, and do no more.
NetworkChanges ==
    /\ online' \in BOOLEAN /\ UNCHANGED shown /\ Redraw
    /\ UNCHANGED <<netVars, taskVars, events, mishaps, fails, clicks>>

-----------------------------------------------------------------------------
User == Click \/ NetworkChanges
Service ==
    \/ Report \/ Throws
    \/ UserBegins \/ UserConnects \/ UserFails
    \/ DelayEnds \/ LoopBegins \/ LoopConnects \/ LoopFails \/ LoopEnds
    \/ OrphanConnects \/ OrphanEnds
    \/ WindowHears

Next == User \/ Breaks \/ Service

Spec == Init /\ [][Next]_vars

-----------------------------------------------------------------------------
TypeOK ==
    /\ sock \in {"none", "connecting", "open", "broken"}
    /\ reader \in {"none", "user", "loop"} /\ handled \in BOOLEAN
    /\ lock \in {"free", "user", "loop", "orphan"} /\ waiting \in 0..(1 + MaxClicks)
    /\ loop \in {"none", "delay", "waiting", "connecting", "finishing"}
    /\ events \in Seq(BOOLEAN) /\ shown \in BOOLEAN
    /\ button \in BOOLEAN /\ online \in BOOLEAN
    /\ mishaps \subseteq Mishaps /\ fails \in 0..MaxFails /\ clicks \in 0..MaxClicks

Spared(exceptions) == mishaps \cap exceptions = {}

\* Somebody is about to connect.
Underway == lock # "free" \/ waiting > 0 \/ loop # "none"

\* A PC without a connection is at it, or will notice (HandleDisconnect,
\* EnsureReconnectLoop; "Auto-reconnect", README.md), unless a second failure was not
\* handled, the loop that was relied on was about to return, or the program was started
\* without a network or a URL and nobody has clicked since.
SomebodyConnects ==
    Spared({"twice", "finishing", "unstarted"}) =>
        sock = "open" \/ Underway \/ (sock = "broken" /\ reader # "none")

\* When all has come to rest the window shows whether the PC is connected.  A loop that
\* takes down a connection does not tell the window.
WindowIsRight ==
    Spared({"crossed"}) /\ lock = "free" /\ waiting = 0 /\ events = <<>> /\ sock # "broken" =>
        shown = (sock = "open")

\* No reconnect loop is left beside a connection that works, which it would take down
\* (ConnectInternal disposes of the present one), unless it was started beside a call
\* that waits for the lock.
LoopSparesConnections ==
    Spared({"crossed"}) /\ sock = "open" => loop \notin {"delay", "waiting"}

\* WebSocketService keeps the PC connected, and its window knows: over all orders of
\* clicks, failures, cancelled loops and the window's turns.
SocketInv == TypeOK /\ SomebodyConnects /\ WindowIsRight /\ LoopSparesConnections
=============================================================================
