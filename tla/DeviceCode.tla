----------------------------- MODULE DeviceCode -----------------------------
(***************************************************************************)
(* How a phone gets its first connection: the camera and the device code   *)
(* of QRScanner.tsx, handleScan of App.tsx, the codes of hub.go and the    *)
(* dialogs of MainWindow.xaml.cs.                                          *)
(*                                                                         *)
(* A submitted code opens a socket of its own, on which the phone waits    *)
(* until the user of the PC has compared the verification IDs.  Then App   *)
(* connects with what it was sent, and its socket preempts the first one.  *)
(* Sockets are numbered as they are opened, and the number of a socket is  *)
(* also its verification ID.  The refs of a ManualConnect die with it; its *)
(* sockets and timers do not.  handoffPendingRef holds only while App is   *)
(* taking over, which is one step here: `over` of Unmount.                 *)
(*                                                                         *)
(* As in FileUpload, "mishaps" names the defects of the code that have     *)
(* shown, and a property makes an exception of those that can break it.    *)
(***************************************************************************)
EXTENDS Naturals, Sequences, FiniteSets

CONSTANTS
    MaxSockets, \* bound: submissions, those of other phones included
    MaxAutos,   \* bound: submissions that wait for their 80 ms
    MaxCameras, \* bound: starts of the camera
    MaxMishaps  \* bound: kinds of defect that show in one behaviour

ASSUME DeviceCodeAssumption == {MaxSockets, MaxAutos, MaxCameras, MaxMishaps} \subseteq Nat

Sockets == 1 .. MaxSockets
Cameras == 1 .. MaxCameras
None == 0
Main == MaxSockets + 1   \* the socket of useWebSocket

VARIABLES
    \* the scanner page
    ui,         \* "hidden", "camera" or "manual"
    ref,        \* scannerRef
    cams,       \* per camera: "unused", "starting", "running", "stopping", "off"
    scanning,
    \* ManualConnect
    autos,      \* the timers of 80 ms: whether theirs is the page's instance
    waiting, wsRef,
    timeoutRef, \* the socket whose timer of 8 s it holds
    \* the sockets
    opened, state,
    mine,       \* those of the page's instance
    others,     \* those of other phones
    armed,      \* those whose timer of 8 s runs
    closers,    \* those whose timer of 5 s runs
    inbox,      \* what a socket will receive
    main,       \* the socket of useWebSocket: "none", "joining", "linked"
    \* the hub
    alive,      \* the sockets whose channel is open
    asked,      \* those whose device_code_join it has handled, in that order
    valid,      \* the code has an entry
    pending,    \* its Pending
    mobile,     \* Session.Mobile
    \* the PC
    dialogs,    \* the requests that its user is asked about, the last one first
    answers,    \* on the way to the hub
    \* history
    wants,      \* the user has asked for a connection and not turned away since
    surprised,  \* the phone has connected although they had
    confirmed,  \* the verification IDs that were confirmed
    refused,    \* the sockets that the hub has refused
    mishaps

cameraVars == <<ref, cams, scanning>>
manualVars == <<autos, waiting, wsRef, timeoutRef>>
socketVars == <<opened, state, mine, others, armed, closers>>
hubVars == <<inbox, alive, asked, valid, pending, mobile>>
pcVars == <<dialogs, answers, confirmed, refused>>
userVars == <<wants, surprised>>
vars == <<ui, cameraVars, manualVars, socketVars, main, hubVars, pcVars, userVars, mishaps>>

Mishaps == {"double", "wiped", "late", "early", "denied"}

Init ==
    /\ ui = "hidden" /\ ref = None /\ cams = [i \in Cameras |-> "unused"]
    /\ scanning = FALSE /\ autos = <<>> /\ waiting = FALSE
    /\ wsRef = None /\ timeoutRef = None
    /\ opened = 0 /\ state = [i \in Sockets |-> "unused"]
    /\ mine = {} /\ others = {} /\ armed = {} /\ closers = {}
    /\ inbox = [i \in Sockets |-> <<>>] /\ main = "none"
    /\ alive = {} /\ asked = <<>> /\ valid = TRUE /\ pending = None /\ mobile = None
    /\ dialogs = <<>> /\ answers = <<>>
    /\ wants = FALSE /\ surprised = FALSE /\ confirmed = {} /\ refused = {}
    /\ mishaps = {}

-----------------------------------------------------------------------------
(* The page *)

Live(i) == i # None /\ state[i] \in {"connecting", "open"}

\* ws.close() of the sockets S
Close(S) == state' = [i \in Sockets |-> IF i \in S /\ Live(i) THEN "closing" ELSE state[i]]

\* Mutant of Unmount: the socket is left open.
Forget(over) ==
    /\ UNCHANGED state /\ mine' = {} /\ UNCHANGED closers
    /\ autos' = [k \in DOMAIN autos |-> FALSE]
    /\ waiting' = FALSE /\ wsRef' = None /\ timeoutRef' = None

\* ManualConnect goes: its socket is closed, or in 5 s if App is taking over (`over`).
\* No timer is stopped.
Unmount(over) ==
    /\ IF over THEN UNCHANGED state ELSE Close({wsRef})
    /\ closers' = closers \cup (IF over THEN {wsRef} \ {None} ELSE {})
    /\ mine' = {} /\ autos' = [k \in DOMAIN autos |-> FALSE]
    /\ waiting' = FALSE /\ wsRef' = None /\ timeoutRef' = None

\* handleScan of App: it connects, and the page goes.  `over`: it was the page's
\* ManualConnect that asked for it.
HandOff(over) ==
    /\ main' = IF main = "none" THEN "joining" ELSE main
    /\ ui' = "hidden"
    /\ Unmount(over) /\ ref' = None /\ scanning' = FALSE
    /\ surprised' = (surprised \/ ~wants) /\ wants' = FALSE

Open ==
    /\ ui = "hidden" /\ ui' = "camera"
    /\ UNCHANGED <<cameraVars, manualVars, socketVars, main, hubVars, pcVars, userVars,
                   mishaps>>

-----------------------------------------------------------------------------
(* The camera.  Html5Qrcode starts and stops in the background; stop() of one that is *)
(* not running fails. *)

StopIt ==
    IF ref = None THEN UNCHANGED <<cams, mishaps>>
    ELSE IF cams[ref] = "running"
    THEN cams' = [cams EXCEPT ![ref] = "stopping"] /\ UNCHANGED mishaps
    ELSE /\ UNCHANGED cams
         /\ mishaps' = IF cams[ref] = "starting" THEN mishaps \cup {"early"} ELSE mishaps

\* startScanner
StartCamera(i) ==
    /\ ui = "camera" /\ ~scanning /\ ref = None
    /\ cams[i] = "unused" /\ \A j \in 1 .. i - 1 : cams[j] # "unused"
    /\ cams' = [cams EXCEPT ![i] = "starting"] /\ ref' = i /\ scanning' = TRUE
    /\ wants' = TRUE
    /\ UNCHANGED <<ui, manualVars, socketVars, main, hubVars, pcVars, surprised, mishaps>>

CameraStarts(i) ==
    /\ cams[i] = "starting" /\ cams' = [cams EXCEPT ![i] = "running"]
    /\ UNCHANGED <<ui, ref, scanning, manualVars, socketVars, main, hubVars, pcVars,
                   userVars, mishaps>>

\* Mutant of CameraStops: scannerRef stays.
KeepRef(i) ==
    /\ cams[i] = "stopping" /\ cams' = [cams EXCEPT ![i] = "off"]
    /\ scanning' = (scanning /\ ref # i)
    /\ UNCHANGED <<ui, ref, manualVars, socketVars, main, hubVars, pcVars, userVars,
                   mishaps>>

\* Access is denied: scannerRef stays.
CameraFails(i) ==
    /\ cams[i] = "starting" /\ cams' = [cams EXCEPT ![i] = "off"]
    /\ scanning' = (scanning /\ ref # i)
    /\ mishaps' = IF ref = i THEN mishaps \cup {"denied"} ELSE mishaps
    /\ UNCHANGED <<ui, ref, manualVars, socketVars, main, hubVars, pcVars, userVars>>

\* stopScanner by its button; it lets go of the camera when that has stopped.
StopCamera ==
    /\ ui = "camera" /\ scanning /\ StopIt
    /\ IF cams'[ref] = "stopping" THEN UNCHANGED <<ref, scanning>>
       ELSE ref' = None /\ scanning' = FALSE
    /\ wants' = FALSE
    /\ UNCHANGED <<ui, manualVars, socketVars, main, hubVars, pcVars, surprised>>

CameraStops(i) ==
    /\ cams[i] = "stopping" /\ cams' = [cams EXCEPT ![i] = "off"]
    /\ IF ref = i THEN ref' = None /\ scanning' = FALSE ELSE UNCHANGED <<ref, scanning>>
    /\ UNCHANGED <<ui, manualVars, socketVars, main, hubVars, pcVars, userVars, mishaps>>

\* A code is read.
Decode(i) ==
    /\ cams[i] = "running" /\ cams' = [cams EXCEPT ![i] = "stopping"]
    /\ HandOff(FALSE)
    /\ UNCHANGED <<opened, others, armed, hubVars, pcVars, mishaps>>

\* The overlay is closed, or the tab changed.
Leave ==
    /\ ui # "hidden" /\ ui' = "hidden"
    /\ StopIt /\ ref' = None /\ scanning' = FALSE
    /\ Unmount(FALSE) /\ wants' = FALSE
    /\ UNCHANGED <<opened, others, armed, main, hubVars, pcVars, surprised>>

\* Between camera and code
Toggle ==
    /\ ui # "hidden" /\ ui' = IF ui = "camera" THEN "manual" ELSE "camera"
    /\ IF scanning
       THEN /\ StopIt
            /\ IF cams'[ref] = "stopping" THEN UNCHANGED <<ref, scanning>>
               ELSE ref' = None /\ scanning' = FALSE
       ELSE UNCHANGED <<cameraVars, mishaps>>
    /\ Unmount(FALSE) /\ wants' = FALSE
    /\ UNCHANGED <<opened, others, armed, main, hubVars, pcVars, surprised>>

-----------------------------------------------------------------------------
(* The code *)

\* A full set of characters is entered; handleSubmit comes 80 ms later, with what
\* `waiting` is now.
Enter ==
    /\ ui = "manual" /\ ~waiting /\ Len(autos) < MaxAutos
    /\ autos' = Append(autos, TRUE)
    /\ wants' = TRUE
    /\ UNCHANGED <<ui, cameraVars, waiting, wsRef, timeoutRef, socketVars, main, hubVars,
                   pcVars, surprised, mishaps>>

\* handleSubmit by the page's instance or an earlier one.  `wanted`: the user wants it.
Submit(own, wanted) ==
    LET i == opened + 1 IN
    /\ opened' = i /\ i \in Sockets
    /\ state' = [state EXCEPT ![i] = "connecting"]
    /\ armed' = armed \cup {i}
    /\ IF own THEN /\ wsRef' = i /\ timeoutRef' = i /\ waiting' = TRUE
                   /\ mine' = mine \cup {i}
       ELSE UNCHANGED <<wsRef, timeoutRef, waiting, mine>>
    /\ mishaps' = mishaps \cup (IF own /\ Live(wsRef) THEN {"double"} ELSE {})
                          \cup (IF own /\ wanted THEN {} ELSE {"late"})
    /\ UNCHANGED <<ui, cameraVars, others, closers, main, hubVars, pcVars, surprised>>

AutoSubmit ==
    /\ autos # <<>> /\ autos' = Tail(autos)
    /\ Submit(Head(autos), wants) /\ UNCHANGED wants

\* The characters are there, and the button or the enter key is pressed.
PressConnect ==
    /\ ui = "manual" /\ ~waiting
    /\ Submit(TRUE, TRUE) /\ wants' = TRUE /\ UNCHANGED autos

\* Mutant of Cancel: the socket is left to its timer.
LetGo ==
    /\ ui = "manual" /\ waiting
    /\ timeoutRef' = None /\ wsRef' = None /\ waiting' = FALSE /\ wants' = FALSE
    /\ UNCHANGED <<ui, cameraVars, autos, opened, state, mine, others, armed, closers, main,
                   hubVars, pcVars, surprised, mishaps>>

\* cancelPending
Cancel ==
    /\ ui = "manual" /\ waiting
    /\ armed' = armed \ {timeoutRef} /\ timeoutRef' = None
    /\ Close({wsRef}) /\ wsRef' = None /\ waiting' = FALSE
    /\ wants' = FALSE
    /\ UNCHANGED <<ui, cameraVars, autos, opened, mine, others, closers, main,
                   hubVars, pcVars, surprised, mishaps>>

socketRest == <<ui, cameraVars, autos, opened, mine, others, main>>

\* The timer of 8 s
GiveUp(i) ==
    /\ i \in armed /\ armed' = armed \ {i}
    /\ Close({i})
    /\ IF i \in mine THEN waiting' = FALSE /\ timeoutRef' = None
       ELSE UNCHANGED <<waiting, timeoutRef>>
    /\ UNCHANGED <<socketRest, wsRef, closers, hubVars, pcVars, userVars, mishaps>>

\* The timer of 5 s after a hand-over
CloseLate(i) ==
    /\ i \in closers /\ closers' = closers \ {i}
    /\ Close({i})
    /\ UNCHANGED <<socketRest, waiting, wsRef, timeoutRef, armed, hubVars, pcVars,
                   userVars, mishaps>>

Opens(i) ==
    /\ state[i] = "connecting" /\ state' = [state EXCEPT ![i] = "open"]
    /\ alive' = alive \cup {i}
    /\ UNCHANGED <<socketRest, waiting, wsRef, timeoutRef, armed, closers, inbox,
                   asked, valid, pending, mobile, pcVars, userVars, mishaps>>

\* The handlers of socket i stop the timer that the timeoutRef of their instance holds:
\* if that instance has gone, the timer of a socket like i, or none.
StopTimer(i) ==
    IF i \in mine THEN armed' = armed \ {timeoutRef}
    ELSE \E j \in (Sockets \ mine) \cup {None} : armed' = armed \ {j}

\* onclose, after onerror if it failed; they touch what the refs hold now.
Ends(i) ==
    /\ i \notin others /\ state[i] \in {"connecting", "open", "closing"}
    /\ state' = [state EXCEPT ![i] = "gone"] /\ inbox' = [inbox EXCEPT ![i] = <<>>]
    /\ StopTimer(i)
    /\ IF i \in mine
       THEN /\ wsRef' = None /\ waiting' = FALSE /\ timeoutRef' = None
            /\ mishaps' = IF wsRef \in {None, i} THEN mishaps ELSE mishaps \cup {"wiped"}
       ELSE UNCHANGED <<waiting, wsRef, timeoutRef, mishaps>>
    /\ UNCHANGED <<socketRest, closers, alive, asked, valid, pending, mobile,
                   pcVars, userVars>>

\* The next message to an open socket
Arrives(i, type) ==
    /\ i \notin others /\ state[i] = "open" /\ inbox[i] # <<>> /\ Head(inbox[i]) = type
    /\ inbox' = [inbox EXCEPT ![i] = Tail(@)]
    /\ UNCHANGED <<alive, asked, valid, pending, mobile, pcVars>>

\* joined, and approved
TakeJoined(i) ==
    /\ Arrives(i, "joined")
    /\ StopTimer(i)
    /\ HandOff(i \in mine)
    /\ StopIt
    /\ UNCHANGED <<opened, others>>

TakeError(i) ==
    /\ Arrives(i, "error")
    /\ Close({i}) /\ StopTimer(i)
    /\ IF i \in mine THEN timeoutRef' = None /\ waiting' = FALSE
       ELSE UNCHANGED <<timeoutRef, waiting>>
    /\ UNCHANGED <<socketRest, wsRef, closers, userVars, mishaps>>

-----------------------------------------------------------------------------
(* The other phones, and useWebSocket *)

phoneVars == <<ui, cameraVars, manualVars, mine, armed, closers, userVars>>

\* Another phone submits the code.
OtherSubmits ==
    LET i == opened + 1 IN
    /\ i \in Sockets /\ opened' = i /\ others' = others \cup {i}
    /\ state' = [state EXCEPT ![i] = "open"]
    /\ alive' = alive \cup {i}
    /\ UNCHANGED <<phoneVars, main, inbox, asked, valid, pending, mobile, pcVars,
                   mishaps>>

hubRest == <<phoneVars, opened, state, others>>

\* The hub sends c to socket i, if it has one.
Tell(i, c) == IF i \in Sockets \ others THEN [inbox EXCEPT ![i] = Append(@, c)] ELSE inbox

\* join_session of useWebSocket: a phone on a pairing socket is preempted.
MainJoins ==
    /\ main = "joining" /\ main' = "linked" /\ mobile' = Main
    /\ alive' = alive \ {mobile}
    /\ UNCHANGED <<hubRest, inbox, asked, valid, pending, pcVars, mishaps>>

MainLeaves ==
    /\ main # "none" /\ main' = "none"
    /\ mobile' = IF mobile = Main THEN None ELSE mobile
    /\ UNCHANGED <<hubRest, inbox, alive, asked, valid, pending, pcVars, mishaps>>

-----------------------------------------------------------------------------
(* The hub *)

\* Unregister; an entry's Pending stays as it is.
Drop(i) ==
    /\ i \in alive /\ state[i] = "gone" /\ alive' = alive \ {i}
    /\ mobile' = IF mobile = i THEN None ELSE mobile
    /\ UNCHANGED <<hubRest, main, inbox, asked, valid, pending, pcVars, mishaps>>

Askers == {asked[k] : k \in DOMAIN asked}

\* Mutant of JoinCode: the first one stays Pending.
KeepFirst(i) ==
    /\ i \in alive \ Askers /\ asked' = Append(asked, i)
    /\ IF valid
       THEN /\ pending' = IF pending = None THEN i ELSE pending
            /\ dialogs' = <<i>> \o dialogs
            /\ UNCHANGED <<inbox, refused>>
       ELSE /\ inbox' = Tell(i, "error") /\ refused' = refused \cup {i}
            /\ UNCHANGED <<pending, dialogs>>
    /\ UNCHANGED <<hubRest, main, alive, valid, mobile, answers, confirmed, mishaps>>

\* handleDeviceCodeJoin: the last one that joins is Pending.
JoinCode(i) ==
    /\ i \in alive \ Askers /\ asked' = Append(asked, i)
    /\ IF valid
       THEN /\ pending' = i /\ dialogs' = <<i>> \o dialogs
            /\ UNCHANGED <<inbox, refused>>
       ELSE /\ inbox' = Tell(i, "error") /\ refused' = refused \cup {i}
            /\ UNCHANGED <<pending, dialogs>>
    /\ UNCHANGED <<hubRest, main, alive, valid, mobile, answers, confirmed, mishaps>>

\* handleDeviceCodeConfirm: Pending becomes the phone of the session.
\* If it has left, the hub panics: RelayHub.Panic.
Confirm ==
    /\ answers # <<>> /\ Head(answers) = "confirm" /\ answers' = Tail(answers)
    /\ IF valid /\ pending # None
       THEN /\ pending \in alive /\ mobile' = pending
            /\ main' = IF mobile = Main THEN "none" ELSE main
            /\ alive' = alive \ {mobile} /\ inbox' = Tell(pending, "joined")
            /\ valid' = FALSE /\ pending' = None
       ELSE UNCHANGED <<mobile, main, alive, inbox, valid, pending>>
    /\ UNCHANGED <<hubRest, asked, dialogs, confirmed, refused, mishaps>>

\* Mutant of Reject: Pending stays.
KeepRefused ==
    /\ answers # <<>> /\ Head(answers) = "reject" /\ answers' = Tail(answers)
    /\ IF valid /\ pending # None
       THEN /\ pending \in alive /\ inbox' = Tell(pending, "error")
            /\ refused' = refused \cup {pending}
       ELSE UNCHANGED <<inbox, refused>>
    /\ UNCHANGED <<hubRest, main, alive, asked, valid, pending, mobile, dialogs,
                   confirmed, mishaps>>

\* handleDeviceCodeReject
Reject ==
    /\ answers # <<>> /\ Head(answers) = "reject" /\ answers' = Tail(answers)
    /\ IF valid /\ pending # None
       THEN /\ pending \in alive /\ inbox' = Tell(pending, "error")
            /\ pending' = None /\ refused' = refused \cup {pending}
       ELSE UNCHANGED <<pending, inbox, refused>>
    /\ UNCHANGED <<hubRest, main, alive, asked, valid, mobile, dialogs,
                   confirmed, mishaps>>

-----------------------------------------------------------------------------
(* The PC *)

pcRest == <<ui, cameraVars, manualVars, socketVars, main, hubVars, userVars, mishaps>>

\* The user answers the last dialog, which alone is enabled.
Answer(kind) ==
    /\ dialogs # <<>> /\ dialogs' = Tail(dialogs)
    /\ answers' = Append(answers, kind)
    /\ confirmed' = IF kind = "confirm" THEN confirmed \cup {Head(dialogs)} ELSE confirmed
    /\ UNCHANGED <<pcRest, refused>>

-----------------------------------------------------------------------------
Camera(i) ==
    StartCamera(i) \/ CameraStarts(i) \/ CameraFails(i) \/ CameraStops(i) \/ Decode(i)
Manual == Enter \/ AutoSubmit \/ PressConnect \/ Cancel
Socket(i) ==
    \/ GiveUp(i) \/ CloseLate(i) \/ Opens(i) \/ Ends(i)
    \/ TakeJoined(i) \/ TakeError(i)
Hub == MainJoins \/ MainLeaves \/ Confirm \/ Reject
HubSocket(i) == Drop(i) \/ JoinCode(i)
PC == Answer("confirm") \/ Answer("reject")

Step ==
    \/ Open \/ StopCamera \/ Leave \/ Toggle \/ (\E i \in Cameras : Camera(i))
    \/ Manual \/ (\E i \in Sockets : Socket(i) \/ HubSocket(i))
    \/ OtherSubmits \/ Hub \/ PC

Next == Step /\ Cardinality(mishaps') <= MaxMishaps

Spec == Init /\ [][Next]_vars

-----------------------------------------------------------------------------
(* Properties *)

Spared(exceptions) == mishaps \cap exceptions = {}

\* device_code_confirm names the code only.  Still, the phone that it admits is the one
\* whose verification ID the user of the PC has compared, or one that has entered the
\* code later: never one that had been replaced before, nor one that the hub has refused,
\* however joins, dialogs and answers interleave.
AdmittedInTurn ==
    mobile \in Sockets =>
        /\ mobile \notin refused
        /\ \E j, k \in DOMAIN asked :
              j <= k /\ asked[j] \in confirmed /\ asked[k] = mobile

\* A user who has cancelled, or left the page, is not connected later by what was under
\* way.  Except by a socket that its ManualConnect has lost sight of (below), by a timer
\* of 80 ms that nobody stops, and by a camera that was left while it started.
TurnedAwayStaysAway ==
    Spared({"double", "wiped", "late", "early"}) => ~surprised

\* A socket on which a phone waits is held by its ManualConnect, which can close it.
\* Except when a code is submitted twice, by its timer of 80 ms and by hand, and when
\* the end of an earlier socket clears the refs of the next one.
SocketsAreHeld ==
    Spared({"double", "wiped", "late"})
    => \A i \in Sockets \ others : Live(i) => i = wsRef \/ i \in closers

\* A camera can be started again when none runs.  Except when access was denied:
\* startScanner returns at once because of what it left in scannerRef.
CameraCanStart == Spared({"denied"}) => (ref # None => scanning)
=============================================================================
