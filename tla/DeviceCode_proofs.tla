-------------------------- MODULE DeviceCode_proofs --------------------------
(***************************************************************************)
(* The phone that a confirmation admits has not entered the code before    *)
(* the one that the user of the PC has compared, and has not been refused; *)
(* the camera can be started again; every pairing socket that waits is     *)
(* held by a handler; and a user who has turned away is left alone.        *)
(* Proved for any number of sockets, cameras and submissions.              *)
(***************************************************************************)
EXTENDS DeviceCode, TLAPS

-----------------------------------------------------------------------------
(* The inductive invariant *)

AdmissionTypes ==
    /\ asked \in Seq(Sockets) /\ dialogs \in Seq(Sockets)
    /\ answers \in Seq({"confirm", "reject"})
    /\ pending \in Sockets \cup {None}

\* Pending is the last one that has joined, and has no answer of the hub yet.  A code
\* that still has an entry has admitted nobody.
PendingInv ==
    /\ valid => mobile \notin Sockets
    /\ pending # None => valid /\ asked # <<>> /\ pending = asked[Len(asked)]
    /\ pending \notin refused

\* Who is in a dialog, was confirmed or was refused has joined, and a confirmation on its
\* way is that of somebody.
AskersInv ==
    /\ \A k \in DOMAIN dialogs : dialogs[k] \in Askers
    /\ confirmed \subseteq Askers /\ refused \subseteq Askers
    /\ \A k \in DOMAIN answers : answers[k] = "confirm" => confirmed # {}

InOrder ==
    mobile \in Sockets =>
        \E j, k \in DOMAIN asked :
            j <= k /\ asked[j] \in confirmed /\ asked[k] = mobile

NotRefused == mobile \notin refused

AdmissionInv ==
    /\ AdmissionTypes /\ PendingInv /\ AskersInv
    /\ InOrder /\ NotRefused

LEMMA NoneIsNoSocket == None \notin Sockets /\ Main \notin Sockets /\ None # Main
BY DeviceCodeAssumption DEF None, Sockets, Main

LEMMA AdmissionInit == Init => AdmissionInv
BY NoneIsNoSocket
   DEF Init, AdmissionInv, AdmissionTypes, PendingInv, AskersInv, InOrder,
       NotRefused, Askers

\* Who has joined are sockets.
LEMMA AskersAreSockets == ASSUME AdmissionInv PROVE Askers \subseteq Sockets
BY DEF AdmissionInv, AdmissionTypes, Askers

\* A step that neither the hub's entry nor the PC takes part in, and that at most takes
\* a phone out of the session, keeps the invariant.
LEMMA AsideStep ==
    ASSUME AdmissionInv,
           UNCHANGED <<asked, valid, pending, dialogs, answers, confirmed, refused>>,
           mobile' \in {mobile, None, Main}
    PROVE  AdmissionInv'
<1>1. (AdmissionTypes /\ PendingInv /\ AskersInv)'
  BY NoneIsNoSocket DEF AdmissionInv, AdmissionTypes, PendingInv, AskersInv, Askers
<1>2. InOrder'
  BY NoneIsNoSocket DEF AdmissionInv, InOrder
<1>3. NotRefused'
  BY NoneIsNoSocket, AskersAreSockets DEF AdmissionInv, AskersInv, NotRefused
<1> QED
  BY <1>1, <1>2, <1>3 DEF AdmissionInv

LEMMA StopItOnlyAdds == ASSUME StopIt PROVE mishaps \subseteq mishaps'
BY DEF StopIt

\* A request comes: it is the last one, and new.
LEMMA JoinStep ==
    ASSUME AdmissionInv, NEW i \in Sockets, JoinCode(i)
    PROVE  AdmissionInv'
<1> USE DEF hubRest
<1>1. /\ i \notin Askers /\ asked' = Append(asked, i)
      /\ UNCHANGED <<valid, mobile, answers, confirmed>>
  BY DEF JoinCode
<1>3. \/ pending' = i /\ valid /\ dialogs' = <<i>> \o dialogs /\ refused' = refused
      \/ pending' = pending /\ ~valid /\ dialogs' = dialogs /\ refused' = refused \cup {i}
  BY DEF JoinCode
<1>4. /\ asked \in Seq(Sockets) /\ dialogs \in Seq(Sockets)
      /\ answers \in Seq({"confirm", "reject"}) /\ pending \in Sockets \cup {None}
  BY DEF AdmissionInv, AdmissionTypes
<1>5. /\ Len(asked') = Len(asked) + 1 /\ asked'[Len(asked')] = i /\ asked' # <<>>
      /\ \A k \in DOMAIN asked : k \in DOMAIN asked' /\ asked'[k] = asked[k]
      /\ Len(asked') \in DOMAIN asked'
  BY <1>1, <1>4
<1>6. Askers \subseteq Askers' /\ i \in Askers'
  BY <1>5 DEF Askers
<1>7. AdmissionTypes'
  <2>1. asked' \in Seq(Sockets)
    BY <1>1, <1>4
  <2>2. dialogs' \in Seq(Sockets)
    BY <1>3, <1>4
  <2> QED
    BY <1>1, <1>3, <1>4, <2>1, <2>2 DEF AdmissionTypes
<1>8. PendingInv'
  <2>1. /\ refused \subseteq Askers /\ (pending # None => valid) /\ pending \notin refused
        /\ valid => mobile \notin Sockets
    BY DEF AdmissionInv, AskersInv, PendingInv
  <2>2. i # None
    BY NoneIsNoSocket
  <2> QED
    BY <1>1, <1>3, <1>5, <2>1, <2>2 DEF PendingInv
<1>9. AskersInv'
  <2>1. /\ \A k \in DOMAIN dialogs : dialogs[k] \in Askers
        /\ confirmed \subseteq Askers /\ refused \subseteq Askers
        /\ \A k \in DOMAIN answers : answers[k] = "confirm" => confirmed # {}
    BY DEF AdmissionInv, AskersInv
  <2>2. ASSUME NEW k \in DOMAIN dialogs' PROVE dialogs'[k] \in Askers'
    <3>1. CASE dialogs' = dialogs
      BY <1>6, <2>1, <2>2, <3>1
    <3>2. CASE dialogs' = <<i>> \o dialogs
      <4>1. k \in 1 .. Len(dialogs) + 1
        BY <1>4, <2>2, <3>2
      <4>2. dialogs'[k] = i \/ (k - 1 \in DOMAIN dialogs /\ dialogs'[k] = dialogs[k - 1])
        BY <1>4, <3>2, <4>1
      <4> QED
        BY <1>6, <2>1, <4>2
    <3> QED
      BY <1>3, <3>1, <3>2
  <2>3. confirmed' \subseteq Askers' /\ refused' \subseteq Askers'
    BY <1>1, <1>3, <1>6, <2>1
  <2> QED
    BY <1>1, <2>1, <2>2, <2>3 DEF AskersInv
<1>10. InOrder'
  <2> SUFFICES ASSUME mobile \in Sockets
               PROVE  \E j, k \in DOMAIN asked' :
                          j <= k /\ asked'[j] \in confirmed /\ asked'[k] = mobile
    BY <1>1 DEF InOrder
  <2>1. PICK j, k \in DOMAIN asked : j <= k /\ asked[j] \in confirmed /\ asked[k] = mobile
    BY DEF AdmissionInv, InOrder
  <2> QED
    BY <1>5, <2>1
<1>11. NotRefused'
  <2>1. mobile \in Sockets => mobile \in Askers
    BY DEF AdmissionInv, InOrder, Askers
  <2> QED
    BY <1>1, <1>3, <2>1 DEF AdmissionInv, NotRefused
<1> QED
  BY <1>7, <1>8, <1>9, <1>10, <1>11 DEF AdmissionInv

\* The user answers the dialog of a request.
LEMMA AnswerStep ==
    ASSUME AdmissionInv, NEW kind \in {"confirm", "reject"}, Answer(kind)
    PROVE  AdmissionInv'
<1>1. /\ dialogs # <<>> /\ dialogs' = Tail(dialogs) /\ answers' = Append(answers, kind)
      /\ confirmed' = IF kind = "confirm" THEN confirmed \cup {Head(dialogs)}
                                          ELSE confirmed
      /\ UNCHANGED <<asked, valid, pending, mobile, refused>>
  BY DEF Answer, pcRest, hubVars
<1>2. dialogs \in Seq(Sockets) /\ answers \in Seq({"confirm", "reject"})
  BY DEF AdmissionInv, AdmissionTypes
<1>3. Askers' = Askers
  BY <1>1 DEF Askers
<1>4. AdmissionTypes'
  <2>1. dialogs' \in Seq(Sockets) /\ answers' \in Seq({"confirm", "reject"})
    BY <1>1, <1>2
  <2> QED
    BY <1>1, <2>1 DEF AdmissionInv, AdmissionTypes
<1>5. PendingInv' /\ NotRefused'
  BY <1>1 DEF AdmissionInv, PendingInv, NotRefused
<1>6. AskersInv'
  <2>1. /\ \A k \in DOMAIN dialogs : dialogs[k] \in Askers
        /\ confirmed \subseteq Askers /\ refused \subseteq Askers
        /\ \A k \in DOMAIN answers : answers[k] = "confirm" => confirmed # {}
    BY DEF AdmissionInv, AskersInv
  <2>2. Head(dialogs) \in Askers
    BY <1>1, <1>2, <2>1
  <2>3. \A k \in DOMAIN dialogs' : dialogs'[k] \in Askers
    <3>1. \A k \in DOMAIN dialogs' : k + 1 \in DOMAIN dialogs /\ dialogs'[k] = dialogs[k + 1]
      BY <1>1, <1>2
    <3> QED
      BY <2>1, <3>1
  <2>4. ASSUME NEW k \in DOMAIN answers', answers'[k] = "confirm" PROVE confirmed' # {}
    <3>1. kind = "confirm" \/ (k \in DOMAIN answers /\ answers[k] = "confirm")
      BY <1>1, <1>2, <2>4
    <3> QED
      BY <1>1, <2>1, <3>1
  <2>5. confirmed' \subseteq Askers
    BY <1>1, <2>1, <2>2
  <2> QED
    BY <1>1, <1>3, <2>1, <2>3, <2>4, <2>5 DEF AskersInv
<1>7. InOrder'
  BY <1>1 DEF AdmissionInv, InOrder
<1> QED
  BY <1>4, <1>5, <1>6, <1>7 DEF AdmissionInv

\* The answer arrives: whoever was confirmed has joined no later than the one that is
\* Pending.
LEMMA ConfirmStep ==
    ASSUME AdmissionInv, Confirm \/ Reject
    PROVE  AdmissionInv'
<1>1. /\ answers # <<>> /\ answers' = Tail(answers)
      /\ UNCHANGED <<asked, dialogs, confirmed>>
  BY DEF Confirm, Reject
<1>2. /\ asked \in Seq(Sockets) /\ answers \in Seq({"confirm", "reject"})
      /\ dialogs \in Seq(Sockets) /\ pending \in Sockets \cup {None}
  BY DEF AdmissionInv, AdmissionTypes
<1>3. Askers' = Askers
  BY <1>1 DEF Askers
<1>4. /\ pending' \in {pending, None} /\ (pending' # None => valid' = valid)
      /\ valid' => valid /\ mobile' = mobile
  BY DEF Confirm, Reject
<1>5. AdmissionTypes'
  <2>1. answers' \in Seq({"confirm", "reject"})
    BY <1>1, <1>2
  <2> QED
    BY <1>1, <1>2, <1>4, <2>1 DEF AdmissionTypes
<1>6. /\ \/ refused' = refused
         \/ refused' = refused \cup {pending} /\ pending' = None /\ pending # None
      /\ pending # None => asked # <<>> /\ pending = asked[Len(asked)] /\ valid
      /\ pending \notin refused /\ refused \subseteq Askers
  BY DEF Confirm, Reject, AdmissionInv, PendingInv, AskersInv
<1>7. pending # None => /\ pending \in Askers
                        /\ Len(asked) \in DOMAIN asked /\ asked[Len(asked)] = pending
  BY <1>2, <1>6 DEF Askers
<1>8. PendingInv'
  <2>1. None \notin refused
    BY <1>6, NoneIsNoSocket, AskersAreSockets
  <2> QED
    BY <1>1, <1>4, <1>6, <2>1, NoneIsNoSocket DEF AdmissionInv, PendingInv
<1>9. AskersInv'
  <2>1. /\ \A k \in DOMAIN dialogs : dialogs[k] \in Askers
        /\ confirmed \subseteq Askers
        /\ \A k \in DOMAIN answers : answers[k] = "confirm" => confirmed # {}
    BY DEF AdmissionInv, AskersInv
  <2>2. \A k \in DOMAIN answers' : k + 1 \in DOMAIN answers /\ answers'[k] = answers[k + 1]
    BY <1>1, <1>2
  <2>3. refused' \subseteq Askers
    BY <1>6, <1>7
  <2> QED
    BY <1>1, <1>3, <2>1, <2>2, <2>3 DEF AskersInv
<1>10. CASE Confirm /\ valid /\ pending # None
  <2>1. mobile' = pending /\ refused' = refused
    BY <1>10 DEF Confirm
  <2>2. confirmed # {} /\ confirmed \subseteq Askers
    <3>1. 1 \in DOMAIN answers /\ answers[1] = "confirm"
      BY <1>1, <1>2, <1>10 DEF Confirm
    <3> QED
      BY <3>1 DEF AdmissionInv, AskersInv
  <2>3. PICK j \in DOMAIN asked : asked[j] \in confirmed
    BY <2>2 DEF Askers
  <2>4. j <= Len(asked)
    BY <1>2
  <2>5. InOrder'
    BY <1>1, <1>7, <1>10, <2>1, <2>3, <2>4 DEF InOrder
  <2>6. NotRefused'
    BY <1>6, <2>1 DEF NotRefused
  <2> QED
    BY <1>5, <1>8, <1>9, <2>5, <2>6 DEF AdmissionInv
<1>11. CASE Reject \/ ~(valid /\ pending # None)
  <2>1. mobile' = mobile
    BY <1>11 DEF Confirm, Reject
  <2>2. pending # None => mobile # pending
    BY <1>2, <1>6 DEF AdmissionInv, PendingInv
  <2>3. InOrder'
    BY <1>1, <2>1 DEF AdmissionInv, InOrder
  <2>4. NotRefused'
    BY <1>6, <2>1, <2>2 DEF AdmissionInv, NotRefused
  <2> QED
    BY <1>5, <1>8, <1>9, <2>3, <2>4 DEF AdmissionInv
<1> QED
  BY <1>10, <1>11

LEMMA AdmissionNext == AdmissionInv /\ [Next]_vars => AdmissionInv'
<1> SUFFICES ASSUME AdmissionInv, [Next]_vars PROVE AdmissionInv'
  OBVIOUS
<1> USE DEF cameraVars, manualVars, socketVars, hubVars, pcVars, userVars, phoneVars,
            socketRest, hubRest
<1>1. CASE Open \/ StopCamera \/ Leave \/ Toggle
  BY <1>1, AsideStep DEF Open, StopCamera, Leave, Toggle
<1>2. ASSUME NEW i \in Cameras, Camera(i) PROVE AdmissionInv'
  BY <1>2, AsideStep DEF Camera, StartCamera, CameraStarts, CameraFails, CameraStops, Decode
<1>3. CASE Manual
  BY <1>3, AsideStep DEF Manual, Enter, AutoSubmit, PressConnect, Submit, Cancel
<1>4. ASSUME NEW i \in Sockets, Socket(i) PROVE AdmissionInv'
  BY <1>4, AsideStep
     DEF Socket, TakeJoined, GiveUp, CloseLate, Opens, Ends, TakeError, Arrives
<1>5. ASSUME NEW i \in Sockets, HubSocket(i) PROVE AdmissionInv'
  <2>1. CASE Drop(i)
    BY <2>1, AsideStep DEF Drop
  <2> QED
    BY <1>5, <2>1, JoinStep DEF HubSocket
<1>6. CASE OtherSubmits \/ MainJoins \/ MainLeaves
  BY <1>6, AsideStep DEF OtherSubmits, MainJoins, MainLeaves
<1>7. CASE Confirm \/ Reject
  BY <1>7, ConfirmStep
<1>8. CASE PC
  BY <1>8, AnswerStep DEF PC
<1>9. CASE UNCHANGED vars
  BY <1>9, AsideStep DEF vars
<1> QED
  BY <1>1, <1>2, <1>3, <1>4, <1>5, <1>6, <1>7, <1>8, <1>9 DEF Next, Step, Hub

\* handleDeviceCodeConfirm of hub.go, which is given the code only, admits nobody who had
\* been replaced by a later phone when the user of the PC compared a verification ID, and
\* nobody to whom handleDeviceCodeReject or handleDeviceCodeJoin has sent an error.
THEOREM SpecAdmittedInTurn == Spec => []AdmittedInTurn
<1>1. AdmissionInv => AdmittedInTurn
  BY DEF AdmissionInv, InOrder, NotRefused, AdmittedInTurn
<1> QED
  BY <1>1, AdmissionInit, AdmissionNext, PTL DEF Spec

-----------------------------------------------------------------------------
(* The camera *)

LEMMA CameraNext == CameraCanStart /\ [Next]_vars => CameraCanStart'
<1> SUFFICES ASSUME CameraCanStart, [Next]_vars PROVE CameraCanStart'
  OBVIOUS
<1>a. ASSUME mishaps \subseteq mishaps',
             \/ ref' = None
             \/ UNCHANGED <<ref, scanning>>
      PROVE  CameraCanStart'
  BY <1>a DEF CameraCanStart, Spared
<1> USE DEF cameraVars, manualVars, socketVars, hubVars, pcVars, userVars, phoneVars,
            socketRest, hubRest
<1>1. CASE Open \/ StopCamera \/ Leave \/ Toggle
  <2>1. mishaps \subseteq mishaps'
    BY <1>1, StopItOnlyAdds DEF Open, StopCamera, Leave, Toggle
  <2>2. ref' = None \/ UNCHANGED <<ref, scanning>>
    BY <1>1 DEF Open, StopCamera, Leave, Toggle
  <2> QED
    BY <2>1, <2>2, <1>a
<1>2. ASSUME NEW i \in Cameras, Camera(i) PROVE CameraCanStart'
  <2>1. CASE StartCamera(i)
    BY <2>1 DEF StartCamera, CameraCanStart
  <2>2. CASE CameraFails(i)
    <3>1. CASE ref = i
      BY <2>2, <3>1 DEF CameraFails, CameraCanStart, Spared
    <3>2. CASE ref # i
      BY <2>2, <3>2 DEF CameraFails, CameraCanStart, Spared
    <3> QED
      BY <3>1, <3>2
  <2>3. CASE CameraStarts(i) \/ CameraStops(i) \/ Decode(i)
    BY <2>3, <1>a DEF CameraStarts, CameraStops, Decode, HandOff
  <2> QED
    BY <1>2, <2>1, <2>2, <2>3 DEF Camera
<1>3. CASE Manual
  BY <1>3, <1>a DEF Manual, Enter, AutoSubmit, PressConnect, Submit, Cancel
<1>4. ASSUME NEW i \in Sockets, Socket(i) PROVE CameraCanStart'
  <2>1. CASE TakeJoined(i)
    BY <2>1, StopItOnlyAdds, <1>a DEF TakeJoined, HandOff
  <2>2. CASE GiveUp(i) \/ CloseLate(i) \/ Opens(i) \/ Ends(i) \/ TakeError(i)
    BY <2>2, <1>a DEF GiveUp, CloseLate, Opens, Ends, TakeError
  <2> QED
    BY <1>4, <2>1, <2>2 DEF Socket
<1>5. ASSUME NEW i \in Sockets, HubSocket(i) PROVE CameraCanStart'
  BY <1>5, <1>a DEF HubSocket, Drop, JoinCode
<1>6. CASE OtherSubmits \/ Hub
  BY <1>6, <1>a DEF OtherSubmits, Hub, MainJoins, MainLeaves, Confirm, Reject
<1>7. CASE PC
  BY <1>7, <1>a DEF PC, Answer, pcRest
<1>8. CASE UNCHANGED vars
  BY <1>8, <1>a DEF vars
<1> QED
  BY <1>1, <1>2, <1>3, <1>4, <1>5, <1>6, <1>7, <1>8 DEF Next, Step

\* startScanner of QRScanner.tsx never returns early for a camera that does not run,
\* unless access was denied before.
THEOREM SpecCameraCanStart == Spec => []CameraCanStart
<1>1. Init => CameraCanStart
  BY DEF Init, CameraCanStart
<1> QED
  BY <1>1, CameraNext, PTL DEF Spec
-----------------------------------------------------------------------------
(* A user who has turned away *)

\* None of the defects that make ManualConnect lose sight of a socket has shown.
Sound == Spared({"double", "wiped", "late"})

TurnTypes ==
    /\ opened \in Nat
    /\ state \in [Sockets -> {"unused", "connecting", "open", "closing", "gone"}]
    /\ inbox \in [Sockets -> Seq({"joined", "error"})]
    /\ cams \in [Cameras -> {"unused", "starting", "running", "stopping", "off"}]
    /\ wsRef \in 0 .. opened
    /\ mine \subseteq 1 .. opened /\ closers \subseteq 1 .. opened

\* The socket that ManualConnect holds is its own and wanted, and ManualConnect is on
\* the screen; a socket that is handed over is no longer its own.
ManualInv ==
    Sound => /\ wsRef # None => ui = "manual" /\ wants /\ wsRef \in mine
             /\ mine \cap closers = {}
             /\ \A k \in DOMAIN autos : autos[k] => ui = "manual"

\* A camera that runs is the page's, and wanted.
CameraInv ==
    Sound /\ Spared({"early"}) =>
        \A i \in Cameras : cams[i] \in {"starting", "running"}
                           => ui = "camera" /\ scanning /\ ref = i /\ wants

JoinedIn(i) == {k \in DOMAIN inbox[i] : inbox[i][k] = "joined"}

\* A code admits once: there is at most one joined in all, and none comes after it to a
\* socket that was handed over.
JoinedInv ==
    /\ valid => closers = {} /\ \A i \in Sockets : JoinedIn(i) = {}
    /\ \A i \in Sockets : \A j, k \in JoinedIn(i) : j = k
    /\ Sound => \A i \in Sockets : i \in closers => JoinedIn(i) = {}

TurnInv ==
    /\ TurnTypes /\ ManualInv /\ CameraInv /\ JoinedInv
    /\ SocketsAreHeld /\ TurnedAwayStaysAway

LEMMA TurnInit == Init => TurnInv
<1> SUFFICES ASSUME Init PROVE TurnInv
  OBVIOUS
<1>1. TurnTypes
  <2>1. \A i \in Sockets : inbox[i] = <<>> /\ inbox[i] \in Seq({"joined", "error"})
    BY DEF Init
  <2> QED
    BY <2>1 DEF Init, TurnTypes, None
<1>2. ManualInv /\ CameraInv
  BY DEF Init, ManualInv, CameraInv
<1>3. JoinedInv
  BY DEF Init, JoinedInv, JoinedIn
<1>4. SocketsAreHeld /\ TurnedAwayStaysAway
  BY DEF Init, SocketsAreHeld, TurnedAwayStaysAway, Live
<1> QED
  BY <1>1, <1>2, <1>3, <1>4 DEF TurnInv

LEMMA MishapsGrow == ASSUME [Next]_vars PROVE mishaps \subseteq mishaps'
<1> USE DEF cameraVars, manualVars, socketVars, hubVars, pcVars, userVars, phoneVars,
            socketRest, hubRest
<1>1. CASE Open \/ StopCamera \/ Leave \/ Toggle
  BY <1>1, StopItOnlyAdds DEF Open, StopCamera, Leave, Toggle
<1>2. ASSUME NEW i \in Cameras, Camera(i) PROVE mishaps \subseteq mishaps'
  BY <1>2 DEF Camera, StartCamera, CameraStarts, CameraFails, CameraStops, Decode
<1>3. CASE Manual
  BY <1>3 DEF Manual, Enter, AutoSubmit, PressConnect, Submit, Cancel
<1>4. ASSUME NEW i \in Sockets, Socket(i) PROVE mishaps \subseteq mishaps'
  BY <1>4, StopItOnlyAdds
     DEF Socket, TakeJoined, GiveUp, CloseLate, Opens, Ends, TakeError
<1>5. ASSUME NEW i \in Sockets, HubSocket(i) PROVE mishaps \subseteq mishaps'
  BY <1>5 DEF HubSocket, Drop, JoinCode
<1>6. CASE OtherSubmits \/ Hub
  BY <1>6 DEF OtherSubmits, Hub, MainJoins, MainLeaves, Confirm, Reject
<1>7. CASE PC
  BY <1>7 DEF PC, Answer, pcRest
<1>8. CASE UNCHANGED vars
  BY <1>8 DEF vars
<1> QED
  BY <1>1, <1>2, <1>3, <1>4, <1>5, <1>6, <1>7, <1>8 DEF Next, Step

\* What was spared after a step was spared before it.
LEMMA SparedBefore ==
    ASSUME [Next]_vars, NEW X, Spared(X)'
    PROVE  Spared(X)
BY MishapsGrow DEF Spared

LEMMA TurnTypesNext == ASSUME TurnTypes, [Next]_vars PROVE TurnTypes'
<1> USE DEF cameraVars, manualVars, socketVars, hubVars, pcVars, userVars, phoneVars,
            socketRest, hubRest
<1> DEFINE States == {"unused", "connecting", "open", "closing", "gone"}
           Cams == {"unused", "starting", "running", "stopping", "off"}
           Inboxes == [Sockets -> Seq({"joined", "error"})]
<1>1. state' \in [Sockets -> States]
  <2>1. ASSUME NEW S, Close(S) PROVE state' \in [Sockets -> States]
    BY <2>1 DEF Close, TurnTypes
  <2>2. CASE Open \/ StopCamera
    BY <2>2 DEF Open, StopCamera, TurnTypes
  <2>3. CASE Leave \/ Toggle
    BY <2>3, <2>1 DEF Leave, Toggle, Unmount, TurnTypes
  <2>4. ASSUME NEW i \in Cameras, Camera(i) PROVE state' \in [Sockets -> States]
    BY <2>4, <2>1 DEF Camera, StartCamera, CameraStarts, CameraFails, CameraStops, Decode,
                     HandOff, Unmount, TurnTypes
  <2>5. CASE Manual
    BY <2>5, <2>1 DEF Manual, Enter, AutoSubmit, PressConnect, Submit, Cancel, TurnTypes
  <2>6. ASSUME NEW i \in Sockets, Socket(i) PROVE state' \in [Sockets -> States]
    BY <2>6, <2>1 DEF Socket, TakeJoined, GiveUp, CloseLate, Opens, Ends, TakeError, HandOff,
                     Unmount, TurnTypes
  <2>7. ASSUME NEW i \in Sockets, HubSocket(i) PROVE state' \in [Sockets -> States]
    BY <2>7 DEF HubSocket, Drop, JoinCode, TurnTypes
  <2>8. CASE OtherSubmits \/ Hub
    BY <2>8 DEF OtherSubmits, Hub, MainJoins, MainLeaves, Confirm, Reject, TurnTypes
  <2>9. CASE PC \/ UNCHANGED vars
    BY <2>9 DEF PC, Answer, pcRest, vars, TurnTypes
  <2> QED
    BY <2>2, <2>3, <2>4, <2>5, <2>6, <2>7, <2>8, <2>9 DEF Next, Step
<1>2. inbox' \in Inboxes
  <2>1. ASSUME NEW i \in Sockets, NEW s \in Seq({"joined", "error"}),
               inbox' = [inbox EXCEPT ![i] = s]
        PROVE  inbox' \in Inboxes
    BY <2>1 DEF TurnTypes
  <2>2. ASSUME NEW i, NEW c \in {"joined", "error"}, inbox' = Tell(i, c)
        PROVE  inbox' \in Inboxes
    <3>1. CASE i \in Sockets \ others
      <4>1. inbox[i] \in Seq({"joined", "error"})
        BY <3>1 DEF TurnTypes
      <4>2. Append(inbox[i], c) \in Seq({"joined", "error"})
        BY <4>1
      <4> QED
        BY <2>2, <3>1, <4>2, <2>1 DEF Tell
    <3>2. CASE i \notin Sockets \ others
      BY <2>2, <3>2 DEF Tell, TurnTypes
    <3> QED
      BY <3>1, <3>2
  <2>3. CASE Open \/ StopCamera \/ Leave \/ Toggle
    BY <2>3 DEF Open, StopCamera, Leave, Toggle, TurnTypes
  <2>4. ASSUME NEW i \in Cameras, Camera(i) PROVE inbox' \in Inboxes
    BY <2>4 DEF Camera, StartCamera, CameraStarts, CameraFails, CameraStops, Decode,
               TurnTypes
  <2>5. CASE Manual
    BY <2>5 DEF Manual, Enter, AutoSubmit, PressConnect, Submit, Cancel, TurnTypes
  <2>6. ASSUME NEW i \in Sockets, Socket(i) PROVE inbox' \in Inboxes
    <3>1. CASE GiveUp(i) \/ CloseLate(i) \/ Opens(i)
      BY <3>1 DEF GiveUp, CloseLate, Opens, TurnTypes
    <3>2. CASE Ends(i)
      <4>1. inbox' = [inbox EXCEPT ![i] = <<>>]
        BY <3>2 DEF Ends
      <4>2. <<>> \in Seq({"joined", "error"})
        OBVIOUS
      <4> QED
        BY <4>1, <4>2, <2>1
    <3>3. CASE TakeJoined(i) \/ TakeError(i)
      <4>1. inbox[i] # <<>> /\ inbox' = [inbox EXCEPT ![i] = Tail(@)]
        BY <3>3 DEF TakeJoined, TakeError, Arrives
      <4>2. inbox[i] \in Seq({"joined", "error"})
        BY DEF TurnTypes
      <4>3. Tail(inbox[i]) \in Seq({"joined", "error"})
        BY <4>1, <4>2
      <4> QED
        BY <4>1, <4>3, <2>1
    <3> QED
      BY <2>6, <3>1, <3>2, <3>3 DEF Socket
  <2>7. ASSUME NEW i \in Sockets, HubSocket(i) PROVE inbox' \in Inboxes
    BY <2>7, <2>2 DEF HubSocket, Drop, JoinCode, TurnTypes
  <2>8. CASE OtherSubmits \/ Hub
    BY <2>8, <2>2 DEF OtherSubmits, Hub, MainJoins, MainLeaves, Confirm, Reject, TurnTypes
  <2>9. CASE PC \/ UNCHANGED vars
    BY <2>9 DEF PC, Answer, pcRest, vars, TurnTypes
  <2> QED
    BY <2>3, <2>4, <2>5, <2>6, <2>7, <2>8, <2>9 DEF Next, Step
<1>3. cams' \in [Cameras -> Cams]
  <2>1. CASE UNCHANGED cams
    BY <2>1 DEF TurnTypes
  <2>2. ASSUME StopIt PROVE cams' \in [Cameras -> Cams]
    BY <2>2 DEF StopIt, TurnTypes
  <2>3. CASE Open \/ StopCamera \/ Leave \/ Toggle
    BY <2>3, <2>1, <2>2 DEF Open, StopCamera, Leave, Toggle
  <2>4. ASSUME NEW i \in Cameras, Camera(i) PROVE cams' \in [Cameras -> Cams]
    BY <2>4 DEF Camera, StartCamera, CameraStarts, CameraFails, CameraStops, Decode,
                TurnTypes
  <2>5. CASE Manual
    BY <2>5, <2>1 DEF Manual, Enter, AutoSubmit, PressConnect, Submit, Cancel
  <2>6. ASSUME NEW i \in Sockets, Socket(i) PROVE cams' \in [Cameras -> Cams]
    BY <2>6, <2>1, <2>2 DEF Socket, TakeJoined, GiveUp, CloseLate, Opens, Ends, TakeError
  <2>7. ASSUME NEW i \in Sockets, HubSocket(i) PROVE cams' \in [Cameras -> Cams]
    BY <2>7, <2>1 DEF HubSocket, Drop, JoinCode
  <2>8. CASE OtherSubmits \/ Hub
    BY <2>8, <2>1 DEF OtherSubmits, Hub, MainJoins, MainLeaves, Confirm, Reject
  <2>9. CASE PC \/ UNCHANGED vars
    BY <2>9, <2>1 DEF PC, Answer, pcRest, vars
  <2> QED
    BY <2>3, <2>4, <2>5, <2>6, <2>7, <2>8, <2>9 DEF Next, Step
<1>4. /\ opened' \in Nat /\ wsRef' \in 0 .. opened'
      /\ mine' \subseteq 1 .. opened' /\ closers' \subseteq 1 .. opened'
  <2> DEFINE P == /\ opened' \in Nat /\ wsRef' \in 0 .. opened'
                  /\ mine' \subseteq 1 .. opened' /\ closers' \subseteq 1 .. opened'
  <2>1. ASSUME opened' = opened, wsRef' \in {wsRef, None}, mine' \in {mine, {}},
               closers' \subseteq closers \cup ({wsRef} \ {None})
        PROVE  P
    BY <2>1 DEF TurnTypes, None
  <2>2. CASE Open \/ StopCamera \/ Leave \/ Toggle
    BY <2>2, <2>1 DEF Open, StopCamera, Leave, Toggle, Unmount
  <2>3. ASSUME NEW i \in Cameras, Camera(i) PROVE P
    BY <2>3, <2>1 DEF Camera, StartCamera, CameraStarts, CameraFails, CameraStops, Decode,
                      HandOff, Unmount
  <2>4. CASE Manual
    <3>1. CASE Enter \/ Cancel
      BY <3>1, <2>1 DEF Enter, Cancel
    <3>2. CASE AutoSubmit \/ PressConnect
      <4>1. /\ opened' = opened + 1 /\ closers' = closers
            /\ wsRef' \in {wsRef, opened + 1} /\ mine' \subseteq mine \cup {opened + 1}
        BY <3>2 DEF AutoSubmit, PressConnect, Submit
      <4> QED
        BY <4>1 DEF TurnTypes
    <3> QED
      BY <2>4, <3>1, <3>2 DEF Manual
  <2>5. ASSUME NEW i \in Sockets, Socket(i) PROVE P
    BY <2>5, <2>1 DEF Socket, TakeJoined, GiveUp, CloseLate, Opens, Ends, TakeError, HandOff,
                      Unmount
  <2>6. ASSUME NEW i \in Sockets, HubSocket(i) PROVE P
    BY <2>6, <2>1 DEF HubSocket, Drop, JoinCode
  <2>7. CASE OtherSubmits
    BY <2>7 DEF OtherSubmits, TurnTypes
  <2>8. CASE Hub
    BY <2>8, <2>1 DEF Hub, MainJoins, MainLeaves, Confirm, Reject
  <2>9. CASE PC \/ UNCHANGED vars
    BY <2>9, <2>1 DEF PC, Answer, pcRest, vars
  <2> QED
    BY <2>2, <2>3, <2>4, <2>5, <2>6, <2>7, <2>8, <2>9 DEF Next, Step
<1> QED
  BY <1>1, <1>2, <1>3, <1>4 DEF TurnTypes

LEMMA HeldNext ==
    ASSUME TurnTypes, ManualInv, JoinedInv, SocketsAreHeld, [Next]_vars
    PROVE  SocketsAreHeld'
<1> SUFFICES ASSUME Sound', NEW j \in Sockets \ others', Live(j)'
             PROVE  j = wsRef' \/ j \in closers'
  BY DEF SocketsAreHeld, Sound
<1> USE DEF cameraVars, manualVars, socketVars, hubVars, pcVars, userVars, phoneVars,
            socketRest, hubRest
<1>1. Sound
  BY SparedBefore DEF Sound
<1>2. ASSUME j \notin others, Live(j) PROVE j = wsRef \/ j \in closers
  BY <1>1, <1>2 DEF SocketsAreHeld, Sound
<1>3. ASSUME NEW S, Close(S) PROVE Live(j) /\ j \notin S
  <2>1. state'[j] = IF j \in S /\ Live(j) THEN "closing" ELSE state[j]
    BY <1>3 DEF Close
  <2>2. j # None /\ state'[j] \in {"connecting", "open"}
    BY DEF Live
  <2> QED
    BY <2>1, <2>2 DEF Live
<1>a. ASSUME UNCHANGED <<state, others, wsRef, closers>>
      PROVE  j = wsRef' \/ j \in closers'
  BY <1>a, <1>2 DEF Live
<1>b. ASSUME NEW over, Unmount(over), UNCHANGED others
      PROVE  j = wsRef' \/ j \in closers'
  <2>1. CASE over
    <3>1. Live(j)
      BY <1>b, <2>1 DEF Unmount, Live
    <3> QED
      BY <1>b, <1>2, <2>1, <3>1 DEF Unmount, Live
  <2>2. CASE ~over
    BY <1>b, <1>2, <1>3, <2>2 DEF Unmount
  <2> QED
    BY <2>1, <2>2
<1>c. ASSUME NEW own, NEW wanted, Submit(own, wanted)
      PROVE  j = wsRef' \/ j \in closers'
  <2> DEFINE i == opened + 1
  <2>1. own /\ ~Live(wsRef)
    BY <1>c DEF Submit, Sound, Spared
  <2>2. /\ state' = [state EXCEPT ![i] = "connecting"] /\ UNCHANGED <<others, closers>>
        /\ wsRef' = i
    BY <1>c, <2>1 DEF Submit
  <2>3. CASE j # i
    <3>1. state'[j] = state[j]
      BY <2>2, <2>3 DEF TurnTypes
    <3> QED
      BY <1>2, <2>1, <2>2, <3>1 DEF Live
  <2> QED
    BY <2>2, <2>3
<1>4. CASE Open \/ StopCamera
  BY <1>4, <1>a DEF Open, StopCamera
<1>5. CASE Leave \/ Toggle
  BY <1>5, <1>b DEF Leave, Toggle
<1>6. ASSUME NEW i \in Cameras, Camera(i) PROVE j = wsRef' \/ j \in closers'
  <2>1. CASE Decode(i)
    BY <2>1, <1>b DEF Decode, HandOff
  <2>2. CASE StartCamera(i) \/ CameraStarts(i) \/ CameraFails(i) \/ CameraStops(i)
    BY <2>2, <1>a DEF StartCamera, CameraStarts, CameraFails, CameraStops
  <2> QED
    BY <1>6, <2>1, <2>2 DEF Camera
<1>7. CASE Manual
  <2>1. CASE AutoSubmit \/ PressConnect
    BY <2>1, <1>c DEF AutoSubmit, PressConnect
  <2>2. CASE Enter
    BY <2>2, <1>a DEF Enter
  <2>3. CASE Cancel
    BY <2>3, <1>2, <1>3 DEF Cancel
  <2> QED
    BY <1>7, <2>1, <2>2, <2>3 DEF Manual
<1>8. ASSUME NEW i \in Sockets, Socket(i) PROVE j = wsRef' \/ j \in closers'
  <2>1. CASE GiveUp(i) \/ TakeError(i)
    BY <2>1, <1>2, <1>3 DEF GiveUp, TakeError
  <2>2. CASE CloseLate(i)
    BY <2>2, <1>2, <1>3 DEF CloseLate
  <2>3. CASE Opens(i)
    <3>1. Live(j)
      BY <2>3 DEF Opens, Live, TurnTypes
    <3> QED
      BY <2>3, <1>2, <3>1 DEF Opens
  <2>4. CASE Ends(i)
    <3>1. Live(j) /\ j # i
      BY <2>4 DEF Ends, Live, TurnTypes
    <3>2. i \in mine => wsRef \in {None, i}
      BY <2>4 DEF Ends, Sound, Spared
    <3> QED
      BY <2>4, <1>2, <3>1, <3>2 DEF Ends, Live
  <2>5. CASE TakeJoined(i)
    BY <2>5, <1>b DEF TakeJoined, HandOff
  <2> QED
    BY <1>8, <2>1, <2>2, <2>3, <2>4, <2>5 DEF Socket
<1>9. ASSUME NEW i \in Sockets, HubSocket(i) PROVE j = wsRef' \/ j \in closers'
  BY <1>9, <1>a DEF HubSocket, Drop, JoinCode
<1>10. CASE OtherSubmits
  <2>1. j # opened + 1 /\ j \notin others /\ UNCHANGED <<wsRef, closers>>
    BY <1>10 DEF OtherSubmits
  <2>2. state'[j] = state[j]
    BY <1>10, <2>1 DEF OtherSubmits, TurnTypes
  <2> QED
    BY <1>2, <2>1, <2>2 DEF Live
<1>11. CASE Hub
  BY <1>11, <1>a DEF Hub, MainJoins, MainLeaves, Confirm, Reject
<1>12. CASE PC \/ UNCHANGED vars
  BY <1>12, <1>a DEF PC, Answer, pcRest, vars
<1> QED
  BY <1>4, <1>5, <1>6, <1>7, <1>8, <1>9, <1>10, <1>11, <1>12 DEF Next, Step

LEMMA ManualNext ==
    ASSUME TurnTypes, ManualInv, JoinedInv, SocketsAreHeld, [Next]_vars
    PROVE  ManualInv'
<1> SUFFICES ASSUME Sound'
             PROVE  /\ wsRef' # None => ui' = "manual" /\ wants' /\ wsRef' \in mine'
                    /\ mine' \cap closers' = {}
                    /\ \A k \in DOMAIN autos' : autos'[k] => ui' = "manual"
  BY DEF ManualInv
<1> USE DEF cameraVars, manualVars, socketVars, hubVars, pcVars, userVars, phoneVars,
            socketRest, hubRest
<1> DEFINE P == /\ wsRef' # None => ui' = "manual" /\ wants' /\ wsRef' \in mine'
                /\ mine' \cap closers' = {}
                /\ \A k \in DOMAIN autos' : autos'[k] => ui' = "manual"
<1>1. Sound
  BY SparedBefore DEF Sound
<1>2. /\ wsRef # None => ui = "manual" /\ wants /\ wsRef \in mine
      /\ mine \cap closers = {}
      /\ \A k \in DOMAIN autos : autos[k] => ui = "manual"
  BY <1>1 DEF ManualInv
<1>a. ASSUME UNCHANGED <<ui, wants, autos>>, wsRef' \in {wsRef, None},
             mine' = mine, closers' \subseteq closers
      PROVE  P
  BY <1>a, <1>2
<1>b. ASSUME NEW over, Unmount(over)
      PROVE  P
  BY <1>b DEF Unmount
<1>c. ASSUME NEW own, NEW wanted, Submit(own, wanted), own => ui = "manual",
             autos' = autos \/ (autos # <<>> /\ autos' = Tail(autos)),
             wanted => wants'
      PROVE  P
  <2>1. own /\ wanted
    BY <1>c DEF Submit, Sound, Spared
  <2>2. wsRef' = opened + 1 /\ mine' = mine \cup {opened + 1} /\ UNCHANGED <<ui, closers>>
    BY <1>c, <2>1 DEF Submit
  <2>3. opened + 1 \notin closers
    BY DEF TurnTypes
  <2> QED
    BY <1>c, <1>2, <2>1, <2>2, <2>3
<1>3. CASE Open
  BY <1>3, <1>2 DEF Open
<1>4. CASE StopCamera
  BY <1>4, <1>2 DEF StopCamera
<1>5. CASE Leave \/ Toggle
  BY <1>5, <1>b DEF Leave, Toggle
<1>6. ASSUME NEW i \in Cameras, Camera(i) PROVE P
  <2>1. CASE StartCamera(i)
    BY <2>1, <1>2 DEF StartCamera
  <2>2. CASE Decode(i)
    BY <2>2, <1>b DEF Decode, HandOff
  <2>3. CASE CameraStarts(i) \/ CameraFails(i) \/ CameraStops(i)
    BY <2>3, <1>a DEF CameraStarts, CameraFails, CameraStops
  <2> QED
    BY <1>6, <2>1, <2>2, <2>3 DEF Camera
<1>7. CASE Enter
  BY <1>7, <1>2 DEF Enter
<1>8. CASE AutoSubmit
  BY <1>8, <1>2, <1>c DEF AutoSubmit
<1>9. CASE PressConnect
  BY <1>9, <1>c DEF PressConnect
<1>10. CASE Cancel
  BY <1>10, <1>2 DEF Cancel
<1>11. ASSUME NEW i \in Sockets, Socket(i) PROVE P
  <2>1. CASE TakeJoined(i)
    BY <2>1, <1>b DEF TakeJoined, HandOff
  <2>2. CASE GiveUp(i) \/ CloseLate(i) \/ Opens(i) \/ Ends(i) \/ TakeError(i)
    BY <2>2, <1>a DEF GiveUp, CloseLate, Opens, Ends, TakeError
  <2> QED
    BY <1>11, <2>1, <2>2 DEF Socket
<1>12. ASSUME NEW i \in Sockets, HubSocket(i) PROVE P
  BY <1>12, <1>a DEF HubSocket, Drop, JoinCode
<1>13. CASE OtherSubmits \/ Hub
  BY <1>13, <1>a DEF OtherSubmits, Hub, MainJoins, MainLeaves, Confirm, Reject
<1>14. CASE PC \/ UNCHANGED vars
  BY <1>14, <1>a DEF PC, Answer, pcRest, vars
<1> QED
  BY <1>3, <1>4, <1>5, <1>6, <1>7, <1>8, <1>9, <1>10, <1>11, <1>12, <1>13, <1>14
     DEF Next, Step, Manual

LEMMA NoneIsNoCamera == None \notin Cameras
BY DEF None, Cameras

LEMMA CameraInvNext ==
    ASSUME TurnTypes, ManualInv, CameraInv, JoinedInv, SocketsAreHeld, [Next]_vars
    PROVE  CameraInv'
<1> DEFINE Active(j) == cams[j] \in {"starting", "running"}
<1> SUFFICES ASSUME Sound', Spared({"early"})', NEW j \in Cameras, Active(j)'
             PROVE  ui' = "camera" /\ scanning' /\ ref' = j /\ wants'
  BY DEF CameraInv
<1> USE DEF cameraVars, manualVars, socketVars, hubVars, pcVars, userVars, phoneVars,
            socketRest, hubRest
<1> DEFINE P == ui' = "camera" /\ scanning' /\ ref' = j /\ wants'
<1>1. Sound /\ Spared({"early"})
  BY SparedBefore DEF Sound
<1>2. ASSUME NEW k \in Cameras, Active(k)
      PROVE  ui = "camera" /\ scanning /\ ref = k /\ wants
  BY <1>1, <1>2 DEF CameraInv
<1>a. ASSUME UNCHANGED <<ui, cams, ref, scanning, wants>> PROVE P
  BY <1>a, <1>2
\* When the page lets go of its camera, none runs.
<1>b. ASSUME StopIt PROVE FALSE
  <2>1. CASE ref = None
    BY <1>2, <1>b, <2>1, NoneIsNoCamera DEF StopIt
  <2>2. CASE ref # None /\ cams[ref] = "running"
    <3>1. cams' = [cams EXCEPT ![ref] = "stopping"]
      BY <1>b, <2>2 DEF StopIt
    <3>2. j # ref /\ Active(j)
      BY <3>1 DEF TurnTypes
    <3> QED
      BY <1>2, <3>2
  <2>3. CASE ref # None /\ cams[ref] # "running"
    <3>1. cams' = cams /\ cams[ref] # "starting"
      BY <1>b, <2>3 DEF StopIt, Spared
    <3> QED
      BY <1>2, <2>3, <3>1
  <2> QED
    BY <2>1, <2>2, <2>3
<1>3. CASE Open
  BY <1>3, <1>2 DEF Open
<1>4. CASE StopCamera \/ Leave
  BY <1>4, <1>b DEF StopCamera, Leave
<1>5. CASE Toggle
  <2>1. CASE scanning
    BY <1>5, <1>b, <2>1 DEF Toggle
  <2>2. CASE ~scanning
    BY <1>5, <1>2, <2>2 DEF Toggle
  <2> QED
    BY <2>1, <2>2
<1>6. ASSUME NEW i \in Cameras, Camera(i) PROVE P
  <2>1. CASE StartCamera(i)
    <3>1. j = i
      BY <2>1, <1>2, NoneIsNoCamera DEF StartCamera
    <3> QED
      BY <2>1, <3>1 DEF StartCamera
  <2>2. CASE CameraStarts(i)
    <3>1. Active(j)
      BY <2>2 DEF CameraStarts, TurnTypes
    <3> QED
      BY <2>2, <1>2, <3>1 DEF CameraStarts
  <2>3. CASE CameraFails(i) \/ CameraStops(i) \/ Decode(i)
    <3>1. Active(j) /\ i # j
      BY <2>3 DEF CameraFails, CameraStops, Decode, TurnTypes
    <3>2. ref # i /\ ~Decode(i)
      BY <1>2, <3>1 DEF Decode
    <3> QED
      BY <1>2, <2>3, <3>1, <3>2 DEF CameraFails, CameraStops
  <2> QED
    BY <1>6, <2>1, <2>2, <2>3 DEF Camera
<1>7. CASE AutoSubmit
  BY <1>7, <1>a DEF AutoSubmit, Submit
\* No camera runs beside the form.
<1>8. CASE Enter \/ PressConnect \/ Cancel
  <2>1. ui = "manual" /\ UNCHANGED cams
    BY <1>8 DEF Enter, PressConnect, Submit, Cancel
  <2> QED
    BY <1>2, <2>1
<1>9. ASSUME NEW i \in Sockets, Socket(i) PROVE P
  <2>1. CASE TakeJoined(i)
    BY <2>1, <1>b DEF TakeJoined
  <2>2. CASE GiveUp(i) \/ CloseLate(i) \/ Opens(i) \/ Ends(i) \/ TakeError(i)
    BY <2>2, <1>a DEF GiveUp, CloseLate, Opens, Ends, TakeError
  <2> QED
    BY <1>9, <2>1, <2>2 DEF Socket
<1>10. ASSUME NEW i \in Sockets, HubSocket(i) PROVE P
  BY <1>10, <1>a DEF HubSocket, Drop, JoinCode
<1>11. CASE OtherSubmits \/ Hub
  BY <1>11, <1>a DEF OtherSubmits, Hub, MainJoins, MainLeaves, Confirm, Reject
<1>12. CASE PC \/ UNCHANGED vars
  BY <1>12, <1>a DEF PC, Answer, pcRest, vars
<1> QED
  BY <1>3, <1>4, <1>5, <1>6, <1>7, <1>8, <1>9, <1>10, <1>11, <1>12 DEF Next, Step, Manual

\* The socket on which joined arrives is the one that the page holds, and it is wanted.
LEMMA JoinedIsWanted ==
    ASSUME TurnTypes, ManualInv, JoinedInv, SocketsAreHeld, Sound,
           NEW i \in Sockets, Arrives(i, "joined")
    PROVE  /\ i = wsRef /\ i \in mine /\ wants /\ ~valid
           /\ JoinedIn(i)' = {}
<1>1. inbox[i] \in Seq({"joined", "error"}) /\ inbox[i] # <<>>
  BY DEF Arrives, TurnTypes
<1>2. 1 \in JoinedIn(i)
  BY <1>1 DEF Arrives, JoinedIn
<1>3. i \notin closers /\ ~valid
  BY <1>2 DEF JoinedInv
<1>4. i = wsRef
  <2>1. Live(i) /\ i \notin others
    BY NoneIsNoSocket DEF Arrives, Live
  <2> QED
    BY <1>3, <2>1 DEF SocketsAreHeld, Sound
<1>5. i \in mine /\ wants
  BY <1>4, NoneIsNoSocket DEF ManualInv
<1>6. JoinedIn(i)' = {}
  <2> SUFFICES ASSUME NEW k \in DOMAIN inbox'[i], inbox'[i][k] = "joined" PROVE FALSE
    BY DEF JoinedIn
  <2>1. inbox'[i] = Tail(inbox[i])
    BY DEF Arrives, TurnTypes
  <2>2. k \in 1 .. Len(inbox[i]) - 1 /\ inbox[i][k + 1] = "joined"
    BY <1>1, <2>1
  <2>3. k + 1 \in JoinedIn(i) /\ k + 1 # 1
    BY <1>1, <2>2 DEF JoinedIn
  <2> QED
    BY <1>2, <2>3 DEF JoinedInv
<1> QED
  BY <1>3, <1>4, <1>5, <1>6


\* What is taken from the inbox leaves the rest, one place further on.
LEMMA TakenJoined ==
    ASSUME TurnTypes, NEW i \in Sockets, inbox[i] # <<>>,
           inbox' = [inbox EXCEPT ![i] = Tail(@)]
    PROVE  /\ \A k \in JoinedIn(i)' : k \in Nat /\ k + 1 \in JoinedIn(i)
           /\ \A j \in Sockets \ {i} : JoinedIn(j)' = JoinedIn(j)
<1>1. inbox[i] \in Seq({"joined", "error"}) /\ inbox'[i] = Tail(inbox[i])
  BY DEF TurnTypes
<1>2. ASSUME NEW k \in JoinedIn(i)' PROVE k \in Nat /\ k + 1 \in JoinedIn(i)
  <2>1. k \in DOMAIN Tail(inbox[i]) /\ Tail(inbox[i])[k] = "joined"
    BY <1>1, <1>2 DEF JoinedIn
  <2>2. k \in 1 .. Len(inbox[i]) - 1 /\ inbox[i][k + 1] = "joined"
    BY <1>1, <2>1
  <2> QED
    BY <1>1, <2>2 DEF JoinedIn
<1>3. \A j \in Sockets \ {i} : inbox'[j] = inbox[j]
  BY DEF TurnTypes
<1> QED
  BY <1>2, <1>3 DEF JoinedIn

LEMMA ToldJoined ==
    ASSUME TurnTypes, NEW i, NEW c \in {"joined", "error"}, inbox' = Tell(i, c)
    PROVE  \A j \in Sockets :
               \/ JoinedIn(j)' = JoinedIn(j)
               \/ c = "joined" /\ j = i /\ JoinedIn(j)' = JoinedIn(j) \cup {Len(inbox[j]) + 1}
<1> SUFFICES ASSUME NEW j \in Sockets
             PROVE  \/ JoinedIn(j)' = JoinedIn(j)
                    \/ /\ c = "joined" /\ j = i
                       /\ JoinedIn(j)' = JoinedIn(j) \cup {Len(inbox[j]) + 1}
  OBVIOUS
<1>1. CASE inbox'[j] = inbox[j]
  BY <1>1 DEF JoinedIn
<1>2. CASE inbox'[j] # inbox[j]
  <2>1. j = i /\ inbox'[j] = Append(inbox[j], c)
    BY <1>2 DEF Tell, TurnTypes
  <2>2. inbox[j] \in Seq({"joined", "error"})
    BY DEF TurnTypes
  <2>3. /\ DOMAIN inbox'[j] = DOMAIN inbox[j] \cup {Len(inbox[j]) + 1}
        /\ inbox'[j][Len(inbox[j]) + 1] = c
        /\ \A k \in DOMAIN inbox[j] : inbox'[j][k] = inbox[j][k]
    BY <2>1, <2>2
  <2>4. CASE c = "joined"
    BY <2>1, <2>3, <2>4 DEF JoinedIn
  <2>5. CASE c = "error"
    BY <2>1, <2>3, <2>5 DEF JoinedIn
  <2> QED
    BY <2>4, <2>5
<1> QED
  BY <1>1, <1>2

LEMMA JoinedNext ==
    ASSUME TurnTypes, ManualInv, JoinedInv, SocketsAreHeld, [Next]_vars
    PROVE  JoinedInv'
<1> USE DEF cameraVars, manualVars, socketVars, hubVars, pcVars, userVars, phoneVars,
            socketRest, hubRest
<1>1. ASSUME Sound' PROVE Sound
  BY <1>1, SparedBefore DEF Sound
<1>a. ASSUME UNCHANGED valid, closers' \subseteq closers,
             \A j \in Sockets : JoinedIn(j)' = JoinedIn(j) \/ JoinedIn(j)' = {}
      PROVE  JoinedInv'
  BY <1>1, <1>a DEF JoinedInv
<1>b. ASSUME UNCHANGED <<valid, inbox>>, closers' \subseteq closers PROVE JoinedInv'
  BY <1>a, <1>b DEF JoinedIn
<1>2. CASE Open \/ StopCamera \/ Leave \/ Toggle
  BY <1>2, <1>b DEF Open, StopCamera, Leave, Toggle, Unmount
<1>3. ASSUME NEW i \in Cameras, Camera(i) PROVE JoinedInv'
  BY <1>3, <1>b DEF Camera, StartCamera, CameraStarts, CameraFails, CameraStops, Decode,
                    HandOff, Unmount
<1>4. CASE Manual
  BY <1>4, <1>b DEF Manual, Enter, AutoSubmit, PressConnect, Submit, Cancel
<1>5. ASSUME NEW i \in Sockets, Socket(i) PROVE JoinedInv'
  <2>1. CASE GiveUp(i) \/ CloseLate(i) \/ Opens(i)
    BY <2>1, <1>b DEF GiveUp, CloseLate, Opens
  <2>2. CASE Ends(i)
    <3>1. inbox' = [inbox EXCEPT ![i] = <<>>] /\ UNCHANGED <<valid, closers>>
      BY <2>2 DEF Ends
    <3>2. \A j \in Sockets : inbox'[j] = inbox[j] \/ inbox'[j] = <<>>
      BY <3>1 DEF TurnTypes
    <3> QED
      BY <1>a, <3>1, <3>2 DEF JoinedIn
  <2>3. CASE TakeError(i) \/ TakeJoined(i)
    <3>1. inbox[i] # <<>> /\ inbox' = [inbox EXCEPT ![i] = Tail(@)] /\ UNCHANGED valid
      BY <2>3 DEF TakeError, TakeJoined, Arrives
    <3>2. /\ \A k \in JoinedIn(i)' : k \in Nat /\ k + 1 \in JoinedIn(i)
          /\ \A j \in Sockets \ {i} : JoinedIn(j)' = JoinedIn(j)
      BY <3>1, TakenJoined
    <3>3. \A j \in Sockets : \A k, l \in JoinedIn(j)' : k = l
      BY <3>2 DEF JoinedInv
    <3>4. ASSUME valid' PROVE closers' = {} /\ \A j \in Sockets : JoinedIn(j)' = {}
      <4>1. valid /\ \A j \in Sockets : JoinedIn(j) = {}
        BY <3>1, <3>4 DEF JoinedInv
      <4>2. ~TakeJoined(i)
        <5>1. inbox[i] \in Seq({"joined", "error"})
          BY DEF TurnTypes
        <5>2. Head(inbox[i]) # "joined"
          BY <3>1, <4>1, <5>1 DEF JoinedIn
        <5> QED
          BY <5>2 DEF TakeJoined, Arrives
      <4> QED
        BY <2>3, <3>2, <4>1, <4>2 DEF TakeError, JoinedInv
    <3>5. ASSUME Sound', NEW j \in Sockets, j \in closers' PROVE JoinedIn(j)' = {}
      <4>1. CASE TakeJoined(i)
        <5>1. i = wsRef /\ i \in mine /\ JoinedIn(i)' = {}
          BY <1>1, <3>5, <4>1, JoinedIsWanted DEF TakeJoined
        <5>2. j \in closers \cup {wsRef}
          BY <3>5, <4>1 DEF TakeJoined, HandOff, Unmount
        <5> QED
          BY <1>1, <3>2, <3>5, <5>1, <5>2 DEF JoinedInv
      <4>2. CASE TakeError(i)
        <5>1. j \in closers /\ JoinedIn(j) = {}
          BY <1>1, <3>5, <4>2 DEF TakeError, JoinedInv
        <5> QED
          BY <3>2, <5>1
      <4> QED
        BY <2>3, <4>1, <4>2
    <3> QED
      BY <3>3, <3>4, <3>5 DEF JoinedInv
  <2> QED
    BY <1>5, <2>1, <2>2, <2>3 DEF Socket
<1>6. ASSUME NEW i \in Sockets, HubSocket(i) PROVE JoinedInv'
  <2>1. UNCHANGED <<valid, closers>> /\ (inbox' = inbox \/ inbox' = Tell(i, "error"))
    BY <1>6 DEF HubSocket, Drop, JoinCode
  <2>2. CASE inbox' = inbox
    BY <2>1, <2>2, <1>b
  <2>3. CASE inbox' = Tell(i, "error")
    BY <2>1, <2>3, <1>a, ToldJoined
  <2> QED
    BY <2>1, <2>2, <2>3
<1>7. CASE OtherSubmits \/ MainJoins \/ MainLeaves
  BY <1>7, <1>b DEF OtherSubmits, MainJoins, MainLeaves
<1>8. CASE Reject
  <2>1. UNCHANGED <<valid, closers>> /\ (inbox' = inbox \/ inbox' = Tell(pending, "error"))
    BY <1>8 DEF Reject
  <2>2. CASE inbox' = inbox
    BY <2>1, <2>2, <1>b
  <2>3. CASE inbox' = Tell(pending, "error")
    BY <2>1, <2>3, <1>a, ToldJoined
  <2> QED
    BY <2>1, <2>2, <2>3
\* The only joined: the code is used up.
<1>9. CASE Confirm
  <2>1. CASE valid /\ pending # None
    <3>1. /\ inbox' = Tell(pending, "joined") /\ ~valid' /\ closers' = closers
      BY <1>9, <2>1 DEF Confirm
    <3>2. closers = {} /\ \A j \in Sockets : JoinedIn(j) = {}
      BY <2>1 DEF JoinedInv
    <3>3. \A j \in Sockets : \/ JoinedIn(j)' = {}
                             \/ JoinedIn(j)' = {Len(inbox[j]) + 1}
      BY <3>1, <3>2, ToldJoined
    <3> QED
      BY <3>1, <3>2, <3>3 DEF JoinedInv
  <2>2. CASE ~(valid /\ pending # None)
    BY <1>9, <2>2, <1>b DEF Confirm
  <2> QED
    BY <2>1, <2>2
<1>10. CASE PC \/ UNCHANGED vars
  BY <1>10, <1>b DEF PC, Answer, pcRest, vars
<1> QED
  BY <1>2, <1>3, <1>4, <1>5, <1>6, <1>7, <1>8, <1>9, <1>10 DEF Next, Step, Hub

LEMMA TurnedNext ==
    ASSUME TurnInv, [Next]_vars
    PROVE  TurnedAwayStaysAway'
<1> SUFFICES ASSUME Spared({"double", "wiped", "late", "early"})'
             PROVE  ~surprised'
  BY DEF TurnedAwayStaysAway
<1> USE DEF cameraVars, manualVars, socketVars, hubVars, pcVars, userVars, phoneVars,
            socketRest, hubRest
<1>1. Sound /\ Spared({"early"}) /\ ~surprised
  BY SparedBefore DEF Sound, Spared, TurnInv, TurnedAwayStaysAway
<1>2. ASSUME NEW over, HandOff(over), wants PROVE ~surprised'
  BY <1>1, <1>2 DEF HandOff
<1>3. ASSUME NEW i \in Cameras, Decode(i) PROVE ~surprised'
  <2>1. wants
    BY <1>1, <1>3 DEF Decode, TurnInv, CameraInv
  <2> QED
    BY <1>2, <1>3, <2>1 DEF Decode
<1>4. ASSUME NEW i \in Sockets, TakeJoined(i) PROVE ~surprised'
  <2>1. wants
    BY <1>1, <1>4, JoinedIsWanted DEF TakeJoined, TurnInv
  <2> QED
    BY <1>2, <1>4, <2>1 DEF TakeJoined
<1>5. CASE Open \/ StopCamera \/ Leave \/ Toggle
  BY <1>1, <1>5 DEF Open, StopCamera, Leave, Toggle
<1>6. ASSUME NEW i \in Cameras, Camera(i) PROVE ~surprised'
  BY <1>1, <1>3, <1>6
     DEF Camera, StartCamera, CameraStarts, CameraFails, CameraStops
<1>7. CASE Manual
  BY <1>1, <1>7 DEF Manual, Enter, AutoSubmit, PressConnect, Submit, Cancel
<1>8. ASSUME NEW i \in Sockets, Socket(i) PROVE ~surprised'
  BY <1>1, <1>4, <1>8 DEF Socket, GiveUp, CloseLate, Opens, Ends, TakeError
<1>9. ASSUME NEW i \in Sockets, HubSocket(i) PROVE ~surprised'
  BY <1>1, <1>9 DEF HubSocket, Drop, JoinCode
<1>10. CASE OtherSubmits \/ Hub
  BY <1>1, <1>10 DEF OtherSubmits, Hub, MainJoins, MainLeaves, Confirm, Reject
<1>11. CASE PC \/ UNCHANGED vars
  BY <1>1, <1>11 DEF PC, Answer, pcRest, vars
<1> QED
  BY <1>5, <1>6, <1>7, <1>8, <1>9, <1>10, <1>11 DEF Next, Step

LEMMA TurnNext == TurnInv /\ [Next]_vars => TurnInv'
BY TurnTypesNext, ManualNext, CameraInvNext, JoinedNext, HeldNext, TurnedNext DEF TurnInv

\* A socket on which the phone waits is the one that ManualConnect of QRScanner.tsx can
\* close, or one that its timer of 5 s will close, unless a code was submitted twice or
\* the end of an earlier socket cleared the refs.
THEOREM SpecSocketsAreHeld == Spec => []SocketsAreHeld
<1>1. TurnInv => SocketsAreHeld
  BY DEF TurnInv
<1> QED
  BY <1>1, TurnInit, TurnNext, PTL DEF Spec

\* A user who has cancelled or left the scanner's page is not connected by handleScan of
\* App.tsx later, whatever arrives on the sockets and from the camera, but for the
\* defects that the property names.
THEOREM SpecTurnedAwayStaysAway == Spec => []TurnedAwayStaysAway
<1>1. TurnInv => TurnedAwayStaysAway
  BY DEF TurnInv
<1> QED
  BY <1>1, TurnInit, TurnNext, PTL DEF Spec
=============================================================================
