------------------------------ MODULE Desktop ------------------------------
(***************************************************************************)
(* The PC's socket and its session: a behaviour is one of DesktopSocket or *)
(* one of DesktopSession, and the other stands still.  What they have to   *)
(* do with each other is that connections open and break and that the      *)
(* window hears of it, and the second lets that happen at any time.        *)
(***************************************************************************)
EXTENDS DesktopSession

CONSTANTS
    MaxFails,   \* bound: attempts that fail and connections that break
    MaxClicks   \* bound: clicks of the user

ASSUME DesktopAssumption == MaxFails \in Nat /\ MaxClicks \in Nat

VARIABLES
    part, \* the one that moves
    sock, reader, handled, lock, waiting, loop, sockEvents, sockShown, button, online,
    sockMishaps, fails, clicks

sockVars == <<sock, reader, handled, lock, waiting, loop, sockEvents, sockShown, button,
              online, sockMishaps, fails, clicks>>

Socket == INSTANCE DesktopSocket WITH
    events <- sockEvents, shown <- sockShown, mishaps <- sockMishaps

DesktopInit ==
    /\ part \in {"socket", "session"}
    /\ Init /\ Socket!Init
    /\ part = "session" => sockMishaps = {}

DesktopNext ==
    /\ UNCHANGED part
    /\ \/ part = "session" /\ Next /\ UNCHANGED sockVars
       \/ part = "socket" /\ Socket!Next /\ UNCHANGED vars

\* The session is fair when it moves: the PC was started with a URL and a network, or its
\* user has clicked.
DesktopSpec ==
    /\ DesktopInit /\ [][DesktopNext]_<<part, vars, sockVars>>
    /\ WF_vars(part = "session" /\ Progress)

\* DesktopSocket's and DesktopSession's properties, stated there.
SocketInv == Socket!SocketInv
SessionReturnsWhenItMoves == part = "session" => SessionReturns
=============================================================================
