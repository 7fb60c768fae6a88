-------------------------- MODULE BlePairing_proofs --------------------------
(***************************************************************************)
(* The PC keeps no answer back from a phone that takes notifications and   *)
(* refuses no hello, and a connection that the user has ended stays ended, *)
(* but for the mishaps that the properties name: proved for requests,      *)
(* losses and reconnections of any number.                                 *)
(***************************************************************************)
EXTENDS BlePairing, TLAPS

-----------------------------------------------------------------------------
(* The inductive invariant *)

\* A write that is handled is a notify_ready or, behind the gate, a client_hello.
TaskShape ==
    \A u \in tasks :
        \/ u = Task("notify_ready", u.key, "new")
        \/ u.at \in {"gate", "send", "cache"} /\ u = Task("client_hello", u.key, u.at)

\* An answer is about to be kept only for a phone that takes no notifications yet.
KeptInTime ==
    Spared({"raced"}) => \A u \in tasks : u.at = "cache" => u.key \notin notifyReady

AnswerInv == TaskShape /\ KeptInTime /\ NoAnswerKept

-----------------------------------------------------------------------------
(* The steps *)

LEMMA AnswerInvInit == Init => AnswerInv
BY DEF Init, AnswerInv, TaskShape, KeptInTime, NoAnswerKept

LEMMA TaskFields ==
    ASSUME NEW kind, NEW k, NEW at
    PROVE  /\ Task(kind, k, at).kind = kind /\ Task(kind, k, at).key = k
           /\ Task(kind, k, at).at = at
BY DEF Task

\* What is handled further is the same client_hello.
LEMMA HandledTask ==
    ASSUME NEW k, NEW a, NEW b
    PROVE  [Task("client_hello", k, a) EXCEPT !.at = b] = Task("client_hello", k, b)
BY DEF Task

\* A step that leaves the PC alone, and takes back no mishap, keeps the invariant.
LEMMA PhoneStep ==
    ASSUME AnswerInv, UNCHANGED <<notifyReady, pending, tasks>>, mishaps \subseteq mishaps'
    PROVE  AnswerInv'
BY DEF AnswerInv, TaskShape, KeptInTime, NoAnswerKept, Spared

\* A new write is not one whose answer is kept.
LEMMA NewTask ==
    ASSUME AnswerInv, NEW k,
           \/ tasks' = tasks \cup {Task("notify_ready", k, "new")}
           \/ tasks' = tasks \cup {Task("client_hello", k, "gate")},
           UNCHANGED <<notifyReady, pending, mishaps>>
    PROVE  AnswerInv'
BY TaskFields DEF AnswerInv, TaskShape, KeptInTime, NoAnswerKept, Spared

\* notify_ready: the answer that was kept is sent; one that is about to be kept is a
\* race.
LEMMA ReadyStep ==
    ASSUME AnswerInv, NEW t \in tasks, HandleNotifyReady(t)
    PROVE  AnswerInv'
<1> DEFINE racing == Task("client_hello", t.key, "cache") \in tasks
<1>1. /\ tasks' = tasks \ {t} /\ notifyReady' = notifyReady \cup {t.key}
      /\ mishaps' = IF racing THEN mishaps \cup {"raced"} ELSE mishaps
      /\ pending' \subseteq pending /\ t.key \notin pending'
  BY DEF HandleNotifyReady
<1>2. TaskShape'
  BY <1>1 DEF AnswerInv, TaskShape
<1>3. ASSUME Spared({"raced"})'
      PROVE  ~racing /\ Spared({"raced"})
  BY <1>1, <1>3 DEF Spared
<1>4. KeptInTime'
  <2> SUFFICES ASSUME Spared({"raced"})', NEW u \in tasks', u.at = "cache"
               PROVE  u.key \notin notifyReady'
    BY DEF KeptInTime
  <2>1. u \in tasks /\ u = Task("client_hello", u.key, "cache")
    BY <1>1, TaskFields DEF AnswerInv, TaskShape
  <2>2. u.key # t.key
    BY <1>3, <2>1
  <2> QED
    BY <1>1, <1>3, <2>1, <2>2 DEF AnswerInv, KeptInTime
<1>5. NoAnswerKept'
  BY <1>1, <1>3 DEF AnswerInv, NoAnswerKept
<1> QED
  BY <1>2, <1>4, <1>5 DEF AnswerInv

\* The look behind the gate: an answer will be kept only without notifications.
LEMMA CheckStep ==
    ASSUME AnswerInv, NEW t \in tasks, CheckReady(t)
    PROVE  AnswerInv'
<1>1. /\ t.at = "gate" /\ UNCHANGED <<notifyReady, pending, mishaps>>
      /\ tasks' = Handled(t, IF t.key \in notifyReady THEN "send" ELSE "cache")
  BY DEF CheckReady
<1>2. t = Task("client_hello", t.key, "gate")
  BY <1>1, TaskFields DEF AnswerInv, TaskShape
<1>3. PICK a \in {"send", "cache"} :
         /\ a = (IF t.key \in notifyReady THEN "send" ELSE "cache")
         /\ tasks' = (tasks \ {t}) \cup {Task("client_hello", t.key, a)}
  BY <1>1, <1>2, HandledTask DEF Handled
<1>4. TaskShape'
  BY <1>3, TaskFields DEF AnswerInv, TaskShape
<1>5. KeptInTime'
  BY <1>1, <1>3, TaskFields DEF AnswerInv, KeptInTime, Spared
<1>6. NoAnswerKept'
  BY <1>1 DEF AnswerInv, NoAnswerKept, Spared
<1> QED
  BY <1>4, <1>5, <1>6 DEF AnswerInv

\* Without a session there is no answer.
LEMMA NoSessionStep ==
    ASSUME AnswerInv, NEW t \in tasks, NoSession(t)
    PROVE  AnswerInv'
BY DEF NoSession, AnswerInv, TaskShape, KeptInTime, NoAnswerKept, Spared

\* An answer is sent or kept.
LEMMA AnswerStep ==
    ASSUME AnswerInv, NEW t \in tasks, Answer(t)
    PROVE  AnswerInv'
<1>1. /\ tasks' = tasks \ {t} /\ UNCHANGED <<notifyReady, mishaps>>
      /\ \/ pending' = pending
         \/ t.at = "cache" /\ pending' = pending \cup {t.key}
  BY DEF Answer
<1>2. TaskShape' /\ KeptInTime'
  BY <1>1 DEF AnswerInv, TaskShape, KeptInTime, Spared
<1>3. NoAnswerKept'
  BY <1>1 DEF AnswerInv, NoAnswerKept, KeptInTime, Spared
<1> QED
  BY <1>2, <1>3 DEF AnswerInv

LEMMA AnswerInvNext == AnswerInv /\ [Next]_vars => AnswerInv'
<1> SUFFICES ASSUME AnswerInv, [Next]_vars PROVE AnswerInv'
  OBVIOUS
<1> USE DEF phoneVars, requestVars, sessionVars, pcVars, requestRest, pcRest
<1>1. CASE Request
  <2>1. ASSUME NEW r, FinishRequest(r) PROVE AnswerInv'
    BY <2>1, NewTask DEF FinishRequest, Announce
  <2>2. ASSUME NEW r, ChooseDevice(r) \/ Connect(r) \/ RequestFails(r) PROVE AnswerInv'
    BY <2>2, PhoneStep DEF ChooseDevice, Connect, Connected, RequestFails
  <2>3. CASE RequestPairing
    BY <2>3, PhoneStep DEF RequestPairing
  <2> QED
    BY <1>1, <2>1, <2>2, <2>3 DEF Request
<1>2. CASE UserDisconnects \/ AuthTimeout \/ GattDrops
  BY <1>2, PhoneStep DEF UserDisconnects, AuthTimeout, GattDrops
<1>3. ASSUME NEW i \in DOMAIN loops, Loop(i) PROVE AnswerInv'
  <2>1. CASE LoopFinishes(i)
    BY <2>1, NewTask DEF LoopFinishes, Announce
  <2>2. CASE LoopConnects(i) \/ LoopFails(i)
    BY <2>2, PhoneStep DEF LoopConnects, Connected, LoopFails
  <2> QED
    BY <1>3, <2>1, <2>2 DEF Loop
<1>4. CASE TakeOk \/ TakeNotice \/ GiveUp
  BY <1>4, PhoneStep DEF TakeOk, TakeNotice, GiveUp
<1>5. ASSUME NEW w \in writing, Hello(w) PROVE AnswerInv'
  <2>1. CASE HelloWritten(w)
    <3>1. CASE w.key \in authorized
      BY <2>1, <3>1, NewTask DEF HelloWritten, Consume
    <3>2. CASE w.key \notin authorized
      BY <2>1, <3>2, PhoneStep DEF HelloWritten, Consume
    <3> QED
      BY <3>1, <3>2
  <2>2. CASE HelloFails(w)
    BY <2>2, PhoneStep DEF HelloFails
  <2> QED
    BY <1>5, <2>1, <2>2 DEF Hello
<1>6. CASE TakeAsk \/ SessionDrops
  BY <1>6, PhoneStep DEF TakeAsk, SessionDrops
<1>7. ASSUME NEW t \in tasks, Handle(t) PROVE AnswerInv'
  BY <1>7, ReadyStep, NoSessionStep, CheckStep, AnswerStep DEF Handle
<1>8. CASE UNCHANGED vars
  BY <1>8, PhoneStep DEF vars
<1> QED
  BY <1>1, <1>2, <1>3, <1>4, <1>5, <1>6, <1>7, <1>8 DEF Next

\* The PC keeps no answer back from a phone whose notify_ready it has handled
\* (DesktopBlePairingService.cs), unless the two were handled at the same time.
THEOREM SpecNoAnswerKept == Spec => []NoAnswerKept
<1>1. AnswerInv => NoAnswerKept
  BY DEF AnswerInv
<1> QED
  BY <1>1, AnswerInvInit, AnswerInvNext, PTL DEF Spec

-----------------------------------------------------------------------------
(* The user's disconnect *)

\* After a disconnect beside which nothing ran nothing runs: no request, no coroutine,
\* and no listener that would start one.
OffInv ==
    /\ listeners \in Nat /\ (watched => listeners > 0)
    /\ off = "yes" => /\ ~linked /\ loops = <<>> /\ listeners = 0 /\ ~watched
                      /\ \A r \in DOMAIN requests : requests[r] = "idle"

\* Without a listener nobody tries to connect again.
LEMMA NobodyNotices == ASSUME loops = <<>> PROVE LoopsAfter(0) = <<>>
<1>1. DOMAIN loops = {} /\ 1 .. 0 = {}
  OBVIOUS
<1>2. [i \in DOMAIN loops |-> IF loops[i].at = "asleep" THEN loops[i]
                              ELSE [loops[i] EXCEPT !.at = "broken"]] = <<>>
  BY <1>1
<1>3. [i \in 1 .. 0 |-> [at |-> "asleep", attempt |-> 1]] = <<>>
  BY <1>1
<1>4. <<>> \o <<>> = <<>>
  OBVIOUS
<1> QED
  BY <1>2, <1>3, <1>4 DEF LoopsAfter

\* What disconnect does with listeners and coroutines
LEMMA Disconnected ==
    ASSUME OffInv, NEW writes, Disconnect(writes)
    PROVE  /\ listeners' = (IF watched THEN listeners - 1 ELSE listeners)
           /\ listeners' \in Nat /\ watched' = FALSE /\ linked' = FALSE
           /\ loops' = IF linked THEN LoopsAfter(listeners') ELSE loops
<1>1. /\ listeners' = (IF watched THEN listeners - 1 ELSE listeners)
      /\ watched' = FALSE /\ linked' = FALSE
      /\ loops' = IF linked THEN LoopsAfter(listeners') ELSE loops
  BY DEF Disconnect, BreakOff
<1>2. listeners' \in Nat
  BY <1>1 DEF OffInv
<1> QED
  BY <1>1, <1>2

\* A step that connects nobody and starts nothing keeps the invariant.
LEMMA OffKept ==
    ASSUME OffInv, UNCHANGED <<off, listeners, watched, requests, linked, loops>>
    PROVE  OffInv'
BY DEF OffInv

LEMMA OffNext == OffInv /\ [Next]_vars => OffInv'
<1> SUFFICES ASSUME OffInv, [Next]_vars PROVE OffInv'
  OBVIOUS
<1> USE DEF phoneVars, requestVars, sessionVars, pcVars, requestRest, pcRest
<1>1. CASE RequestPairing
  BY <1>1 DEF RequestPairing, OffInv
<1>2. ASSUME NEW r \in DOMAIN requests,
             ChooseDevice(r) \/ Connect(r) \/ FinishRequest(r) \/ RequestFails(r)
      PROVE  OffInv'
  <2>1. off' = off /\ off # "yes"
    <3>1. off' = off /\ requests[r] # "idle"
      BY <1>2 DEF ChooseDevice, Connect, FinishRequest, RequestFails, Moves
    <3> QED
      BY <3>1 DEF OffInv
  <2>2. listeners' \in Nat /\ (watched' => listeners' > 0)
    <3>1. CASE ChooseDevice(r)
      BY <3>1 DEF ChooseDevice, OffInv
    <3>2. CASE Connect(r) \/ FinishRequest(r)
      BY <3>2 DEF Connect, FinishRequest, OffInv
    <3>3. CASE RequestFails(r)
      BY <3>3, Disconnected DEF RequestFails
    <3> QED
      BY <1>2, <3>1, <3>2, <3>3
  <2> QED
    BY <2>1, <2>2 DEF OffInv
<1>3. CASE UserDisconnects
  <2>1. /\ listeners' = (IF watched THEN listeners - 1 ELSE listeners)
        /\ listeners' \in Nat /\ watched' = FALSE /\ linked' = FALSE
        /\ loops' = IF linked THEN LoopsAfter(listeners') ELSE loops
    BY <1>3, Disconnected DEF UserDisconnects
  <2>2. RequestsBreak /\ off' = IF Alone THEN "yes" ELSE "partly"
    BY <1>3 DEF UserDisconnects
  <2>3. CASE Alone
    <3>1. listeners' = 0
      BY <2>1, <2>3 DEF Alone
    <3>2. loops' = <<>>
      BY <2>1, <2>3, <3>1, NobodyNotices DEF Alone
    <3>3. \A r \in DOMAIN requests' : requests'[r] = "idle"
      BY <2>2, <2>3 DEF Alone, RequestsBreak
    <3> QED
      BY <2>1, <3>1, <3>2, <3>3 DEF OffInv
  <2>4. CASE ~Alone
    BY <2>1, <2>2, <2>4 DEF OffInv
  <2> QED
    BY <2>3, <2>4
<1>4. CASE AuthTimeout \/ TakeOk \/ TakeNotice \/ GiveUp \/ TakeAsk \/ SessionDrops
  BY <1>4, OffKept DEF AuthTimeout, TakeOk, TakeNotice, GiveUp, TakeAsk, SessionDrops
<1>5. CASE GattDrops
  BY <1>5 DEF GattDrops, OffInv
<1>6. ASSUME NEW i \in DOMAIN loops, Loop(i) PROVE OffInv'
  <2>1. UNCHANGED <<off, listeners, watched, requests>>
    BY <1>6 DEF Loop, LoopConnects, LoopFinishes, LoopFails
  <2>2. off # "yes"
    BY <1>6 DEF OffInv
  <2> QED
    BY <2>1, <2>2 DEF OffInv
<1>7. ASSUME NEW w \in writing, Hello(w) PROVE OffInv'
  <2>1. CASE HelloWritten(w)
    BY <2>1, OffKept DEF HelloWritten
  <2>2. CASE HelloFails(w)
    <3>1. /\ listeners' = (IF watched THEN listeners - 1 ELSE listeners)
          /\ listeners' \in Nat /\ watched' = FALSE /\ linked' = FALSE
          /\ loops' = IF linked THEN LoopsAfter(listeners') ELSE loops
      BY <2>2, Disconnected DEF HelloFails
    <3>2. RequestsBreak /\ off' = off
      BY <2>2 DEF HelloFails
    <3>3. off = "yes" => \A r \in DOMAIN requests' : requests'[r] = "idle"
      BY <3>2 DEF OffInv, RequestsBreak
    <3> QED
      BY <3>1, <3>2, <3>3 DEF OffInv
  <2> QED
    BY <1>7, <2>1, <2>2 DEF Hello
<1>8. ASSUME NEW t \in tasks, Handle(t) PROVE OffInv'
  BY <1>8, OffKept DEF Handle, HandleNotifyReady, NoSession, CheckReady, Answer
<1>9. CASE UNCHANGED vars
  BY <1>9, OffKept DEF vars
<1> QED
  BY <1>1, <1>2, <1>3, <1>4, <1>5, <1>6, <1>7, <1>8, <1>9 DEF Next, Request

\* After disconnect of useBlePairing.ts nobody connects or tries to, if nothing but the
\* connection itself was there to be ended: it leaves no listener behind.
THEOREM SpecOffStaysOff == Spec => []OffStaysOff
<1>1. Init => OffInv
  BY DEF Init, OffInv
<1>2. OffInv => OffStaysOff
  BY DEF OffInv, OffStaysOff
<1> QED
  BY <1>1, <1>2, OffNext, PTL DEF Spec

-----------------------------------------------------------------------------
(* The hellos *)

Kinds == {"verified", "refused", "failed"}

HelloTypes ==
    /\ key \in Nat /\ linked \in BOOLEAN /\ asks \in Seq(Nat) /\ oks \in Seq(Nat)
    /\ notices \in Seq(Kinds)
    /\ writing \subseteq [key : Nat, ok : BOOLEAN]

\* A hello that can be written carries a key that is authorized, and if it is the present
\* key, then it is the one that helloSent is about.
HelloInv ==
    \A w \in writing : w.ok => /\ Spared({"early"}) => w.key \in authorized
                               /\ w.key <= key
                               /\ w.key = key => helloSent

\* A key whose confirmation may send the hello, and that is not asked for once more, is
\* authorized.
OkInv ==
    channelReady /\ ~helloSent /\ key \in Range(oks) => key \in Range(asks) \cup authorized

RefusalInv == HelloTypes /\ HelloInv /\ OkInv /\ NeverRefused

LEMMA RangeOfAppend ==
    ASSUME NEW S, NEW s \in Seq(S), NEW e \in S
    PROVE  Append(s, e) \in Seq(S) /\ Range(Append(s, e)) = Range(s) \cup {e}
<1>1. /\ Append(s, e) \in Seq(S) /\ Len(Append(s, e)) = Len(s) + 1
      /\ Append(s, e)[Len(s) + 1] = e
      /\ \A i \in 1 .. Len(s) : Append(s, e)[i] = s[i]
  OBVIOUS
<1>2. Len(s) \in Nat /\ DOMAIN s = 1 .. Len(s)
      /\ DOMAIN Append(s, e) = 1 .. Len(s) + 1
  BY <1>1
<1> QED
  BY <1>1, <1>2 DEF Range

LEMMA RangeOfTail ==
    ASSUME NEW S, NEW s \in Seq(S), s # <<>>
    PROVE  /\ Tail(s) \in Seq(S) /\ Head(s) \in S
           /\ Range(Tail(s)) \subseteq Range(s) /\ Range(s) = Range(Tail(s)) \cup {Head(s)}
<1>1. Tail(s) \in Seq(S) /\ Len(Tail(s)) = Len(s) - 1 /\ Len(s) \in Nat \ {0}
  OBVIOUS
<1>2. Head(s) = s[1] /\ \A i \in 1 .. Len(s) - 1 : Tail(s)[i] = s[i + 1]
  OBVIOUS
<1>3. DOMAIN s = 1 .. Len(s) /\ DOMAIN Tail(s) = 1 .. Len(s) - 1
  BY <1>1
<1>4. \A i \in 2 .. Len(s) : i - 1 \in 1 .. Len(s) - 1 /\ Tail(s)[i - 1] = s[i]
  BY <1>1, <1>2
<1>5. Head(s) \in S
  OBVIOUS
<1>6. Range(Tail(s)) \subseteq Range(s)
  BY <1>1, <1>2, <1>3 DEF Range
<1>7. \A i \in 1 .. Len(s) : s[i] \in Range(Tail(s)) \cup {Head(s)}
  <2> TAKE i \in 1 .. Len(s)
  <2>1. CASE i = 1
    BY <1>2, <2>1
  <2>2. CASE i # 1
    <3>1. i - 1 \in DOMAIN Tail(s) /\ Tail(s)[i - 1] = s[i]
      BY <1>1, <1>3, <1>4, <2>2
    <3> QED
      BY <3>1 DEF Range
  <2> QED
    BY <2>1, <2>2
<1>8. Head(s) \in Range(s)
  BY <1>1, <1>2, <1>3 DEF Range
<1> QED
  BY <1>1, <1>3, <1>5, <1>6, <1>7, <1>8 DEF Range

LEMMA NoNotice == <<>> \in Seq(Kinds) /\ Range(<<>>) = {}
BY DEF Range

\* What Send leaves on the way
LEMMA SendIs ==
    ASSUME notices \in Seq(Kinds), NEW n \in Kinds, Send(n)
    PROVE  notices' \in Seq(Kinds) /\ Range(notices') \subseteq Range(notices) \cup {n, "failed"}
<1>1. CASE linked
  <2>1. PICK m \in {n, "failed"} : notices' = Append(notices, m)
    BY <1>1 DEF Send
  <2>2. m \in Kinds
    BY DEF Kinds
  <2> QED
    BY <2>1, <2>2, RangeOfAppend
<1>2. CASE ~linked
  BY <1>2 DEF Send
<1> QED
  BY <1>1, <1>2

LEMMA RefusalInit == Init => RefusalInv
<1> SUFFICES ASSUME Init PROVE RefusalInv
  OBVIOUS
<1>1. <<>> \in Seq(Nat) /\ <<>> \in Seq(Kinds)
  BY NoNotice
<1>2. HelloTypes
  BY <1>1 DEF Init, HelloTypes, NoKey
<1>3. HelloInv /\ OkInv
  BY DEF Init, HelloInv, OkInv
<1>4. NeverRefused
  BY DEF Init, NeverRefused, Range
<1> QED
  BY <1>2, <1>3, <1>4 DEF RefusalInv

\* A step that sends nothing over either connection keeps the invariant.
LEMMA QuietStep ==
    ASSUME RefusalInv, UNCHANGED <<key, helloSent, writing, asks, oks, authorized>>,
           channelReady' => channelReady, mishaps \subseteq mishaps',
           notices' \in {notices, <<>>}, error' \in {error, "none", "failed", "timeout"},
           linked' \in {linked, TRUE, FALSE}
    PROVE  RefusalInv'
<1>1. <<>> \in Seq(Kinds) /\ Range(<<>>) = {}
  BY NoNotice
<1>2. HelloTypes'
  BY <1>1 DEF RefusalInv, HelloTypes
<1>3. HelloInv' /\ OkInv'
  BY DEF RefusalInv, HelloInv, OkInv, Spared
<1>4. NeverRefused'
  BY <1>1 DEF RefusalInv, NeverRefused, Spared
<1> QED
  BY <1>2, <1>3, <1>4 DEF RefusalInv

\* With the connection every hello that is being written is lost.
LEMMA BreakStep ==
    ASSUME RefusalInv, NEW writes \in SUBSET writing, BreakOff(writes),
           channelReady' = FALSE \/ UNCHANGED <<channelReady, helloSent>>,
           UNCHANGED <<key, asks, oks, authorized, mishaps>>,
           error' \in {error, "none", "failed", "timeout"}
    PROVE  RefusalInv'
<1>1. <<>> \in Seq(Kinds) /\ Range(<<>>) = {}
  BY NoNotice
<1>2. \A w \in writing' : w \in [key : Nat, ok : BOOLEAN] /\ ~w.ok
  BY DEF BreakOff, RefusalInv, HelloTypes
<1>3. HelloTypes'
  BY <1>1, <1>2 DEF BreakOff, RefusalInv, HelloTypes
<1>4. HelloInv' /\ OkInv'
  BY <1>2 DEF RefusalInv, HelloInv, OkInv
<1>5. NeverRefused'
  BY <1>1 DEF RefusalInv, NeverRefused, BreakOff, Spared
<1> QED
  BY <1>3, <1>4, <1>5 DEF RefusalInv

\* The key is asked for, once more or for the first time.
LEMMA AnnounceStep ==
    ASSUME RefusalInv, Announce,
           UNCHANGED <<key, helloSent, writing, oks, authorized, notices, linked, error,
                       mishaps>>
    PROVE  RefusalInv'
<1>1. asks' \in Seq(Nat) /\ Range(asks') = Range(asks) \cup {key}
  BY RangeOfAppend DEF Announce, Authorize, RefusalInv, HelloTypes
<1>2. HelloTypes'
  BY <1>1 DEF RefusalInv, HelloTypes
<1>3. HelloInv' /\ NeverRefused'
  BY DEF RefusalInv, HelloInv, NeverRefused, Spared
<1>4. OkInv'
  BY <1>1 DEF OkInv
<1> QED
  BY <1>2, <1>3, <1>4 DEF RefusalInv

\* A request has a key of its own.
LEMMA NewKeyStep ==
    ASSUME RefusalInv, RequestPairing
    PROVE  RefusalInv'
<1> USE DEF requestRest, sessionVars, pcVars
<1>1. /\ key' = key + 1 /\ helloSent' = FALSE /\ channelReady' = FALSE /\ error' = "none"
      /\ UNCHANGED <<writing, asks, oks, notices, authorized, linked, mishaps>>
  BY DEF RequestPairing
<1>2. HelloTypes'
  BY <1>1 DEF RefusalInv, HelloTypes
<1>3. HelloInv'
  <2> SUFFICES ASSUME NEW w \in writing, w.ok
               PROVE  /\ Spared({"early"}) => w.key \in authorized
                      /\ w.key <= key + 1 /\ w.key # key + 1
    BY <1>1 DEF HelloInv, Spared
  <2>1. w.key \in Nat /\ key \in Nat
    BY DEF RefusalInv, HelloTypes
  <2> QED
    BY <2>1 DEF RefusalInv, HelloInv
<1>4. OkInv' /\ NeverRefused'
  BY <1>1 DEF RefusalInv, OkInv, NeverRefused, Spared
<1> QED
  BY <1>2, <1>3, <1>4 DEF RefusalInv

\* ble_auth_ok: the hello is sent only for a key that the PC has authorized.
LEMMA OkStep == ASSUME RefusalInv, TakeOk PROVE RefusalInv'
<1> USE DEF pcVars
<1> DEFINE hello == [key |-> key, ok |-> linked]
           early == authKey' = key /\ MaySend(key) /\ key \in Range(asks)
<1>1. /\ oks # <<>> /\ oks' = Tail(oks) /\ authKey' = Head(oks)
      /\ UNCHANGED <<key, channelReady, asks, authorized, notices, linked, error>>
  BY DEF TakeOk
<1>2. /\ oks' \in Seq(Nat) /\ Range(oks') \subseteq Range(oks)
      /\ Head(oks) \in Range(oks)
  BY <1>1, RangeOfTail DEF RefusalInv, HelloTypes
<1>3. mishaps \subseteq mishaps' /\ (early => "early" \in mishaps')
  BY DEF TakeOk
<1>4. ASSUME Spared({"early"})' PROVE Spared({"early"}) /\ ~early
  BY <1>3, <1>4 DEF Spared
<1>5. NeverRefused'
  BY <1>1, <1>4 DEF RefusalInv, NeverRefused
<1>6. CASE MaySend(Head(oks))
  <2>1. helloSent' = TRUE /\ writing' = writing \cup {hello}
    BY <1>1, <1>6 DEF TakeOk
  <2>2. channelReady /\ ~helloSent /\ Head(oks) = key
    BY <1>6 DEF MaySend
  <2>3. ASSUME Spared({"early"})' PROVE key \in authorized
    <3>1. key \notin Range(asks)
      BY <1>1, <1>4, <1>6, <2>2, <2>3
    <3> QED
      BY <1>2, <2>2, <3>1 DEF RefusalInv, OkInv
  <2>4. HelloInv'
    <3>1. key \in Nat
      BY DEF RefusalInv, HelloTypes
    <3> QED
      BY <1>1, <1>4, <2>1, <2>3, <3>1 DEF RefusalInv, HelloInv
  <2>5. HelloTypes'
    BY <1>1, <1>2, <2>1 DEF RefusalInv, HelloTypes
  <2>6. OkInv'
    BY <2>1 DEF OkInv
  <2> QED
    BY <1>5, <2>4, <2>5, <2>6 DEF RefusalInv
<1>7. CASE ~MaySend(Head(oks))
  <2>1. UNCHANGED <<helloSent, writing>>
    BY <1>1, <1>7 DEF TakeOk
  <2>2. HelloTypes'
    BY <1>1, <1>2, <2>1 DEF RefusalInv, HelloTypes
  <2>3. HelloInv' /\ OkInv'
    BY <1>1, <1>2, <1>4, <2>1 DEF RefusalInv, HelloInv, OkInv
  <2> QED
    BY <1>5, <2>2, <2>3 DEF RefusalInv
<1> QED
  BY <1>6, <1>7

\* client_hello: its key is consumed, and no other hello carries it.
LEMMA HelloStep ==
    ASSUME RefusalInv, NEW w \in writing, HelloWritten(w)
    PROVE  RefusalInv'
<1> USE DEF sessionVars
<1>1. /\ w.ok /\ writing' = writing \ {w} /\ error' = "none" /\ Consume(w.key)
      /\ UNCHANGED <<key, helloSent, channelReady, linked, asks, oks, mishaps>>
  BY DEF HelloWritten
<1>2. w \in [key : Nat, ok : BOOLEAN] /\ (w.key = key => helloSent)
  BY <1>1 DEF RefusalInv, HelloTypes, HelloInv
<1>3. /\ Spared({"early"}) => w.key \in authorized /\ notices' = notices
      /\ authorized \ {w.key} \subseteq authorized'
  BY <1>1 DEF RefusalInv, HelloInv, Consume
<1>4. HelloTypes'
  <2>1. notices' = notices \/ Send("refused")
    BY <1>1 DEF Consume
  <2>2. notices \in Seq(Kinds) /\ "refused" \in Kinds
    BY DEF RefusalInv, HelloTypes, Kinds
  <2>3. notices' \in Seq(Kinds)
    BY <2>1, <2>2, SendIs
  <2> QED
    BY <1>1, <2>3 DEF RefusalInv, HelloTypes
<1>5. HelloInv'
  <2> SUFFICES ASSUME NEW v \in writing', v.ok
               PROVE  /\ Spared({"early"}) => v.key \in authorized'
                      /\ v.key <= key
                      /\ v.key = key => helloSent
    BY <1>1 DEF HelloInv, Spared
  <2>1. v \in [key : Nat, ok : BOOLEAN] /\ v \in writing
    BY <1>1 DEF RefusalInv, HelloTypes
  <2>2. v.key # w.key
    BY <1>1, <1>2, <2>1
  <2> QED
    BY <1>3, <2>1, <2>2 DEF RefusalInv, HelloInv
<1>6. OkInv'
  BY <1>1, <1>2, <1>3 DEF RefusalInv, OkInv
<1>7. NeverRefused'
  BY <1>1, <1>3 DEF RefusalInv, NeverRefused, Spared
<1> QED
  BY <1>4, <1>5, <1>6, <1>7 DEF RefusalInv

\* handleNotify: without a refusal on the way none arrives.
LEMMA NoticeStep == ASSUME RefusalInv, TakeNotice PROVE RefusalInv'
<1> USE DEF sessionVars, pcVars
<1>1. /\ notices # <<>> /\ notices' = Tail(notices)
      /\ error' = IF Head(notices) = "verified" THEN "none" ELSE Head(notices)
      /\ UNCHANGED <<key, helloSent, writing, channelReady, linked, asks, oks, authorized>>
      /\ mishaps \subseteq mishaps'
  BY DEF TakeNotice
<1>2. /\ notices' \in Seq(Kinds) /\ Head(notices) \in Kinds
      /\ Range(notices') \subseteq Range(notices) /\ Head(notices) \in Range(notices)
  BY <1>1, RangeOfTail DEF RefusalInv, HelloTypes
<1>3. HelloTypes'
  BY <1>1, <1>2 DEF RefusalInv, HelloTypes
<1>4. HelloInv' /\ OkInv'
  BY <1>1 DEF RefusalInv, HelloInv, OkInv, Spared
<1>5. NeverRefused'
  BY <1>1, <1>2 DEF RefusalInv, NeverRefused, Spared
<1> QED
  BY <1>3, <1>4, <1>5 DEF RefusalInv

\* ble_auth: the key that is asked for is authorized, and confirmed.
LEMMA AskStep == ASSUME RefusalInv, TakeAsk PROVE RefusalInv'
<1> USE DEF phoneVars, pcRest
<1>1. /\ asks # <<>> /\ asks' = Tail(asks) /\ authorized' = authorized \cup {Head(asks)}
      /\ oks' = Append(oks, Head(asks))
      /\ UNCHANGED <<key, helloSent, writing, channelReady, linked, notices, error, mishaps>>
  BY DEF TakeAsk
<1>2. /\ asks' \in Seq(Nat) /\ Head(asks) \in Nat
      /\ Range(asks) = Range(asks') \cup {Head(asks)}
  BY <1>1, RangeOfTail DEF RefusalInv, HelloTypes
<1>3. oks' \in Seq(Nat) /\ Range(oks') = Range(oks) \cup {Head(asks)}
  BY <1>1, <1>2, RangeOfAppend DEF RefusalInv, HelloTypes
<1>4. HelloTypes'
  BY <1>1, <1>2, <1>3 DEF RefusalInv, HelloTypes
<1>5. HelloInv' /\ NeverRefused'
  BY <1>1 DEF RefusalInv, HelloInv, NeverRefused, Spared
<1>6. OkInv'
  BY <1>1, <1>2, <1>3 DEF RefusalInv, OkInv
<1> QED
  BY <1>4, <1>5, <1>6 DEF RefusalInv

\* A step of the PC between hello and answer: what it sends is no refusal.
LEMMA TaskStep ==
    ASSUME RefusalInv, NEW t \in tasks, Handle(t)
    PROVE  RefusalInv'
<1> USE DEF phoneVars, sessionVars, pcRest
<1>1. /\ notices' = notices \/ Send("verified") \/ Send("failed")
      /\ UNCHANGED <<key, helloSent, writing, channelReady, linked, asks, oks, authorized,
                     error>>
      /\ mishaps \subseteq mishaps'
  BY DEF Handle, HandleNotifyReady, NoSession, CheckReady, Answer
<1>2. /\ notices' \in Seq(Kinds)
      /\ Range(notices') \subseteq Range(notices) \cup {"verified", "failed"}
  <2>1. notices \in Seq(Kinds) /\ "verified" \in Kinds /\ "failed" \in Kinds
    BY DEF RefusalInv, HelloTypes, Kinds
  <2> QED
    BY <1>1, <2>1, SendIs
<1>3. HelloTypes'
  BY <1>1, <1>2 DEF RefusalInv, HelloTypes
<1>4. HelloInv' /\ OkInv'
  BY <1>1 DEF RefusalInv, HelloInv, OkInv, Spared
<1>5. NeverRefused'
  BY <1>1, <1>2 DEF RefusalInv, NeverRefused, Spared
<1> QED
  BY <1>3, <1>4, <1>5 DEF RefusalInv

\* The session is lost with the asks and their confirmations.
LEMMA SessionStep == ASSUME RefusalInv, SessionDrops PROVE RefusalInv'
<1> USE DEF phoneVars, pcVars
<1>1. /\ asks' = <<>> /\ oks' = <<>> /\ mishaps \subseteq mishaps'
      /\ UNCHANGED <<key, helloSent, writing, channelReady, linked, notices, authorized,
                     error>>
  BY DEF SessionDrops
<1>2. <<>> \in Seq(Nat) /\ Range(<<>>) = {}
  BY DEF Range
<1>3. HelloTypes'
  BY <1>1, <1>2 DEF RefusalInv, HelloTypes
<1>4. HelloInv' /\ NeverRefused'
  BY <1>1 DEF RefusalInv, HelloInv, NeverRefused, Spared
<1>5. OkInv'
  BY <1>1, <1>2 DEF OkInv
<1> QED
  BY <1>3, <1>4, <1>5 DEF RefusalInv

LEMMA RefusalNext == RefusalInv /\ [Next]_vars => RefusalInv'
<1> SUFFICES ASSUME RefusalInv, [Next]_vars PROVE RefusalInv'
  OBVIOUS
<1> USE DEF phoneVars, requestVars, sessionVars, pcVars, requestRest, pcRest
<1>1. CASE Request
  <2>1. ASSUME NEW r, FinishRequest(r) PROVE RefusalInv'
    BY <2>1, AnnounceStep DEF FinishRequest
  <2>2. ASSUME NEW r, ChooseDevice(r) \/ Connect(r) PROVE RefusalInv'
    <3>1. UNCHANGED <<key, helloSent, writing, asks, oks, authorized, channelReady, notices,
                      error>>
      BY <2>2 DEF ChooseDevice, Connect
    <3>2. mishaps \subseteq mishaps' /\ linked' \in {linked, TRUE}
      BY <2>2 DEF ChooseDevice, Connect, Connected
    <3> QED
      BY <3>1, <3>2, QuietStep
  <2>3. ASSUME NEW r, RequestFails(r) PROVE RefusalInv'
    BY <2>3, BreakStep DEF RequestFails, Disconnect
  <2> QED
    BY <1>1, <2>1, <2>2, <2>3, NewKeyStep DEF Request
<1>2. CASE UserDisconnects
  BY <1>2, BreakStep DEF UserDisconnects, Disconnect
<1>3. CASE AuthTimeout
  BY <1>3, QuietStep DEF AuthTimeout
<1>4. CASE GattDrops
  BY <1>4, BreakStep DEF GattDrops, Notice
<1>5. ASSUME NEW i \in DOMAIN loops, Loop(i) PROVE RefusalInv'
  <2>1. CASE LoopFinishes(i)
    BY <2>1, AnnounceStep DEF LoopFinishes
  <2>2. CASE LoopConnects(i) \/ LoopFails(i)
    <3>1. UNCHANGED <<key, helloSent, writing, asks, oks, authorized, channelReady, notices,
                      error>>
      BY <2>2 DEF LoopConnects, LoopFails
    <3>2. mishaps \subseteq mishaps' /\ linked' \in {linked, TRUE}
      BY <2>2 DEF LoopConnects, Connected, LoopFails
    <3> QED
      BY <3>1, <3>2, QuietStep
  <2> QED
    BY <1>5, <2>1, <2>2 DEF Loop
<1>6. ASSUME NEW w \in writing, Hello(w) PROVE RefusalInv'
  <2>1. CASE HelloFails(w)
    <3>1. writing \ {w} \in SUBSET writing
      OBVIOUS
    <3> QED
      BY <2>1, <3>1, BreakStep DEF HelloFails, Disconnect
  <2> QED
    BY <1>6, <2>1, HelloStep DEF Hello
<1>7. CASE GiveUp
  BY <1>7, QuietStep DEF GiveUp
<1>8. CASE UNCHANGED vars
  BY <1>8, QuietStep DEF vars
<1> QED
  BY <1>1, <1>2, <1>3, <1>4, <1>5, <1>6, <1>7, <1>8, OkStep, NoticeStep, AskStep, TaskStep,
     SessionStep DEF Next

\* The PC authorizes the key of the phone before the phone presents it
\* (sendClientHelloIfAuthorized of useBlePairing.ts, HandleClientHelloAsync of
\* DesktopBlePairingService.cs), unless the phone takes an earlier confirmation of the
\* same key for the present one.
THEOREM SpecNeverRefused == Spec => []NeverRefused
<1>1. RefusalInv => NeverRefused
  BY DEF RefusalInv
<1> QED
  BY <1>1, RefusalInit, RefusalNext, PTL DEF Spec
=============================================================================
