--------------------------- MODULE OrderedDelivery ---------------------------
(***************************************************************************)
(* What the encrypted link from the phone to the PC promises, whatever the *)
(* transports lose, delay or reorder and however often the two sides start *)
(* again: the PC accepts messages that the phone sent, in the order in     *)
(* which it sent them, and none twice.                                     *)
(*                                                                         *)
(* A message is named by the ratchet key it is encrypted under, counted    *)
(* from 1, and its sequence number under that key.                         *)
(***************************************************************************)
EXTENDS Naturals

VARIABLES
    sent,   \* the messages sent so far
    last    \* the message accepted last

Before(a, b) == a[1] < b[1] \/ (a[1] = b[1] /\ a[2] < b[2])

Init == sent = {} /\ last = <<0, 0>>

\* m is sent, after everything that was sent before it.
Send(m) ==
    /\ \A s \in sent : Before(s, m)
    /\ sent' = sent \cup {m}
    /\ UNCHANGED last

Accept(m) ==
    /\ Before(last, m)
    /\ last' = m
    /\ UNCHANGED sent

Next == (\E m \in sent' : Send(m)) \/ (\E m \in sent : Accept(m))

Spec == Init /\ [][Next]_<<sent, last>>
=============================================================================
