------------------------------ MODULE Delivery ------------------------------
(***************************************************************************)
(* What the outbox promises to those who enqueue notifications: a channel  *)
(* that delivers at least once or says that it failed.  A note that waits  *)
(* goes on waiting until it is filed; it is filed as sent only when it was *)
(* received; nothing is received that nobody asked for.                    *)
(***************************************************************************)
EXTENDS Sequences

CONSTANT Notes

VARIABLES
  waiting,      \* notes that are still to be filed
  sent, failed, \* notes that were filed, as the one or the other
  received      \* the notes received, in order

vars == <<waiting, sent, failed, received>>

Init == waiting = {} /\ sent = {} /\ failed = {} /\ received = <<>>

Received(n) == \E i \in DOMAIN received : received[i] = n

Ask(n) ==
  /\ waiting' = waiting \union {n}
  /\ UNCHANGED <<sent, failed, received>>

\* Another delivery may have been filed meanwhile.
Receive(n) ==
  /\ n \in waiting \union sent \union failed
  /\ received' = Append(received, n)
  /\ UNCHANGED <<waiting, sent, failed>>

FileAsSent(n) ==
  /\ n \in waiting /\ Received(n)
  /\ waiting' = waiting \ {n} /\ sent' = sent \union {n}
  /\ UNCHANGED <<failed, received>>

FileAsFailed(n) ==
  /\ n \in waiting
  /\ waiting' = waiting \ {n} /\ failed' = failed \union {n}
  /\ UNCHANGED <<sent, received>>

Next == \E n \in Notes : Ask(n) \/ Receive(n) \/ FileAsSent(n) \/ FileAsFailed(n)

Spec == Init /\ [][Next]_vars
=============================================================================
