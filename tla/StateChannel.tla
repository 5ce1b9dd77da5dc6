--------------------------- MODULE StateChannel ---------------------------
(* What the bridge promises about the words "open" and "close" the lock     *)
(* sends: each switches the relay of the bridge once, in the order they     *)
(* were sent, and only they and the commands of the phone switch it.        *)
EXTENDS Sequences

CONSTANT Words

VARIABLES queue, relay

vars == <<queue, relay>>

Init == queue = <<>> /\ relay = "close"

Send(w)    == queue' = Append(queue, w) /\ UNCHANGED relay
Deliver    == queue # <<>> /\ relay' = Head(queue) /\ queue' = Tail(queue)
Command(w) == relay' = w /\ UNCHANGED queue

Next == Deliver \/ \E w \in Words : Send(w) \/ Command(w)

Spec == Init /\ [][Next]_vars
=============================================================================
