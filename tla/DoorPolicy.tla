--------------------------- MODULE DoorPolicy ---------------------------
(* What the lock promises: the door is opened only on a grant, one grant    *)
(* opens it once, and an open door is shut again.                           *)
CONSTANTS Methods, NoGrant

VARIABLES door, grant

vars == <<door, grant>>

Init == door = "shut" /\ grant = NoGrant

\* A fingerprint, a password or a card has been accepted.
Accept(m) ==
  /\ door = "shut" /\ grant = NoGrant
  /\ grant' = m
  /\ UNCHANGED door

Open ==
  /\ door = "shut" /\ grant # NoGrant
  /\ door' = "open"
  /\ UNCHANGED grant

Close ==
  /\ door = "open"
  /\ door' = "shut"
  /\ grant' = NoGrant

Next == Open \/ Close \/ \E m \in Methods : Accept(m)

Spec == Init /\ [][Next]_vars
=============================================================================
