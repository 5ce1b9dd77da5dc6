--------------------------- MODULE MCDoorGuard ---------------------------
(* DoorGuard with a keypad of four keys and passwords of two digits.  The   *)
(* default handler is a branch to itself; every other stop is a deadlock.   *)
EXTENDS DoorGuard

CONSTANTS k1, k2, k3, k4

MCKeys == {k1, k2, k3, k4}
MCPassword1 == <<k1, k2>>
MCPassword2 == <<k2, k4>>

DefaultHandler == hung /\ UNCHANGED vars

MCSpec == Init /\ [][Next \/ DefaultHandler]_vars /\ Fairness
=============================================================================
