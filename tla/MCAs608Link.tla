--------------------------- MODULE MCAs608Link ---------------------------
(* As608Link on small instances.  Only the bound MaxCmds ever stops it, so  *)
(* the idle driver that has used up its commands may repeat its last state  *)
(* and every other stop is a deadlock of the link.                          *)
EXTENDS As608Link

BoundReached == pc \in {"idle", "boot"} /\ cmd = MaxCmds /\ UNCHANGED vars

MCSpec == Init /\ [][Next \/ BoundReached]_vars /\ Fairness
=============================================================================
