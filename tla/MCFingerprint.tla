-------------------------- MODULE MCFingerprint --------------------------
(* FingerprintSession on small instances; as in MCAs608Link, a session that *)
(* has used up its commands may repeat its last state.                      *)
EXTENDS FingerprintSession

BoundReached == pc \in {"idle", "boot"} /\ cmd = MaxCmds /\ UNCHANGED allVars

MCSpec ==
  /\ SessionInit /\ [][SessionNext \/ BoundReached]_allVars
  /\ WF_allVars(ShakeHand)
  /\ WF_allVars(Driver /\ UNCHANGED sessionVars)
  /\ WF_allVars(JudgeTake /\ UNCHANGED sessionVars)
  /\ WF_allVars(PS_Timeout /\ UNCHANGED sessionVars)
  /\ WF_allVars(Rx /\ UNCHANGED sessionVars)
  /\ WF_allVars(Tim7Load /\ UNCHANGED sessionVars)
  /\ WF_allVars(ModuleStep)
=============================================================================
