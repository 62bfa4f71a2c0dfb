-------------------------- MODULE MCPolicyAdoption --------------------------
(* The policies on a small instance, with a note of whose turn it was last: *)
(* see ea_device.cfg.                                                      *)
EXTENDS MCDeviceSecurity

VARIABLE outside   \* history: the last step was the outside world's

MCVars == <<vars, outside>>

MCInit == Init /\ outside = FALSE

MCNext ==
  \/ (Reaction \/ TimePasses) /\ outside' = FALSE
  \/ World /\ outside' = TRUE

MCSpec == MCInit /\ [][MCNext]_MCVars /\ Fairness

(* No change of the policies is missed (EASPolicyManager.cpp:679): if in   *)
(* the end accounts and clients leave it in peace, the manager comes to    *)
(* enforce the strictest of all the policies, and stays with it.           *)
PoliciesAdopted == []<>outside \/ <>[]Adopted

=============================================================================
