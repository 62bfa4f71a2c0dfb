-------------------------- MODULE MCSuspendBlocker --------------------------
(* The exchange with powerd on small instances: see the configurations. *)
EXTENDS SuspendBlocker

(* What is stored when the program starts makes no difference here. *)
MCInit == ExchangeInit /\ ~onWhenConnected /\ ~display.passcode

MCSpec == MCInit /\ [][ExchangeNext]_allVars /\ ExchangeFairness

=============================================================================
