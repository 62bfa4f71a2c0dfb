-------------------------- MODULE MCDisplayManager --------------------------
(* The display manager on small instances: see the configurations. *)
EXTENDS DisplayManager, TLC

(* The subscribed messages are interchangeable. *)
ClientSymmetry == Permutations(Clients)

=============================================================================
