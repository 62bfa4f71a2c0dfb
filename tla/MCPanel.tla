------------------------------- MODULE MCPanel -------------------------------
(* The panel and the light sensor on small instances. *)
EXTENDS Panel, TLC

(* The subscribed messages are interchangeable. *)
ClientSymmetry == Permutations(Clients)

=============================================================================
