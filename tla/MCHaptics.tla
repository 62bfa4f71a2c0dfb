------------------------------ MODULE MCHaptics ------------------------------
(* The vibration service on small instances. *)
EXTENDS Haptics, TLC

(* The messages are interchangeable; the ids too, for nothing counts them. *)
MessageSymmetry == Permutations(Messages)

=============================================================================
