--------------------------- MODULE MCHardwareLease ---------------------------
(* The hardware permissions for TLC: any two requests are alike. *)
EXTENDS HardwareLease, TLC

RequestSymmetry == Permutations(Requests)
=============================================================================
