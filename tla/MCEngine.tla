------------------------------ MODULE MCEngine ------------------------------
(* Engine on small instances; the .cfg files choose the commands and bounds. *)
EXTENDS Engine, TLC

Perms == Permutations(Keys)
=============================================================================
