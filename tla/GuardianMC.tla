------------------------------ MODULE GuardianMC ------------------------------
(* Instances of Guardian for TLC. *)
EXTENDS Guardian
=============================================================================
