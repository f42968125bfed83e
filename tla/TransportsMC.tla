------------------------------ MODULE TransportsMC ------------------------------
(* Instances of Transports for TLC. *)
EXTENDS Transports, TLC

\* Calls, refreshes and servers are interchangeable.
Symmetry == Permutations(Calls) \cup Permutations(Refreshes) \cup Permutations(Keys)
=============================================================================
