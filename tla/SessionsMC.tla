------------------------------ MODULE SessionsMC ------------------------------
(* Instances of Sessions for TLC. *)
EXTENDS Sessions, TLC

\* Opens are interchangeable, and so are the projects that are not the server's own.
Symmetry == Permutations(Opens) \cup Permutations(Projects \ {Home})
=============================================================================
