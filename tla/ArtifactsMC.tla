------------------------------ MODULE ArtifactsMC ------------------------------
(* Instances of Artifacts for TLC. *)
EXTENDS Artifacts, TLC

CONSTANTS s1, s2, r1, r2

\* One run in each of two sessions.
HomeOf == r1 :> s1 @@ r2 :> s2

Symmetry == Permutations(Jobs)
=============================================================================
