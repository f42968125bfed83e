------------------------------- MODULE JournalMC -------------------------------
(* Instances of Journal for TLC. *)
EXTENDS Journal

CONSTANTS heavy

\* The byte budget holds any calls but the heavy one, which takes all of it.
WithinBudget(S) == heavy \in S => S = {heavy}
=============================================================================
