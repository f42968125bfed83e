------------------------------- MODULE RpcLinkMC -------------------------------
(* Instances of RpcLink for TLC. *)
EXTENDS RpcLink, TLC

CONSTANTS r1

\* The calls belong to the first run; the second finds what they have left.
HomeOf == [c \in Calls |-> r1]
=============================================================================
