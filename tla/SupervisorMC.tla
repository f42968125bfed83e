----------------------------- MODULE SupervisorMC -----------------------------
(* Instances of Supervisor for TLC: the request shapes each run lets arrive. *)
EXTENDS Supervisor, TLC

Cell == NoRequest
Start == [Cell EXCEPT !.background = TRUE]
Reset == [Cell EXCEPT !.reset = TRUE]
FreshCell == [Cell EXCEPT !.fresh = TRUE]
Inventory == [Cell EXCEPT !.inventory = TRUE]
Expecting(q, g) == [q EXCEPT !.expected = g]

\* Foreground and background cells, fresh workers, inventories, and expectations that
\* can be met, stale or out of date by one respawn.  A reset expects the worker it ends.
AllShapes == {Cell, FreshCell, Inventory, Expecting(Start, 0), Expecting(Start, 1),
              Expecting(Reset, 1)}

\* The shapes that compete for one persistent worker.
PlainShapes == {Cell, Start}

\* python_session_inspect(include_namespace) runs an inventory on the session.
InspectedShapes == {Cell, Inventory}

Symmetry == Permutations(Runs)
=============================================================================
