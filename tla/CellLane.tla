------------------------------- MODULE CellLane -------------------------------
(*****************************************************************************)
(* What a session promises its callers, without workers, locks or tasks: a   *)
(* lane that one run occupies at a time.  While it occupies the lane a run   *)
(* can renew the namespace and execute its code, in that order, the code at  *)
(* most once; then it leaves the lane for good.                              *)
(*****************************************************************************)
EXTENDS Naturals

CONSTANTS Runs, NoRun

VARIABLES current,     \* the run in the lane, or NoRun
          stage,       \* how far each run has got
          namespace    \* number of the persistent namespace

laneVars == <<current, stage, namespace>>

Stage == {"new", "admitted", "executed", "over"}

LaneInit == /\ current = NoRun
            /\ stage = [r \in Runs |-> "new"]
            /\ namespace = 0

Enter(r) == /\ current = NoRun /\ stage[r] = "new"
            /\ current' = r
            /\ stage' = [stage EXCEPT ![r] = "admitted"]
            /\ UNCHANGED namespace

TurnAway(r) == /\ stage[r] = "new"
               /\ stage' = [stage EXCEPT ![r] = "over"]
               /\ UNCHANGED <<current, namespace>>

Renew(r) == /\ current = r /\ stage[r] = "admitted"
            /\ namespace' = namespace + 1
            /\ UNCHANGED <<current, stage>>

Execute(r) == /\ current = r /\ stage[r] = "admitted"
              /\ stage' = [stage EXCEPT ![r] = "executed"]
              /\ UNCHANGED <<current, namespace>>

Leave(r) == /\ current = r
            /\ current' = NoRun
            /\ stage' = [stage EXCEPT ![r] = "over"]
            /\ UNCHANGED namespace

LaneNext == \E r \in Runs : Enter(r) \/ TurnAway(r) \/ Renew(r) \/ Execute(r) \/ Leave(r)

LaneSpec == LaneInit /\ [][LaneNext]_laneVars
=============================================================================
