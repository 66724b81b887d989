---------------------------- MODULE LateralPlan ----------------------------
(***************************************************************************)
(* controlsd and the lateral planner, which reads the last controlsState   *)
(* and carState when a message of the driving model wakes it: any number of*)
(* steps of controlsd may go by between two of its updates.                *)
(***************************************************************************)
EXTENDS ControlsState, DesireHelper

PlanInit == Init /\ DesireInit

\* controlsd publishes at the end of its step, so `active` is the last published one.
PlannerUpdate(car) == Update(car, active) /\ RecordDriver(car, active) /\ UNCHANGED vars

PlanNext == (Next /\ UNCHANGED desireVars) \/ \E car \in CarStates : PlannerUpdate(car)

PlanSpec == PlanInit /\ [][PlanNext]_<<vars, desireVars>>

-----------------------------------------------------------------------------
(* Properties                                                              *)

\* A lane change is the driver's own from start to end.  It was asked for by switching
\* on one blinker while controls were active, and a blinker left on through a disengagement
\* that the planner sees or a change that took too long asks for nothing; it goes to the side
\* the driver pushed to, at that blinker and past no car; and it is over, or broken
\* off, one update after LANE_CHANGE_TIME_MAX, whatever the model reports.
LaneChangesAreAskedFor ==
  /\ lane_change_state # "off" => asked
  /\ Changing => lane_change_direction = pushed /\ pushed # "none"
  /\ changing_for <= LANE_CHANGE_TIME_MAX + 1
=============================================================================
