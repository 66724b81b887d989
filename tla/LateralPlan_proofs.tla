------------------------- MODULE LateralPlan_proofs -------------------------
(***************************************************************************)
(* Theorems of LateralPlan, for all samples, settings, cars and times.     *)
(***************************************************************************)
EXTENDS LateralPlan, TLAPS

States3 == {"off", "preLaneChange", "laneChangeStarting", "laneChangeFinishing"}

LaneTypes ==
  /\ lane_change_state \in States3
  /\ lane_change_timer \in Nat /\ changing_for \in Nat
  /\ lane_change_direction \in Sides \cup {"none"}

\* What the driver did and what the code remembers agree.
LaneMemory ==
  /\ blinked = prev_one_blinker
  /\ changing_for = lane_change_timer
  /\ lane_change_timer <= LANE_CHANGE_TIME_MAX + 1

\* The inductive invariant.
LaneInv == LaneTypes /\ LaneMemory /\ LaneChangesAreAskedFor

LEMMA InitLane == DesireInit => LaneInv
<1> SUFFICES ASSUME DesireInit PROVE LaneInv
  OBVIOUS
<1>1. /\ lane_change_state = "off" /\ lane_change_direction = "none" /\ ~Changing
      /\ lane_change_timer = 0 /\ changing_for = 0 /\ blinked = prev_one_blinker
  BY DEF DesireInit, Changing
<1>2. 0 <= LANE_CHANGE_TIME_MAX + 1
  BY DesireAssumption
<1> QED BY <1>1, <1>2 DEF LaneInv, LaneTypes, LaneMemory, LaneChangesAreAskedFor, States3

\* In a step under control the state moves along its cycle, and a change begins to the
\* side the driver pushes to.
LEMMA StateSteps ==
  ASSUME NEW car \in CarStates, LaneInv, Update(car, active), RecordDriver(car, active)
  PROVE  /\ lane_change_state' \in States3
         /\ lane_change_direction' \in Sides \cup {"none"}
         /\ lane_change_state' # "off" => asked'
         /\ Changing' => lane_change_direction' = pushed' /\ pushed' # "none"
         /\ Changing' => lane_change_timer <= LANE_CHANGE_TIME_MAX
<1> USE DEF States3, Changing, LaneInv, LaneTypes, LaneMemory, LaneChangesAreAskedFor
<1>car. car \in CarStateSet
  BY DesireAssumption
<1>1. CASE BrokenOff(active)
  BY <1>1 DEF Update, BreakOff, RecordDriver
<1>2. CASE ~BrokenOff(active)
  <2>t. lane_change_timer <= LANE_CHANGE_TIME_MAX
    BY <1>2, DesireAssumption DEF BrokenOff
  <2>1. CASE Off(car)
    BY <1>2, <2>1, <2>t DEF Off, RecordDriver
  <2>2. CASE PreLaneChange(car)
    <3> DEFINE side == IF "left" \in car.blinkers THEN "left" ELSE "right"
    <3>1. lane_change_state = "preLaneChange" /\ lane_change_direction' = side /\ asked
      BY <2>2 DEF PreLaneChange
    <3>2. lane_change_state' \in {"off", "preLaneChange", "laneChangeStarting"}
      BY <2>2 DEF PreLaneChange
    <3>3. lane_change_state' # "off" => asked'
      BY <1>2, <3>1 DEF RecordDriver
    <3>4. Changing' => lane_change_direction' = pushed' /\ pushed' # "none"
      <4>1. SUFFICES ASSUME Changing' PROVE side = pushed' /\ side # "none"
        BY <3>1
      <4>2. OneBlinker(car) /\ car.push = side /\ side \notin car.blindspot
        BY <2>2, <4>1 DEF PreLaneChange
      <4>3. car.blinkers = {side}
        BY <4>2 DEF OneBlinker
      <4>4. pushed' = side
        BY <3>1, <4>1, <4>2, <4>3 DEF RecordDriver
      <4> QED BY <4>4
    <3> QED BY <2>t, <3>1, <3>2, <3>3, <3>4 DEF Sides
  <2>3. CASE LaneChangeStarting
    BY <1>2, <2>3, <2>t DEF LaneChangeStarting, RecordDriver
  <2>4. CASE LaneChangeFinishing(car)
    BY <1>2, <2>4, <2>t DEF LaneChangeFinishing, RecordDriver
  <2> QED BY <1>2, <2>1, <2>2, <2>3, <2>4 DEF Update
<1> QED BY <1>1, <1>2

LEMMA UpdateKeepsLane ==
  ASSUME NEW car \in CarStates, LaneInv, Update(car, active), RecordDriver(car, active)
  PROVE  LaneInv'
<1>1. /\ lane_change_state' \in States3
      /\ lane_change_direction' \in Sides \cup {"none"}
      /\ lane_change_state' # "off" => asked'
      /\ Changing' => lane_change_direction' = pushed' /\ pushed' # "none"
      /\ Changing' => lane_change_timer <= LANE_CHANGE_TIME_MAX
  BY StateSteps
<1>2. lane_change_timer \in Nat /\ changing_for = lane_change_timer
  BY DEF LaneInv, LaneTypes, LaneMemory
<1>3. lane_change_timer' = IF Changing' THEN lane_change_timer + 1 ELSE 0
  BY DEF Update
<1>4. changing_for' = IF Changing' THEN changing_for + 1 ELSE 0
  BY DEF RecordDriver
<1>5. LaneTypes'
  BY <1>1, <1>2, <1>3, <1>4 DEF LaneTypes
<1>6. blinked' = prev_one_blinker'
  BY DEF Update, RecordDriver, RememberBlinker
<1>7. /\ changing_for' = lane_change_timer'
      /\ lane_change_timer' <= LANE_CHANGE_TIME_MAX + 1
  BY <1>1, <1>2, <1>3, <1>4, DesireAssumption
<1>8. LaneMemory'
  BY <1>6, <1>7 DEF LaneMemory
<1>9. LaneChangesAreAskedFor'
  BY <1>1, <1>7 DEF LaneChangesAreAskedFor
<1> QED BY <1>5, <1>8, <1>9 DEF LaneInv

LEMMA StutterKeepsLane == LaneInv /\ UNCHANGED desireVars => LaneInv'
  BY DEF LaneInv, LaneTypes, LaneMemory, LaneChangesAreAskedFor, Changing, desireVars, desireHistory

LEMMA LaneInvariant == PlanSpec => []LaneInv
<1>1. PlanInit => LaneInv
  BY InitLane DEF PlanInit
<1>2. LaneInv /\ [PlanNext]_<<vars, desireVars>> => LaneInv'
  <2>1. SUFFICES ASSUME LaneInv, [PlanNext]_<<vars, desireVars>> PROVE LaneInv'
    OBVIOUS
  <2>2. CASE UNCHANGED desireVars
    BY <2>1, <2>2, StutterKeepsLane
  <2>3. ASSUME NEW car \in CarStates, PlannerUpdate(car) PROVE LaneInv'
    BY <2>1, <2>3, UpdateKeepsLane DEF PlannerUpdate
  <2> QED BY <2>1, <2>2, <2>3 DEF PlanNext
<1> QED BY <1>1, <1>2, PTL DEF PlanSpec

\* A lane change is asked for under control, goes to the side pushed to and ends
\* in time, for every car, every model and any number of controlsd's steps in between.
THEOREM LaneChangesAsked == PlanSpec => []LaneChangesAreAskedFor
  BY LaneInvariant, PTL DEF LaneInv

\* The planner takes nothing from controlsd: whatever ControlsState is proved to do it
\* does beside a planner.
THEOREM PlannerOnlyReads == PlanSpec => Spec
<1>1. PlanInit => Init
  BY DEF PlanInit
<1>2. [PlanNext]_<<vars, desireVars>> => [Next]_vars
  BY DEF PlanNext, PlannerUpdate
<1> QED BY <1>1, <1>2, PTL DEF PlanSpec, Spec
=============================================================================
