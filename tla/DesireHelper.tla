---------------------------- MODULE DesireHelper ----------------------------
(***************************************************************************)
(* The lane change of the lateral planner (controls/lib/desire_helper.py), *)
(* updated with each message of the driving model, 20 times a second.      *)
(* The keep pulse is left out: no desire it would act on is ever set.      *)
(***************************************************************************)
EXTENDS Naturals

CONSTANTS
  CarStates,             \* what carState may say
  LANE_CHANGE_TIME_MAX,  \* in updates: 10 s, 200
  FullProb               \* lane_change_ll_prob of 1, in units of DT_MDL: 20

Sides == {"left", "right"}

\* slow: below LANE_CHANGE_SPEED_MIN; push: the side of a pressed steering wheel.
CarStateSet == [blinkers : SUBSET Sides, slow : BOOLEAN, push : Sides \cup {"none"},
                blindspot : SUBSET Sides]

ASSUME DesireAssumption ==
  CarStates \subseteq CarStateSet /\ LANE_CHANGE_TIME_MAX \in Nat /\ FullProb \in Nat \ {0}

VARIABLES
  lane_change_state, lane_change_direction, lane_change_timer, lane_change_ll_prob,
  prev_one_blinker,
  blinked,       \* history: one blinker was on at the update before
  asked,         \* history: one was switched on under control since the state was last off
  pushed,        \* history: the side, free for a change, that the driver pushed to when it started
  changing_for   \* history: updates since it started

desireHistory == <<blinked, asked, pushed, changing_for>>
desireVars == <<lane_change_state, lane_change_direction, lane_change_timer,
                lane_change_ll_prob, prev_one_blinker, desireHistory>>

Changing == lane_change_state \in {"laneChangeStarting", "laneChangeFinishing"}

DesireInit ==
  /\ lane_change_state = "off" /\ lane_change_direction = "none"
  /\ lane_change_timer = 0 /\ lane_change_ll_prob = FullProb /\ prev_one_blinker = FALSE
  /\ blinked = FALSE /\ asked = FALSE /\ pushed = "none" /\ changing_for = 0

OneBlinker(car) == car.blinkers \in {{"left"}, {"right"}}

BrokenOff(active) == ~active \/ lane_change_timer > LANE_CHANGE_TIME_MAX

BreakOff ==
  /\ lane_change_state' = "off" /\ lane_change_direction' = "none"
  /\ UNCHANGED lane_change_ll_prob

Off(car) ==
  /\ lane_change_state = "off"
  /\ IF OneBlinker(car) /\ ~prev_one_blinker /\ ~car.slow
     THEN lane_change_state' = "preLaneChange" /\ lane_change_ll_prob' = FullProb
     ELSE UNCHANGED <<lane_change_state, lane_change_ll_prob>>
  /\ UNCHANGED lane_change_direction

\* The side follows the blinker until the driver pushes to it.
PreLaneChange(car) ==
  LET side == IF "left" \in car.blinkers THEN "left" ELSE "right" IN
  /\ lane_change_state = "preLaneChange"
  /\ lane_change_direction' = side
  /\ lane_change_state' = IF ~OneBlinker(car) \/ car.slow THEN "off"
                          ELSE IF car.push = side /\ side \notin car.blindspot
                          THEN "laneChangeStarting" ELSE "preLaneChange"
  /\ UNCHANGED lane_change_ll_prob

\* The lane lines fade out; the model's probability of a change is free.
LaneChangeStarting ==
  /\ lane_change_state = "laneChangeStarting"
  /\ lane_change_ll_prob' = IF lane_change_ll_prob > 2 THEN lane_change_ll_prob - 2 ELSE 0
  /\ \/ lane_change_state' = "laneChangeFinishing" /\ lane_change_ll_prob' = 0
     \/ UNCHANGED lane_change_state
  /\ UNCHANGED lane_change_direction

\* The lane lines fade in; a blinker that is still on prepares the next change.
LaneChangeFinishing(car) ==
  /\ lane_change_state = "laneChangeFinishing"
  /\ lane_change_ll_prob' = IF lane_change_ll_prob < FullProb THEN lane_change_ll_prob + 1 ELSE FullProb
  /\ IF lane_change_ll_prob' = FullProb
     THEN /\ lane_change_direction' = "none"
          /\ lane_change_state' = IF OneBlinker(car) THEN "preLaneChange" ELSE "off"
     ELSE UNCHANGED <<lane_change_state, lane_change_direction>>

\* Mutant: the blinker is only remembered while control is active.
RememberBlinkerWhenActive(car, active) ==
  prev_one_blinker' = IF BrokenOff(active) THEN prev_one_blinker ELSE OneBlinker(car)
RememberBlinker(car, active) == prev_one_blinker' = OneBlinker(car)

\* update
Update(car, active) ==
  /\ IF BrokenOff(active) THEN BreakOff
     ELSE Off(car) \/ PreLaneChange(car) \/ LaneChangeStarting \/ LaneChangeFinishing(car)
  /\ lane_change_timer' = IF Changing' THEN lane_change_timer + 1 ELSE 0
  /\ RememberBlinker(car, active)

\* What the driver did, apart from what the code remembers of it.
RecordDriver(car, active) ==
  LET side == IF car.blinkers = {car.push} /\ car.push \notin car.blindspot THEN car.push ELSE "none"
  IN
  /\ blinked' = OneBlinker(car)
  /\ asked' = (/\ ~BrokenOff(active) /\ lane_change_state' # "off"
               /\ (asked \/ (OneBlinker(car) /\ ~blinked)))
  /\ pushed' = IF ~Changing' THEN "none" ELSE IF Changing THEN pushed ELSE side
  /\ changing_for' = IF Changing' THEN changing_for + 1 ELSE 0
=============================================================================
