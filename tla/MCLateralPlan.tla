--------------------------- MODULE MCLateralPlan ---------------------------
(***************************************************************************)
(* Inputs for model checking LateralPlan: for controlsd, every combination *)
(* of the driver's signals, and one anomaly of each kind on top of three of*)
(* them; for the planner, what it may read of the car.                     *)
(***************************************************************************)
EXTENDS LateralPlan, MCControlsState

OneOfEachKindOn(d) ==
  {[d EXCEPT !.panda = p] : p \in PandaStates \ {"allowed"}}
  \cup {[d EXCEPT !.services = "slow", !.faults = {"processNotRunning"}],
        [d EXCEPT !.services = "invalid", !.faults = {"usbError"}]}
  \cup {[d EXCEPT !.carEvents = e] :
          e \in {{"doorOpen"}, {"parkBrake"}, {"belowEngageSpeed", "speedTooLow"}}}
  \cup {[d EXCEPT !.faults = {f}] : f \in {"outOfSpace", "noTarget"}}
  \cup {[d EXCEPT !.canValid = FALSE], [d EXCEPT !.lat_ready = FALSE]}

PlanSamples ==
  Healthy \cup OneOfEachKindOn(Driving(FALSE, FALSE, FALSE, TRUE))
          \cup OneOfEachKindOn(Driving(TRUE, FALSE, FALSE, TRUE))
          \cup OneOfEachKindOn(Driving(FALSE, TRUE, TRUE, TRUE))

Car(blinkers, push) == [blinkers |-> blinkers, slow |-> FALSE, push |-> push, blindspot |-> {}]

\* Blinkers and pushes in all combinations; a slow car and one in the blind spot.
MCCarStates ==
  {Car(b, p) : b \in SUBSET Sides, p \in Sides \cup {"none"}}
  \cup {[Car({"left"}, p) EXCEPT !.slow = TRUE] : p \in {"left", "none"}}
  \cup {[Car({s}, s) EXCEPT !.blindspot = {"left"}] : s \in Sides}
=============================================================================
