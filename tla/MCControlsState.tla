-------------------------- MODULE MCControlsState --------------------------
(***************************************************************************)
(* Inputs for model checking ControlsState: every combination of the       *)
(* driver's signals with healthy services, then one anomaly at a time.     *)
(***************************************************************************)
EXTENDS ControlsState

Driving(gas, brake, standstill, cruise) ==
  [gasPressed |-> gas, brakePressed |-> brake, standstill |-> standstill,
   cruiseEnabled |-> cruise, lat_ready |-> TRUE, carEvents |-> {},
   canValid |-> TRUE, canEmpty |-> FALSE, panda |-> "allowed", services |-> "ok", faults |-> {}]

Healthy == {Driving(g, b, s, c) : g \in BOOLEAN, b \in BOOLEAN, s \in BOOLEAN, c \in BOOLEAN}


\* One anomaly on top of d.
AnomaliesOn(d) ==
  {[d EXCEPT !.panda = p] : p \in PandaStates}
  \cup {[d EXCEPT !.services = s, !.faults = f] :
          s \in ServiceStates, f \in {{}, {"usbError"}, {"processNotRunning"}}}
  \cup {[d EXCEPT !.carEvents = e] :
          e \in {{"doorOpen"}, {"parkBrake"}, {"stockAeb"}, {"belowEngageSpeed", "speedTooLow"}}}
  \cup {[d EXCEPT !.faults = f] : f \in {{"overheat"}, {"plannerError"}, {"outOfSpace"}, {"noTarget"}}}
  \cup {[d EXCEPT !.canValid = FALSE], [d EXCEPT !.canEmpty = TRUE], [d EXCEPT !.lat_ready = FALSE]}

Anomalous ==
  UNION {AnomaliesOn(Driving(g, FALSE, FALSE, c)) : g \in BOOLEAN, c \in BOOLEAN}
  \cup AnomaliesOn(Driving(FALSE, TRUE, TRUE, TRUE))

MCSamples == Healthy \cup Anomalous

\* A Toyota with full control, one that disengages on the accelerator, the
\* Gen 2 of Phase 1 (noOutput), a dashcam.
MCConfigs ==
  {[disengage_on_accelerator |-> a, read_only |-> r, noOutput |-> n, opLong |-> l] :
     a \in BOOLEAN, r \in {FALSE}, n \in {FALSE}, l \in {TRUE}}
  \cup {[disengage_on_accelerator |-> TRUE, read_only |-> r, noOutput |-> TRUE,
         opLong |-> FALSE] : r \in BOOLEAN}
=============================================================================
