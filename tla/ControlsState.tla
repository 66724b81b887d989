---------------------------- MODULE ControlsState ----------------------------
(***************************************************************************)
(* The engagement logic of controlsd (selfdrive/controls/controlsd.py): one *)
(* 100 Hz step samples the car and the other processes, turns them into    *)
(* events, runs the engagement state machine on the events' types and      *)
(* decides which actuators are live.                                       *)
(*                                                                         *)
(* The car is the Toyota of this fork: pcmCruise, one panda, no joystick.  *)
(* A step is one action: controlsd is single-threaded and its inputs are   *)
(* what it samples at the start of the step.                               *)
(***************************************************************************)
EXTENDS Integers

CONSTANTS
  Samples,             \* what data_sample may read
  Configs,             \* the settings __init__ may read
  SoftDisableFrames,   \* SOFT_DISABLE_TIME / DT_CTRL, 300
  MismatchLimit,       \* 200: frames the panda may disagree
  InitFrames           \* 350: frames after which bad inputs no longer delay start

-----------------------------------------------------------------------------
(* EVENTS of lib/events.py: which events have which type.  Events without a *)
(* type the state machine reads, events of other cars, and canBusMissing    *)
(* (no car interface sets canTimeout) are left out.                         *)

ENABLE       == {"pcmEnable"}
PRE_ENABLE   == {"pedalPressedPreEnable"}
OVERRIDE     == {"gasPressedOverride"}
USER_DISABLE == {"pcmDisable", "pedalPressed", "brakeHold", "parkBrake", "wrongCarMode",
                 "wrongCruiseMode", "reverseGear"}
SOFT_DISABLE == {"vehicleModelInvalid", "steerTempUnavailable", "overheat", "wrongGear",
                 "calibrationInvalid", "calibrationIncomplete", "doorOpen",
                 "seatbeltNotLatched", "espDisabled", "commIssue", "commIssueAvgFreq",
                 "controlsdLagging", "radarFault", "modeldLagging", "posenetInvalid",
                 "deviceFalling", "lowMemory", "usbError"}
IMMEDIATE_DISABLE == {"canError", "controlsMismatch", "relayMalfunction",
                      "steerUnavailable", "plannerError", "noTarget", "speedTooLow"}

\* Mutant: the panda's relay fault stops blocking engagement.
NO_ENTRYWithoutRelay ==
  (SOFT_DISABLE \cup IMMEDIATE_DISABLE \cup USER_DISABLE)
    \ {"speedTooLow", "pcmDisable", "relayMalfunction"}

NO_ENTRY ==
  ((SOFT_DISABLE \cup IMMEDIATE_DISABLE \cup USER_DISABLE) \ {"speedTooLow", "pcmDisable"})
  \cup {"controlsInitializing", "stockAeb", "outOfSpace", "belowEngageSpeed",
        "sensorDataInvalid", "tooDistracted", "processNotRunning", "highCpuUsage",
        "speedTooHigh", "lowSpeedLockout"}

\* Events the car interface puts in CS.events, besides those of stock cruise.
CarEvents == {"doorOpen", "seatbeltNotLatched", "wrongGear", "reverseGear", "wrongCarMode",
              "espDisabled", "stockAeb", "speedTooHigh", "wrongCruiseMode", "brakeHold",
              "parkBrake", "steerTempUnavailable", "steerUnavailable", "lowSpeedLockout",
              "belowEngageSpeed", "speedTooLow"}

\* "HW and system malfunctions", counted before the generic catch-all.
SystemEvents == {"processNotRunning", "controlsdLagging", "radarFault", "usbError"}

\* Events read off the other services.
ServiceEvents == SystemEvents \cup
  {"tooDistracted", "overheat", "outOfSpace", "lowMemory", "highCpuUsage",
   "calibrationIncomplete", "calibrationInvalid", "vehicleModelInvalid", "plannerError",
   "sensorDataInvalid", "posenetInvalid", "deviceFalling", "modeldLagging", "noTarget"}

AllEvents == CarEvents \cup ServiceEvents \cup ENABLE \cup PRE_ENABLE \cup OVERRIDE \cup
  USER_DISABLE \cup SOFT_DISABLE \cup IMMEDIATE_DISABLE \cup {"controlsInitializing"}

\* pandaStates: nothing received, the configured mode with or without
\* controls_allowed or with a relay fault, an ignored mode, another car mode.
PandaStates == {"none", "allowed", "disallowed", "relayFault", "silent", "other"}

\* SubMaster: every service alive, frequent and valid, or the first of these that fails.
ServiceStates == {"ok", "dead", "slow", "invalid"}

\* One sample: the CarState, whether CAN brought nothing, and the other services.
\* lat_ready: no steering fault and above minSteerSpeed.
SampleSet ==
  [gasPressed : BOOLEAN, brakePressed : BOOLEAN, standstill : BOOLEAN,
   cruiseEnabled : BOOLEAN, lat_ready : BOOLEAN, carEvents : SUBSET CarEvents,
   canValid : BOOLEAN, canEmpty : BOOLEAN,
   panda : PandaStates, services : ServiceStates, faults : SUBSET ServiceEvents]

\* noOutput: the configured safety mode is one controlsd ignores; opLong:
\* CP.openpilotLongitudinalControl.
ConfigSet == [disengage_on_accelerator : BOOLEAN, read_only : BOOLEAN,
              noOutput : BOOLEAN, opLong : BOOLEAN]

ASSUME ControlsAssumption ==
  /\ SoftDisableFrames \in Nat \ {0} /\ MismatchLimit \in Nat \ {0} /\ InitFrames \in Nat
  /\ Samples \subseteq SampleSet /\ Configs \subseteq ConfigSet
  \* The car interface reports speedTooLow only below the engagement speed.
  /\ \A s \in Samples : "speedTooLow" \in s.carEvents => "belowEngageSpeed" \in s.carEvents

States         == {"disabled", "preEnabled", "enabled", "softDisabling", "overriding"}
ACTIVE_STATES  == {"enabled", "softDisabling", "overriding"}
ENABLED_STATES == {"preEnabled"} \cup ACTIVE_STATES

-----------------------------------------------------------------------------
VARIABLES
  CP,                  \* the settings this process started with
  frame,               \* sm.frame, saturates at InitFrames + 1
  initialized,
  sample,              \* the last sample: CS_prev and the data of sm
  events,
  state, enabled, active,
  soft_disable_timer, mismatch_counter,
  latActive, longActive,
  soft_for             \* history: frames spent in softDisabling since it was entered

samplingVars == <<frame, initialized, mismatch_counter>>
machineVars  == <<state, enabled, active, soft_disable_timer, soft_for>>
vars == <<CP, samplingVars, sample, events, machineVars, latActive, longActive>>

AtMost(a, b) == IF a < b THEN a ELSE b

\* What CS_prev and sm hold before anything was received.
NothingReceived ==
  [gasPressed |-> FALSE, brakePressed |-> FALSE, standstill |-> FALSE, cruiseEnabled |-> FALSE,
   lat_ready |-> FALSE, carEvents |-> {}, canValid |-> FALSE, canEmpty |-> TRUE,
   panda |-> "none", services |-> "dead", faults |-> {}]

Init ==
  /\ CP \in Configs
  /\ frame = 0 /\ initialized = FALSE /\ mismatch_counter = 0
  /\ sample = NothingReceived /\ events = {}
  /\ state = "disabled" /\ enabled = FALSE /\ active = FALSE
  /\ soft_disable_timer = 0 /\ soft_for = 0
  /\ latActive = FALSE /\ longActive = FALSE

-----------------------------------------------------------------------------
(* data_sample                                                             *)

\* A panda outside the ignored modes withholds controls.
Withheld(in) == in.panda = "other" \/ (in.panda = "disallowed" /\ ~CP.noOutput)

MismatchesAfter(in) ==
  IF ~enabled THEN 0 ELSE IF Withheld(in) THEN mismatch_counter + 1 ELSE mismatch_counter

DataSample(in) ==
  /\ sample' = in
  /\ frame' = AtMost(frame + 1, InitFrames + 1)
  /\ initialized' = \/ initialized
                    \/ in.canValid /\ in.services = "ok"
                    \/ frame' > InitFrames
  /\ mismatch_counter' = MismatchesAfter(in)

-----------------------------------------------------------------------------
(* update_events                                                           *)

\* Mutant: only the pedal's edge counts, so a held brake does not end a drive-off.
PedalEventsEdgeOnly(in) ==
  {e \in {"pedalPressed"} :
     \/ in.gasPressed /\ ~sample.gasPressed /\ CP.disengage_on_accelerator
     \/ in.brakePressed /\ ~sample.brakePressed}
  \cup {e \in {"pedalPressedPreEnable"} : in.gasPressed /\ CP.disengage_on_accelerator}
  \cup {e \in {"gasPressedOverride"} : in.gasPressed /\ ~CP.disengage_on_accelerator}

\* Disable on the rising edge of a pedal, and on the brake while moving.
PedalEvents(in) ==
  {e \in {"pedalPressed"} :
     \/ in.gasPressed /\ ~sample.gasPressed /\ CP.disengage_on_accelerator
     \/ in.brakePressed /\ (~sample.brakePressed \/ ~in.standstill)}
  \cup {e \in {"pedalPressedPreEnable"} : in.gasPressed /\ CP.disengage_on_accelerator}
  \cup {e \in {"gasPressedOverride"} : in.gasPressed /\ ~CP.disengage_on_accelerator}

\* Mutant: stock cruise enables by its level.
CruiseEventsOnLevel(in) == IF in.cruiseEnabled THEN {"pcmEnable"} ELSE {"pcmDisable"}

\* create_common_events: stock cruise, by its rising edge and its level.
CruiseEvents(in) ==
  IF ~in.cruiseEnabled THEN {"pcmDisable"}
  ELSE IF sample.cruiseEnabled THEN {} ELSE {"pcmEnable"}

\* Car events are ignored when CAN is invalid.
CarEventsOf(in) == IF in.canValid THEN in.carEvents \cup CruiseEvents(in) ELSE {"canError"}

\* Mutant: one frame of disagreement too many.
PandaEventsLate(in) ==
  {e \in {"controlsMismatch"} :
     \/ in.panda \in {"silent", "other"}
     \/ in.panda # "none" /\ mismatch_counter' > MismatchLimit}
  \cup {e \in {"relayMalfunction"} : in.panda = "relayFault"}

\* The safety mode must be the configured one, and the disagreement short.
PandaEvents(in) ==
  {e \in {"controlsMismatch"} :
     \/ in.panda \in {"silent", "other"}
     \/ in.panda # "none" /\ mismatch_counter' >= MismatchLimit}
  \cup {e \in {"relayMalfunction"} : in.panda = "relayFault"}

\* usbError is the invalid flag of pandaStates; noTarget needs the brake.
ServiceEventsOf(in) ==
  {e \in in.faults : /\ e = "usbError" => in.services # "ok"
                     /\ e = "noTarget" => in.brakePressed /\ CP.opLong}

\* The generic catch-all, as written: no_system_errors is TRUE when there are some.
CatchAllEvents(in) ==
  LET no_system_errors == ServiceEventsOf(in) \cap SystemEvents # {} IN
  IF (in.services # "ok" \/ in.canEmpty) /\ no_system_errors /\ in.canValid
  THEN {IF in.services = "slow" THEN "commIssueAvgFreq" ELSE "commIssue"}
  ELSE {}

UpdateEvents(in) ==
  events' = IF ~initialized' THEN {"controlsInitializing"}
            ELSE PedalEvents(in) \cup CarEventsOf(in) \cup PandaEvents(in)
                 \cup ServiceEventsOf(in) \cup CatchAllEvents(in)

-----------------------------------------------------------------------------
(* state_transition                                                        *)

Any(type) == events' \cap type # {}

FromDisabled ==
  IF ~Any(ENABLE) \/ Any(NO_ENTRY) THEN "disabled"
  ELSE IF Any(PRE_ENABLE) THEN "preEnabled"
  ELSE IF Any(OVERRIDE) THEN "overriding" ELSE "enabled"

FromPreEnabled ==
  IF Any(NO_ENTRY) THEN "disabled" ELSE IF Any(PRE_ENABLE) THEN "preEnabled" ELSE "enabled"

\* ENABLED and OVERRIDING leave alike.
FromActive ==
  IF Any(SOFT_DISABLE) THEN "softDisabling" ELSE IF Any(OVERRIDE) THEN "overriding" ELSE "enabled"

\* decremented at every step, reset on entrance in SOFT_DISABLING
TimerLeft == IF soft_disable_timer > 0 THEN soft_disable_timer - 1 ELSE 0

\* Mutant: the soft disable period starts again with every frame of the fault.
FromSoftDisablingRearmed == IF Any(SOFT_DISABLE) THEN "softDisabling" ELSE "enabled"

FromSoftDisabling ==
  IF ~Any(SOFT_DISABLE) THEN "enabled" ELSE IF TimerLeft > 0 THEN "softDisabling" ELSE "disabled"

\* User and immediate disable have priority in every state but disabled.
NextState ==
  IF state = "disabled" THEN FromDisabled
  ELSE IF Any(USER_DISABLE) \/ Any(IMMEDIATE_DISABLE) THEN "disabled"
  ELSE CASE state = "preEnabled" -> FromPreEnabled
         [] state = "softDisabling" -> FromSoftDisabling
         [] OTHER -> FromActive

StateTransition ==
  /\ state' = NextState
  /\ soft_disable_timer' = IF state' = "softDisabling" /\ state # "softDisabling"
                           THEN SoftDisableFrames ELSE TimerLeft
  /\ enabled' = (state' \in ENABLED_STATES) /\ active' = (state' \in ACTIVE_STATES)
  /\ soft_for' = IF state' = "softDisabling" THEN soft_for + 1 ELSE 0

-----------------------------------------------------------------------------
(* state_control                                                           *)

LongReady == ~Any(OVERRIDE)

StateControl(in) ==
  /\ latActive' = (active' /\ in.lat_ready /\ ~in.standstill)
  /\ longActive' = (active' /\ LongReady /\ CP.opLong)

\* step
Step(in) ==
  /\ DataSample(in)
  /\ UpdateEvents(in)
  /\ IF ~CP.read_only /\ initialized' THEN StateTransition ELSE UNCHANGED machineVars
  /\ StateControl(in)
  /\ UNCHANGED CP

Next == \E in \in Samples : Step(in)

Spec == Init /\ [][Next]_vars

-----------------------------------------------------------------------------
(* Properties                                                              *)

\* Every variable stays within its declared values and bounds.
TypeOK ==
  /\ CP \in ConfigSet /\ sample \in SampleSet /\ events \in SUBSET AllEvents
  /\ frame \in 0..(InitFrames + 1) /\ initialized \in BOOLEAN
  /\ state \in States /\ enabled \in BOOLEAN /\ active \in BOOLEAN
  /\ soft_disable_timer \in 0..SoftDisableFrames /\ soft_for \in 0..SoftDisableFrames
  /\ mismatch_counter \in 0..MismatchLimit
  /\ latActive \in BOOLEAN /\ longActive \in BOOLEAN

\* A soft fault that stays gives the driver SoftDisableFrames to take over and no
\* more: softDisabling is left in time whatever other events come and go with it.
SoftDisableIsBounded ==
  state = "softDisabling" => /\ soft_for + soft_disable_timer = SoftDisableFrames + 1
                             /\ soft_disable_timer > 0

\* Whatever the order of samples, controlsd is not enabled once the panda was in
\* another mode, had a relay fault, or withheld controls for MismatchLimit frames
\* of this engagement.  The code's limit is 200 frames, two seconds; the comment
\* over the counter ("we allow a mismatch for two samples") is not what it does.
PandaVetoEndsEngagement ==
  enabled => /\ mismatch_counter < MismatchLimit
             /\ sample.panda \notin {"silent", "other", "relayFault"}

\* The driver's pedals win in every state, entered in whatever order.  The
\* accelerator stops the gas and brake commands, and ends the engagement where
\* the setting says so: otherwise it overrides, and steering goes on under it.
\* The brake stops steering and ends the engagement, except a brake held since
\* before it in a car that has stood still since: pressing it, or driving off
\* with it held, ends that too, but until then the longitudinal commands go on.
PedalsHaveAuthority ==
  [][/\ longActive' => ~sample'.gasPressed
     /\ active' /\ CP.disengage_on_accelerator => ~sample'.gasPressed
     /\ latActive' => ~sample'.brakePressed
     /\ enabled' /\ sample'.brakePressed => sample'.standstill /\ sample.brakePressed]_vars

\* Nothing that would take control away in the next frame lets controlsd engage:
\* the NO_ENTRY column of the event table covers its three disabling columns.
EngagesOnlyWhenStable ==
  [][~enabled /\ enabled' =>
       events' \cap (USER_DISABLE \cup IMMEDIATE_DISABLE \cup SOFT_DISABLE) = {}]_vars

\* controlsd implements Authority: it engages only with the rising edge of stock
\* cruise, and what takes it out keeps it out until stock cruise cycles.
DriverAuthority == INSTANCE Authority WITH cruise <- sample.cruiseEnabled, authority <- enabled
ImplementsAuthority == DriverAuthority!Spec

\* controlsd.py: the "generic catch-all" adds an event when a service is dead, slow
\* or invalid and no more specific event was added.
CatchAllCatches ==
  initialized /\ sample.canValid /\ sample.services # "ok" =>
    events \cap {"commIssue", "commIssueAvgFreq"} # {} \/ events \cap SystemEvents # {}
=============================================================================
