------------------------ MODULE ControlsState_proofs ------------------------
(***************************************************************************)
(* Proofs about ControlsState for every set of samples and settings, every *)
(* soft disable time and every mismatch limit.                             *)
(***************************************************************************)
EXTENDS ControlsState, TLAPS

-----------------------------------------------------------------------------
(* The invariant: the flags follow the state, nothing engages before        *)
(* initialisation or in a dashcam, and enabled implies stock cruise.        *)

FlagsInv ==
  /\ enabled = (state \in ENABLED_STATES) /\ active = (state \in ACTIVE_STATES)
  /\ enabled => initialized /\ ~CP.read_only /\ sample.cruiseEnabled
  /\ state # "softDisabling" => soft_for = 0

\* No command against the accelerator, and no engagement in motion under the brake.
PedalInv ==
  /\ longActive => ~sample.gasPressed
  /\ active /\ CP.disengage_on_accelerator => ~sample.gasPressed
  /\ enabled => ~(sample.brakePressed /\ ~sample.standstill)

IInv ==
  /\ TypeOK
  /\ FlagsInv
  /\ SoftDisableIsBounded
  /\ PandaVetoEndsEngagement
  /\ PedalInv

LEMMA InitIInv == Init => IInv
<1> SUFFICES ASSUME Init PROVE IInv
  OBVIOUS
<1>1. NothingReceived \in SampleSet
  BY DEF NothingReceived, SampleSet, PandaStates, ServiceStates
<1>2. TypeOK
  <2>1. CP \in ConfigSet /\ sample \in SampleSet /\ events \in SUBSET AllEvents
    BY <1>1, ControlsAssumption DEF Init
  <2>2. /\ frame \in 0..(InitFrames + 1) /\ mismatch_counter \in 0..MismatchLimit
        /\ soft_disable_timer \in 0..SoftDisableFrames /\ soft_for \in 0..SoftDisableFrames
    BY ControlsAssumption DEF Init
  <2>3. /\ initialized \in BOOLEAN /\ enabled \in BOOLEAN /\ active \in BOOLEAN
        /\ latActive \in BOOLEAN /\ longActive \in BOOLEAN /\ state \in States
    BY DEF Init, States
  <2> QED BY <2>1, <2>2, <2>3 DEF TypeOK
<1>3. FlagsInv
  <2>1. ~enabled /\ ~active /\ state \notin ENABLED_STATES /\ state \notin ACTIVE_STATES
    BY DEF Init, ENABLED_STATES, ACTIVE_STATES
  <2>2. enabled \in BOOLEAN /\ active \in BOOLEAN /\ soft_for = 0
    BY DEF Init
  <2>3. (state \in ENABLED_STATES) \in BOOLEAN /\ (state \in ACTIVE_STATES) \in BOOLEAN
    BY SMT
  <2> QED BY <2>1, <2>2, <2>3, Zenon DEF FlagsInv
<1>4. SoftDisableIsBounded /\ PandaVetoEndsEngagement /\ PedalInv
  BY DEF Init, SoftDisableIsBounded, PandaVetoEndsEngagement, PedalInv
<1> QED BY <1>2, <1>3, <1>4 DEF IInv

-----------------------------------------------------------------------------
(* The state machine                                                       *)

LEMMA NextStateType == ASSUME state \in States PROVE NextState \in States
BY DEF NextState, FromDisabled, FromPreEnabled, FromActive, FromSoftDisabling, States

\* An event that disables at once and blocks entry leaves the machine disabled.
LEMMA VetoDisables ==
  ASSUME state \in States,
         NEW e \in events', e \in USER_DISABLE \cup IMMEDIATE_DISABLE, e \in NO_ENTRY
  PROVE  NextState = "disabled"
<1>1. Any(NO_ENTRY) /\ (Any(USER_DISABLE) \/ Any(IMMEDIATE_DISABLE))
  BY DEF Any
<1>2. CASE state = "disabled"
  BY <1>1, <1>2 DEF NextState, FromDisabled
<1>3. CASE state # "disabled"
  BY <1>1, <1>3 DEF NextState
<1> QED BY <1>2, <1>3

\* The vetoes the properties are about.
LEMMA Vetoes ==
  \A e \in {"pedalPressed", "canError", "controlsMismatch", "relayMalfunction"} :
    e \in USER_DISABLE \cup IMMEDIATE_DISABLE /\ e \in NO_ENTRY
BY DEF USER_DISABLE, IMMEDIATE_DISABLE, NO_ENTRY

\* pcmDisable ends an engagement, and nothing starts one but pcmEnable.
LEMMA CruiseDecides ==
  ASSUME state \in States
  PROVE  /\ state = "disabled" /\ "pcmEnable" \notin events' => NextState = "disabled"
         /\ state # "disabled" /\ "pcmDisable" \in events' => NextState = "disabled"
<1>1. "pcmEnable" \notin events' => ~Any(ENABLE)
  BY DEF Any, ENABLE
<1>2. "pcmDisable" \in events' => Any(USER_DISABLE)
  BY DEF Any, USER_DISABLE
<1> QED BY <1>1, <1>2 DEF NextState, FromDisabled

-----------------------------------------------------------------------------
(* One step                                                                *)

\* controlsd is enabled after a step only if the step ran the state machine on
\* the events of a started controlsd.
LEMMA EnabledRanMachine ==
  ASSUME IInv, NEW in \in Samples, Step(in), enabled'
  PROVE  /\ StateTransition /\ initialized' /\ ~CP.read_only
         /\ events' = PedalEvents(in) \cup CarEventsOf(in) \cup PandaEvents(in)
                      \cup ServiceEventsOf(in) \cup CatchAllEvents(in)
<1>1. CASE ~CP.read_only /\ initialized'
  BY <1>1 DEF Step, UpdateEvents
<1>2. CASE ~(~CP.read_only /\ initialized')
  <2>1. enabled
    BY <1>2 DEF Step, machineVars
  <2>2. initialized' /\ ~CP.read_only
    BY <2>1 DEF IInv, FlagsInv, Step, DataSample
  <2> QED BY <1>2, <2>2
<1> QED BY <1>1, <1>2

LEMMA SampleTypes ==
  ASSUME IInv, NEW in \in Samples, Step(in)
  PROVE  in \in SampleSet /\ sample' = in /\ CP' = CP
BY ControlsAssumption DEF Step, DataSample

LEMMA EventsType ==
  ASSUME IInv, NEW in \in Samples, Step(in)
  PROVE  events' \subseteq AllEvents
<1>1. in.faults \subseteq ServiceEvents /\ in.carEvents \subseteq CarEvents
  BY SampleTypes DEF SampleSet
<1>2. PedalEvents(in) \subseteq AllEvents
  BY DEF PedalEvents, AllEvents, USER_DISABLE, PRE_ENABLE, OVERRIDE
<1>3. CarEventsOf(in) \subseteq AllEvents
  BY <1>1 DEF CarEventsOf, CruiseEvents, AllEvents, USER_DISABLE, ENABLE, IMMEDIATE_DISABLE
<1>4. PandaEvents(in) \subseteq AllEvents
  BY DEF PandaEvents, AllEvents, IMMEDIATE_DISABLE
<1>5. ServiceEventsOf(in) \subseteq AllEvents
  BY <1>1 DEF ServiceEventsOf, AllEvents
<1>6. CatchAllEvents(in) \subseteq AllEvents
  BY DEF CatchAllEvents, AllEvents, SOFT_DISABLE
<1>7. "controlsInitializing" \in AllEvents
  BY DEF AllEvents
<1>8. UpdateEvents(in)
  BY DEF Step
<1> QED BY <1>2, <1>3, <1>4, <1>5, <1>6, <1>7, <1>8 DEF UpdateEvents

LEMMA FlagsStep ==
  ASSUME IInv, NEW in \in Samples, Step(in)
  PROVE  /\ state' \in States
         /\ enabled' = (state' \in ENABLED_STATES) /\ active' = (state' \in ACTIVE_STATES)
<1>1. CASE StateTransition
  BY <1>1, NextStateType DEF IInv, TypeOK, StateTransition
<1>2. CASE UNCHANGED machineVars
  BY <1>2 DEF IInv, TypeOK, FlagsInv, machineVars
<1> QED BY <1>1, <1>2 DEF Step

\* The mismatch counter stays below the limit while enabled, so it ends at it.
LEMMA MismatchStep ==
  ASSUME IInv, NEW in \in Samples, Step(in)
  PROVE  /\ mismatch_counter' \in 0..MismatchLimit
         /\ enabled /\ mismatch_counter' = MismatchLimit => in.panda # "none"
         /\ ~enabled => mismatch_counter' = 0
<1>1. mismatch_counter \in 0..MismatchLimit /\ (enabled => mismatch_counter < MismatchLimit)
  BY DEF IInv, TypeOK, PandaVetoEndsEngagement
<1>2. mismatch_counter' = MismatchesAfter(in)
  BY DEF Step, DataSample
<1>3. MismatchLimit \in Nat \ {0}
  BY ControlsAssumption
<1>4. Withheld(in) => in.panda # "none"
  BY DEF Withheld
<1> QED BY <1>1, <1>2, <1>3, <1>4 DEF MismatchesAfter

LEMMA VetoStep ==
  ASSUME IInv, NEW in \in Samples, Step(in), enabled'
  PROVE  {"pedalPressed", "canError", "controlsMismatch", "relayMalfunction"} \cap events' = {}
<1>1. state' = NextState /\ state' # "disabled" /\ state \in States
  BY EnabledRanMachine, FlagsStep
     DEF StateTransition, ENABLED_STATES, ACTIVE_STATES, IInv, TypeOK
<1> SUFFICES ASSUME NEW e \in events',
                    e \in {"pedalPressed", "canError", "controlsMismatch", "relayMalfunction"}
             PROVE  FALSE
  OBVIOUS
<1>2. e \in USER_DISABLE \cup IMMEDIATE_DISABLE /\ e \in NO_ENTRY
  BY Vetoes
<1> QED BY <1>1, <1>2, VetoDisables

\* Time spent and time left in softDisabling add up.
LEMMA SoftStep ==
  ASSUME IInv, NEW in \in Samples, Step(in)
  PROVE  /\ SoftDisableIsBounded'
         /\ soft_disable_timer' \in 0..SoftDisableFrames
         /\ soft_for' \in 0..SoftDisableFrames
         /\ state' # "softDisabling" => soft_for' = 0
<1>1. /\ soft_disable_timer \in 0..SoftDisableFrames /\ soft_for \in 0..SoftDisableFrames
      /\ state \in States /\ SoftDisableIsBounded
      /\ state # "softDisabling" => soft_for = 0
  BY DEF IInv, TypeOK, FlagsInv
<1>2. SoftDisableFrames \in Nat \ {0}
  BY ControlsAssumption
<1>3. CASE StateTransition
  <2>1. /\ soft_disable_timer' = IF state' = "softDisabling" /\ state # "softDisabling"
                                 THEN SoftDisableFrames ELSE TimerLeft
        /\ soft_for' = IF state' = "softDisabling" THEN soft_for + 1 ELSE 0
    BY <1>3 DEF StateTransition
  <2>2. state = "softDisabling" /\ state' = "softDisabling" => TimerLeft > 0
    BY <1>3 DEF StateTransition, NextState, FromSoftDisabling
  <2>3. /\ TimerLeft \in 0..SoftDisableFrames
        /\ TimerLeft > 0 => TimerLeft = soft_disable_timer - 1
    BY <1>1, <1>2 DEF TimerLeft
  <2> QED BY <1>1, <1>2, <2>1, <2>2, <2>3 DEF SoftDisableIsBounded
<1>4. CASE UNCHANGED machineVars
  BY <1>1, <1>4 DEF machineVars, SoftDisableIsBounded
<1> QED BY <1>3, <1>4 DEF Step

LEMMA TypeStep ==
  ASSUME IInv, NEW in \in Samples, Step(in)
  PROVE  TypeOK'
<1>1. CP' \in ConfigSet /\ sample' \in SampleSet /\ events' \in SUBSET AllEvents
  BY SampleTypes, EventsType DEF IInv, TypeOK
<1>2. frame' \in 0..(InitFrames + 1)
  BY ControlsAssumption DEF IInv, TypeOK, Step, DataSample, AtMost
<1>3. initialized' \in BOOLEAN
  BY Zenon DEF Step, DataSample
<1>4. enabled' \in BOOLEAN /\ active' \in BOOLEAN /\ state' \in States
  <2>1. (state' \in ENABLED_STATES) \in BOOLEAN /\ (state' \in ACTIVE_STATES) \in BOOLEAN
    BY SMT
  <2> QED BY <2>1, FlagsStep, Zenon
<1>5. latActive' \in BOOLEAN /\ longActive' \in BOOLEAN
  BY Zenon DEF Step, StateControl
<1> QED BY <1>1, <1>2, <1>3, <1>4, <1>5, SoftStep, MismatchStep DEF TypeOK

\* enabled goes with stock cruise, across every step.
LEMMA CruiseStep ==
  ASSUME IInv, NEW in \in Samples, Step(in), enabled'
  PROVE  /\ in.cruiseEnabled
         /\ enabled \/ ~sample.cruiseEnabled
<1>1. state' = NextState /\ state' # "disabled" /\ state \in States
  BY EnabledRanMachine, FlagsStep
     DEF StateTransition, ENABLED_STATES, ACTIVE_STATES, IInv, TypeOK
<1>2. in.canValid
  BY EnabledRanMachine, VetoStep DEF CarEventsOf
<1>3. ~in.cruiseEnabled => "pcmDisable" \in events'
  BY <1>2, EnabledRanMachine DEF CarEventsOf, CruiseEvents
<1>4. state # "disabled" => enabled
  BY <1>1 DEF IInv, FlagsInv, ENABLED_STATES, ACTIVE_STATES, States
<1>5. CASE state = "disabled"
  <2>1. "pcmEnable" \in events'
    BY <1>1, <1>5, CruiseDecides
  <2>2. in.carEvents \subseteq CarEvents /\ in.faults \subseteq ServiceEvents
    BY SampleTypes DEF SampleSet
  <2>3. "pcmEnable" \in CruiseEvents(in)
    BY <1>2, <2>1, <2>2, EnabledRanMachine
       DEF PedalEvents, CarEventsOf, CarEvents, PandaEvents, ServiceEventsOf, ServiceEvents,
           SystemEvents, CatchAllEvents
  <2> QED BY <2>3 DEF CruiseEvents
<1>6. CASE state # "disabled"
  BY <1>1, <1>3, <1>4, <1>6, CruiseDecides
<1> QED BY <1>5, <1>6

LEMMA FlagsInvStep ==
  ASSUME IInv, NEW in \in Samples, Step(in)
  PROVE  FlagsInv'
<1>1. enabled' => initialized' /\ ~CP'.read_only /\ sample'.cruiseEnabled
  BY EnabledRanMachine, CruiseStep, SampleTypes
<1> QED BY <1>1, FlagsStep, SoftStep DEF FlagsInv

LEMMA PandaStep ==
  ASSUME IInv, NEW in \in Samples, Step(in)
  PROVE  PandaVetoEndsEngagement'
<1> SUFFICES ASSUME enabled'
             PROVE  /\ mismatch_counter' < MismatchLimit
                    /\ in.panda \notin {"silent", "other", "relayFault"}
  BY SampleTypes DEF PandaVetoEndsEngagement
<1>1. "controlsMismatch" \notin PandaEvents(in) /\ "relayMalfunction" \notin PandaEvents(in)
  BY EnabledRanMachine, VetoStep
<1>2. in.panda \notin {"silent", "other", "relayFault"}
  BY <1>1 DEF PandaEvents
<1>3. in.panda # "none" => ~(mismatch_counter' >= MismatchLimit)
  BY <1>1 DEF PandaEvents
<1>4. MismatchLimit \in Nat \ {0}
  BY ControlsAssumption
<1>5. mismatch_counter' # MismatchLimit
  <2>1. CASE enabled
    BY <1>3, <1>4, <2>1, MismatchStep
  <2>2. CASE ~enabled
    BY <1>4, <2>2, MismatchStep
  <2> QED BY <2>1, <2>2
<1> QED BY <1>2, <1>4, <1>5, MismatchStep

LEMMA PedalStep ==
  ASSUME IInv, NEW in \in Samples, Step(in)
  PROVE  PedalInv'
<1>1. active' => enabled'
  BY FlagsStep DEF ENABLED_STATES
<1>2. ASSUME enabled' PROVE ~(in.brakePressed /\ ~in.standstill)
  BY <1>2, EnabledRanMachine, VetoStep DEF PedalEvents
<1>3. ASSUME active', CP.disengage_on_accelerator PROVE ~in.gasPressed
  <2> SUFFICES ASSUME in.gasPressed PROVE FALSE
    OBVIOUS
  <2>1. /\ "pedalPressedPreEnable" \in events' /\ "pedalPressed" \notin events'
        /\ StateTransition
    BY <1>1, <1>3, EnabledRanMachine, VetoStep DEF PedalEvents
  <2>2. sample.gasPressed
    BY <1>1, <1>3, <2>1, EnabledRanMachine DEF PedalEvents
  <2>3. ~active /\ state \in States
    BY <1>3, <2>2 DEF IInv, PedalInv, TypeOK
  <2>4. state \in {"disabled", "preEnabled"}
    BY <2>3 DEF IInv, FlagsInv, ACTIVE_STATES, States
  <2>5. Any(PRE_ENABLE)
    BY <2>1 DEF Any, PRE_ENABLE
  <2>6. NextState \in {"disabled", "preEnabled"}
    BY <2>4, <2>5 DEF NextState, FromDisabled, FromPreEnabled
  <2>7. state' \in {"disabled", "preEnabled"}
    BY <2>1, <2>6 DEF StateTransition
  <2> QED BY <1>3, <2>7, FlagsStep DEF ACTIVE_STATES
<1>4. ASSUME longActive' PROVE ~in.gasPressed
  <2>1. active' /\ ~Any(OVERRIDE)
    BY <1>4 DEF Step, StateControl, LongReady
  <2>2. "gasPressedOverride" \notin events'
    BY <2>1 DEF Any, OVERRIDE
  <2> QED BY <1>1, <1>3, <2>1, <2>2, EnabledRanMachine DEF PedalEvents
<1>5. sample' = in /\ CP' = CP
  BY SampleTypes
<1> QED BY <1>2, <1>3, <1>4, <1>5 DEF PedalInv

LEMMA NextIInv == IInv /\ [Next]_vars => IInv'
<1> SUFFICES ASSUME IInv, [Next]_vars PROVE IInv'
  OBVIOUS
<1>1. ASSUME NEW in \in Samples, Step(in) PROVE IInv'
  BY <1>1, TypeStep, FlagsInvStep, SoftStep, PandaStep, PedalStep DEF IInv
<1>2. CASE UNCHANGED vars
  BY <1>2 DEF vars, samplingVars, machineVars, IInv, TypeOK, FlagsInv, SoftDisableIsBounded,
              PandaVetoEndsEngagement, PedalInv
<1> QED BY <1>1, <1>2 DEF Next

\* The invariant holds in every reachable state.
THEOREM Invariance == Spec => []IInv
BY InitIInv, NextIInv, PTL DEF Spec

-----------------------------------------------------------------------------
(* The properties                                                          *)

\* Every variable of controlsd keeps its type and its bound.
THEOREM TypeCorrect == Spec => []TypeOK
<1>1. IInv => TypeOK
  BY DEF IInv
<1> QED BY <1>1, Invariance, PTL

\* softDisabling lasts at most SoftDisableFrames, whatever that is.
THEOREM SoftDisableEnds == Spec => []SoftDisableIsBounded
<1>1. IInv => SoftDisableIsBounded
  BY DEF IInv
<1> QED BY <1>1, Invariance, PTL

\* The panda's veto ends an engagement, for every mismatch limit.
THEOREM PandaVeto == Spec => []PandaVetoEndsEngagement
<1>1. IInv => PandaVetoEndsEngagement
  BY DEF IInv
<1> QED BY <1>1, Invariance, PTL

\* The driver's pedals win, with every setting and combination of events: no gas
\* or brake command against the accelerator, no steering against the brake, and no
\* engagement under the brake but one held, in a car standing still, since before.
THEOREM PedalsWin == Spec => PedalsHaveAuthority
<1> DEFINE Win ==
      /\ longActive' => ~sample'.gasPressed
      /\ active' /\ CP.disengage_on_accelerator => ~sample'.gasPressed
      /\ latActive' => ~sample'.brakePressed
      /\ enabled' /\ sample'.brakePressed => sample'.standstill /\ sample.brakePressed
<1>1. ASSUME IInv, NEW in \in Samples, Step(in) PROVE Win
  <2>1. sample' = in /\ CP' = CP
    BY <1>1, SampleTypes
  <2>2. longActive' => ~in.gasPressed
    BY <1>1, <2>1, PedalStep DEF PedalInv
  <2>3. active' /\ CP.disengage_on_accelerator => ~in.gasPressed
    BY <1>1, <2>1, PedalStep DEF PedalInv
  <2>4. enabled' /\ in.brakePressed => in.standstill /\ sample.brakePressed
    BY <1>1, EnabledRanMachine, VetoStep DEF PedalEvents
  <2>5. latActive' => enabled' /\ ~in.standstill
    BY <1>1, FlagsStep DEF Step, StateControl, ENABLED_STATES
  <2> QED BY <2>1, <2>2, <2>3, <2>4, <2>5
<1>2. IInv /\ [Next]_vars => [Win]_vars
  BY <1>1 DEF Next
<1> QED BY <1>2, Invariance, PTL DEF Spec, PedalsHaveAuthority

\* controlsd implements Authority: it engages only with a rising edge of stock
\* cruise, never without it, and not again before stock cruise cycled.
THEOREM Implements == Spec => ImplementsAuthority
<1>1. Init => DriverAuthority!Init
  BY DEF Init, DriverAuthority!Init, NothingReceived
<1>2. ASSUME IInv, IInv', [Next]_vars
      PROVE  [DriverAuthority!Next]_<<sample.cruiseEnabled, enabled>>
  <2>1. /\ enabled => sample.cruiseEnabled
        /\ enabled' => sample'.cruiseEnabled
    BY <1>2 DEF IInv, FlagsInv
  <2>2. /\ enabled \in BOOLEAN /\ sample.cruiseEnabled \in BOOLEAN
        /\ enabled' \in BOOLEAN /\ sample'.cruiseEnabled \in BOOLEAN
    BY <1>2 DEF IInv, TypeOK, SampleSet
  <2>3. ASSUME NEW in \in Samples, Step(in)
        PROVE  [DriverAuthority!Next]_<<sample.cruiseEnabled, enabled>>
    <3>1. enabled' => enabled \/ ~sample.cruiseEnabled
      BY <1>2, <2>3, CruiseStep
    <3> QED BY <2>1, <2>2, <3>1, Zenon
            DEF DriverAuthority!Next, DriverAuthority!CruiseOn, DriverAuthority!Withdraw,
                DriverAuthority!CruiseOff
  <2>4. CASE UNCHANGED vars
    BY <2>4 DEF vars, machineVars
  <2> QED BY <1>2, <2>3, <2>4 DEF Next
<1> QED BY <1>1, <1>2, Invariance, PTL DEF Spec, ImplementsAuthority, DriverAuthority!Spec

\* An engagement starts with nothing that ends it: for the event tables as they
\* are, and every sample in which speedTooLow comes with belowEngageSpeed.
THEOREM EngagementIsStable == Spec => EngagesOnlyWhenStable
<1> DEFINE Ending == USER_DISABLE \cup IMMEDIATE_DISABLE \cup SOFT_DISABLE
<1>1. ASSUME IInv, NEW in \in Samples, Step(in), ~enabled, enabled'
      PROVE  events' \cap Ending = {}
  <2>1. state = "disabled" /\ state' = NextState /\ state' # "disabled"
    BY <1>1, EnabledRanMachine, FlagsStep
       DEF StateTransition, ENABLED_STATES, ACTIVE_STATES, IInv, FlagsInv, TypeOK, States
  <2>2. ~Any(NO_ENTRY) /\ "pcmEnable" \in events'
    BY <2>1 DEF NextState, FromDisabled, Any, ENABLE
  <2> SUFFICES ASSUME NEW e \in events', e \in Ending PROVE FALSE
    OBVIOUS
  <2>3. e \in {"speedTooLow", "pcmDisable"}
    BY <2>2 DEF Any, NO_ENTRY
  <2>4. in.canValid /\ in.cruiseEnabled
    BY <1>1, CruiseStep, EnabledRanMachine, VetoStep DEF CarEventsOf
  <2>5. in.faults \subseteq ServiceEvents /\ in.carEvents \subseteq CarEvents
    BY <1>1, SampleTypes DEF SampleSet
  <2>6. e \in CarEventsOf(in)
    BY <1>1, <2>3, <2>5, EnabledRanMachine
       DEF PedalEvents, PandaEvents, ServiceEventsOf, ServiceEvents, SystemEvents, CatchAllEvents
  <2>7. e \in in.carEvents \/ e \in CruiseEvents(in)
    BY <2>4, <2>6 DEF CarEventsOf
  <2>8. e = "speedTooLow" /\ e \in in.carEvents
    BY <2>3, <2>4, <2>5, <2>7 DEF CruiseEvents, CarEvents
  <2>9. "belowEngageSpeed" \in events'
    BY <1>1, <2>4, <2>8, ControlsAssumption, EnabledRanMachine DEF CarEventsOf
  <2> QED BY <2>2, <2>9 DEF Any, NO_ENTRY
<1>2. IInv /\ [Next]_vars => [~enabled /\ enabled' => events' \cap Ending = {}]_vars
  BY <1>1 DEF Next
<1> QED BY <1>2, Invariance, PTL DEF Spec, EngagesOnlyWhenStable
=============================================================================
