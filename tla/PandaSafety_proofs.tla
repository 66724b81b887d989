------------------------ MODULE PandaSafety_proofs ------------------------
(***************************************************************************)
(* Proofs about PandaSafety for every set of inputs and every timeout      *)
(* TimesAssumption allows.                                                 *)
(***************************************************************************)
EXTENDS PandaSafety, TLAPS

-----------------------------------------------------------------------------
(* Type correctness needs UnusedControlsExpire: the mismatch count grows    *)
(* only while controls are allowed, and then it is below MismatchLimit.     *)

\* What the driver's inputs guarantee between two handlers: the previous pedal
\* values are the current ones, and controls are allowed only in the car mode,
\* with stock cruise engaged and no brake in a moving car.
PedalInv ==
  /\ gas_pressed_prev = gas_pressed
  /\ brake_pressed_prev = brake_pressed
  /\ controls_allowed => /\ current_safety_mode = "TOYOTA"
                         /\ cruise_engaged_prev
                         /\ ~(brake_pressed /\ vehicle_moving)

IInv ==
  /\ TypeOK
  /\ PedalInv
  /\ UnusedControlsExpire
  /\ CarModeNeedsHeartbeat
  /\ HeldControlsAreFresh

LEMMA LeastBounds ==
  ASSUME NEW a \in Int, NEW b \in Int
  PROVE  Least(a, b) \in Int /\ Least(a, b) =< a /\ Least(a, b) =< b
         /\ (Least(a, b) = a \/ Least(a, b) = b)
BY DEF Least

\* Reading a flag of a frame gives a Boolean (for Zenon, which does not know it).
LEMMA FlagIsBoolean == ASSUME NEW x, NEW S PROVE (x \in S) \in BOOLEAN
BY SMT

LEMMA InitIInv == Init => IInv
<1> SUFFICES ASSUME Init PROVE IInv
  OBVIOUS
<1>1. SignalsOK
  <2>1. ignition_can \in BOOLEAN
    BY TimesAssumption DEF Init
  <2> QED BY <2>1 DEF Init, SignalsOK
<1>2. ModesOK /\ CountersOK
  BY TimesAssumption
     DEF Init, ModesOK, CountersOK, RegisteredModes, Params, AltExperienceSet
<1>3. PedalInv /\ UnusedControlsExpire /\ HeldControlsAreFresh
  BY DEF Init, PedalInv, UnusedControlsExpire, HeldControlsAreFresh
<1>4. CarModeNeedsHeartbeat
  BY DEF Init, CarModeNeedsHeartbeat, is_car_safety_mode
<1> QED BY <1>1, <1>2, <1>3, <1>4 DEF IInv, TypeOK

-----------------------------------------------------------------------------
(* Receiving a frame                                                       *)

\* What a receive interrupt has no part in keeps its type.
LEMMA RxKeepsOthers ==
  ASSUME IInv, NEW f \in RxFrames, RxFrame(f)
  PROVE  /\ heartbeat_lost' \in BOOLEAN /\ heartbeat_disabled' \in BOOLEAN
         /\ heartbeat_engaged' \in BOOLEAN /\ power_save_status' \in BOOLEAN
         /\ ignition_can' \in BOOLEAN /\ host_alive' \in BOOLEAN
<1>1. ignition_can' \in BOOLEAN
  <2>1. CASE f.bus = 0 /\ f.addr = "IGNITION"
    <3>1. ignition_can' = ("ON" \in f.data)
      BY <2>1 DEF RxFrame, IgnitionCanHook
    <3> QED BY <3>1, SMT
  <2>2. CASE ~(f.bus = 0 /\ f.addr = "IGNITION")
    <3>1. ignition_can' = ignition_can
      BY <2>2 DEF RxFrame, IgnitionCanHook
    <3> QED BY <3>1 DEF IInv, TypeOK, SignalsOK
  <2> QED BY <2>1, <2>2
<1> QED BY <1>1 DEF RxFrame, heartVars, outVars, IInv, TypeOK, SignalsOK

LEMMA RxFrameStep == ASSUME IInv, NEW f \in RxFrames, RxFrame(f) PROVE IInv'
<1> USE IInv, RxFrame(f)
<1> DEFINE toyota == current_safety_mode = "TOYOTA"
           sample == FrameValid(f) /\ f.bus = 0
<1>1. CASE ~toyota
  <2>1. /\ UNCHANGED <<controls_allowed, pedalVars, relay_malfunction, brake_msg, age>>
        /\ UNCHANGED <<heartbeat_engaged_mismatches, engaged_ticks>>
    BY <1>1 DEF RxFrame, SafetyRxHook
  <2>2. SignalsOK'
    BY <2>1, RxKeepsOthers DEF IInv, TypeOK, SignalsOK, pedalVars
  <2>5. ModesOK'
    BY <2>1 DEF IInv, TypeOK, ModesOK, RxFrame, modeVars
  <2>3. CountersOK'
    BY <2>1 DEF IInv, TypeOK, CountersOK, RxFrame, IgnitionCanHook, modeVars,
                heartVars, outVars
  <2>4. PedalInv' /\ UnusedControlsExpire' /\ CarModeNeedsHeartbeat' /\ HeldControlsAreFresh'
    BY <2>1 DEF IInv, PedalInv, UnusedControlsExpire, CarModeNeedsHeartbeat,
                HeldControlsAreFresh, RxFrame, modeVars, heartVars, pedalVars,
                is_car_safety_mode
  <2> QED BY <2>2, <2>3, <2>4, <2>5 DEF IInv, TypeOK
<1>2. CASE toyota
  <2>1. ToyotaRxHook(f)
    BY <1>2 DEF RxFrame, SafetyRxHook
  <2>2. SignalsOK'
    <3>1. CASE sample
      <4>1. ToyotaSample(f)
        BY <2>1, <3>1 DEF ToyotaRxHook
      <4>2. /\ gas_pressed' \in BOOLEAN /\ gas_pressed_prev' \in BOOLEAN
            /\ brake_pressed' \in BOOLEAN /\ brake_pressed_prev' \in BOOLEAN
            /\ vehicle_moving' \in BOOLEAN /\ cruise_engaged_prev' \in BOOLEAN
        <5> DEFINE gas    == IF \/ f.addr = "PCM" /\ ~gas_interceptor_detected
                                \/ f.addr = "INTERCEPTOR"
                             THEN "GAS" \in f.data ELSE gas_pressed
                   brake  == IF f.addr = BrakeAddr THEN "BRAKE" \in f.data ELSE brake_pressed
                   moving == IF f.addr = "WHEEL" THEN "MOVING" \in f.data ELSE vehicle_moving
                   cruise == IF f.addr = "PCM" THEN "CRUISE" \in f.data ELSE cruise_engaged_prev
        <5>1. gas \in BOOLEAN /\ brake \in BOOLEAN /\ moving \in BOOLEAN /\ cruise \in BOOLEAN
          BY FlagIsBoolean, Zenon DEF IInv, TypeOK, SignalsOK
        <5>2. /\ gas_pressed' = gas /\ gas_pressed_prev' = gas
              /\ brake_pressed' = brake /\ brake_pressed_prev' = brake
              /\ vehicle_moving' = moving /\ cruise_engaged_prev' = cruise
          BY <4>1, Zenon DEF ToyotaSample
        <5> HIDE DEF gas, brake, moving, cruise
        <5> QED BY <5>1, <5>2, Zenon
      <4>3. controls_allowed' \in BOOLEAN
        BY <4>1, Zenon DEF ToyotaSample, GenericRxChecks
      <4>4. relay_malfunction' \in BOOLEAN /\ gas_interceptor_detected' \in BOOLEAN
        BY <4>1, Zenon DEF ToyotaSample
      <4> QED BY <4>2, <4>3, <4>4, RxKeepsOthers DEF SignalsOK
    <3>2. CASE ~sample
      <4>1. controls_allowed' \in BOOLEAN
        BY <2>1, <3>2, Zenon DEF ToyotaRxHook
      <4>2. UNCHANGED <<pedalVars, relay_malfunction>>
        BY <2>1, <3>2 DEF ToyotaRxHook
      <4> QED BY <4>1, <4>2, RxKeepsOthers DEF IInv, TypeOK, SignalsOK, pedalVars
    <3> QED BY <3>1, <3>2
  <2>3. ModesOK'
    BY <2>1 DEF IInv, TypeOK, ModesOK, RxFrame, modeVars, ToyotaRxHook, CheckOf
  <2>4. CountersOK'
    BY <2>1, TimesAssumption DEF IInv, TypeOK, CountersOK, RxFrame, IgnitionCanHook,
       heartVars, outVars, ToyotaRxHook, SafetyRxHook
  <2>5. PedalInv'
    <3>1. CASE sample
      BY <1>2, <2>1, <3>1 DEF IInv, PedalInv, RxFrame, modeVars,
         ToyotaRxHook, ToyotaSample, GenericRxChecks, PcmCruiseCheck
    <3>2. CASE ~sample
      BY <1>2, <2>1, <3>2 DEF IInv, PedalInv, RxFrame, modeVars, ToyotaRxHook, pedalVars
    <3> QED BY <3>1, <3>2
  <2>6. UnusedControlsExpire' /\ HeldControlsAreFresh'
    <3>1. CASE controls_allowed' /\ ~controls_allowed
      BY <3>1, TimesAssumption DEF UnusedControlsExpire, HeldControlsAreFresh, RxFrame,
         SafetyRxHook
    <3>2. CASE ~(controls_allowed' /\ ~controls_allowed)
      BY <2>1, <3>2 DEF IInv, UnusedControlsExpire, HeldControlsAreFresh, RxFrame,
         SafetyRxHook, ToyotaRxHook
    <3> QED BY <3>1, <3>2
  <2>7. CarModeNeedsHeartbeat'
    BY DEF IInv, CarModeNeedsHeartbeat, RxFrame, modeVars, heartVars, is_car_safety_mode
  <2> QED BY <2>2, <2>3, <2>4, <2>5, <2>6, <2>7 DEF IInv, TypeOK
<1> QED BY <1>1, <1>2

-----------------------------------------------------------------------------
(* The timer                                                               *)

\* set_safety_hooks leaves controls off and every signal of the mode a Boolean.
LEMMA HooksSignals ==
  ASSUME NEW m, NEW p, SetSafetyHooks(m, p)
  PROVE  /\ controls_allowed' = FALSE
         /\ controls_allowed' \in BOOLEAN /\ relay_malfunction' \in BOOLEAN
         /\ gas_pressed' \in BOOLEAN /\ gas_pressed_prev' \in BOOLEAN
         /\ brake_pressed' \in BOOLEAN /\ brake_pressed_prev' \in BOOLEAN
         /\ vehicle_moving' \in BOOLEAN /\ cruise_engaged_prev' \in BOOLEAN
         /\ gas_interceptor_detected' \in BOOLEAN
BY DEF SetSafetyHooks

\* The counters every tick moves stay within their bounds.
LEMMA TickCounters ==
  ASSUME IInv, Tick
  PROVE  /\ heartbeat_counter' \in 0..MaxCount
         /\ heartbeat_engaged_mismatches' \in 0..MismatchLimit
         /\ engaged_ticks' \in 0..MismatchLimit
         /\ ignition_can_cnt' \in 0..3
         /\ age' \in [Checks -> 0..LagCap]
<1> USE TimesAssumption
<1>1. heartbeat_counter' \in 0..MaxCount /\ engaged_ticks' \in 0..MismatchLimit
  BY DEF Tick, Least, IInv, TypeOK, CountersOK
<1>2. heartbeat_engaged_mismatches' \in 0..MismatchLimit
  BY DEF Tick, MismatchesAfterTick, Unused, IInv, UnusedControlsExpire, TypeOK, CountersOK
<1>3. ignition_can_cnt' \in 0..3
  BY DEF Tick, Least, IInv, TypeOK, CountersOK
<1>4. age' \in [Checks -> 0..LagCap]
  <2>1. ASSUME NEW c \in Checks PROVE Least(age[c] + 1, LagCap) \in 0..LagCap
    BY DEF Least, IInv, TypeOK, CountersOK
  <2> QED BY <2>1 DEF Tick
<1> QED BY <1>1, <1>2, <1>3, <1>4

LEMMA TickAliveStep ==
  ASSUME IInv, Tick, TickAlive, NEW line \in CheckIgnition,
         ~HeartbeatGone(line \/ ignition_can)
  PROVE  IInv'
<1> USE IInv, Tick, TickAlive, TimesAssumption
<1>1. controls_allowed' => /\ controls_allowed
                           /\ ~(Unused /\ MismatchesAfterTick >= MismatchLimit)
                           /\ current_safety_mode = "TOYOTA" => \A c \in Checks : age[c] = 0
  BY DEF TickAlive, SafetyTick, ControlsAfterMismatch
<1>2. SignalsOK'
  <2>1. controls_allowed' \in BOOLEAN
    BY Zenon DEF TickAlive, SafetyTick
  <2>2. heartbeat_disabled' \in BOOLEAN /\ ignition_can' \in BOOLEAN
    BY Zenon DEF Tick, HeartbeatDisabledAfterTick
  <2> QED BY <2>1, <2>2 DEF TickAlive, Tick, pedalVars, IInv, TypeOK, SignalsOK
<1>3. ModesOK'
  BY DEF TickAlive, Tick, modeVars, IInv, TypeOK, ModesOK
<1>4. CountersOK'
  <2>1. safety_mode_cnt' \in 0..(RelayTransition + 1)
    BY DEF TickAlive, Least, IInv, TypeOK, CountersOK
  <2>2. controls_allowed_countdown' \in 0..CountdownStart /\ siren_countdown' \in 0..SirenTime
    BY DEF TickAlive, CountdownAfterTick, IInv, TypeOK, CountersOK
  <2> QED BY <2>1, <2>2, TickCounters DEF CountersOK
<1>5. PedalInv'
  BY <1>1 DEF TickAlive, modeVars, pedalVars, IInv, PedalInv
<1>6. UnusedControlsExpire'
  BY <1>1 DEF Tick, MismatchesAfterTick, Unused, Least, IInv, TypeOK, CountersOK,
              UnusedControlsExpire
<1>7. HeldControlsAreFresh'
  BY <1>1 DEF Tick, Least, IInv, TypeOK, CountersOK, PedalInv, HeldControlsAreFresh
<1>8. CarModeNeedsHeartbeat'
  <2>1. is_car_safety_mode(current_safety_mode) => heartbeat_counter' < HeartbeatOn
    BY DEF HeartbeatGone, HeartbeatDisabledAfterTick, Tick, Least, IInv, TypeOK, CountersOK
  <2> QED BY <2>1 DEF TickAlive, modeVars, CarModeNeedsHeartbeat, is_car_safety_mode
<1> QED BY <1>2, <1>3, <1>4, <1>5, <1>6, <1>7, <1>8 DEF IInv, TypeOK

LEMMA TickHeartbeatGoneStep == ASSUME IInv, Tick, TickHeartbeatGone PROVE IInv'
<1> USE IInv, Tick, TickHeartbeatGone, TimesAssumption
<1>1. CountersOK'
  <2>1. safety_mode_cnt' \in 0..(RelayTransition + 1)
    BY DEF TickHeartbeatGone, Least, IInv, TypeOK, CountersOK
  <2>2. controls_allowed_countdown' \in 0..CountdownStart /\ siren_countdown' \in 0..SirenTime
    BY DEF TickHeartbeatGone, IInv, TypeOK, CountersOK
  <2> QED BY <2>1, <2>2, TickCounters DEF CountersOK
<1>2. /\ heartbeat_lost' \in BOOLEAN /\ heartbeat_disabled' \in BOOLEAN
      /\ ignition_can' \in BOOLEAN
  BY Zenon DEF TickHeartbeatGone, Tick, HeartbeatDisabledAfterTick
<1>3. /\ power_save_status' \in BOOLEAN
      /\ heartbeat_engaged' \in BOOLEAN /\ host_alive' \in BOOLEAN
  BY DEF TickHeartbeatGone, Tick, IInv, TypeOK, SignalsOK
<1>4. CASE current_safety_mode # "SILENT"
  <2>1. SetSafetyHooks("SILENT", {})
    BY <1>4 DEF TickHeartbeatGone
  <2>2. SignalsOK'
    BY <1>2, <1>3, <2>1, HooksSignals DEF SignalsOK
  <2>3. ModesOK'
    BY <2>1 DEF SetSafetyHooks, RegisteredModes, Params, Tick, IInv, TypeOK, ModesOK
  <2>4. PedalInv' /\ UnusedControlsExpire' /\ HeldControlsAreFresh'
    BY <2>1 DEF SetSafetyHooks, PedalInv, UnusedControlsExpire, HeldControlsAreFresh
  <2>5. CarModeNeedsHeartbeat'
    BY <2>1 DEF SetSafetyHooks, CarModeNeedsHeartbeat, is_car_safety_mode
  <2> QED BY <1>1, <2>2, <2>3, <2>4, <2>5 DEF IInv, TypeOK
<1>5. CASE current_safety_mode = "SILENT"
  <2>1. ~controls_allowed
    BY <1>5 DEF IInv, PedalInv
  <2>2. /\ controls_allowed' = FALSE
        /\ UNCHANGED <<modeVars, pedalVars, relay_malfunction, brake_msg>>
    BY <1>5, <2>1 DEF TickHeartbeatGone, ControlsAfterMismatch
  <2>3. SignalsOK'
    BY <1>2, <1>3, <2>2 DEF pedalVars, IInv, TypeOK, SignalsOK
  <2>4. ModesOK'
    BY <2>2 DEF modeVars, Tick, IInv, TypeOK, ModesOK
  <2>5. PedalInv' /\ UnusedControlsExpire' /\ HeldControlsAreFresh'
    BY <2>2 DEF pedalVars, IInv, PedalInv, UnusedControlsExpire, HeldControlsAreFresh
  <2>6. CarModeNeedsHeartbeat'
    BY <1>5, <2>2 DEF modeVars, CarModeNeedsHeartbeat, is_car_safety_mode
  <2> QED BY <1>1, <2>3, <2>4, <2>5, <2>6 DEF IInv, TypeOK
<1> QED BY <1>4, <1>5

LEMMA TickStep == ASSUME IInv, Tick PROVE IInv'
<1> PICK line \in CheckIgnition :
      IF HeartbeatGone(line \/ ignition_can) THEN TickHeartbeatGone ELSE TickAlive
  BY DEF Tick
<1> QED BY TickAliveStep, TickHeartbeatGoneStep

-----------------------------------------------------------------------------
(* Control requests                                                        *)

LEMMA SetSafetyModeStep ==
  ASSUME IInv, NEW r \in Requests, SetSafetyMode(r)
  PROVE  IInv'
<1> USE IInv, SetSafetyMode(r), TimesAssumption
<1> DEFINE m == IF r.mode \in RegisteredModes THEN r.mode ELSE "SILENT"
           p == IF r.mode \in RegisteredModes THEN r.param ELSE {}
<1>1. SetSafetyHooks(m, p)
  BY DEF SetSafetyMode
<1>2. m \in RegisteredModes /\ p \in Params
  BY InputsAssumption DEF RequestSet, RegisteredModes, Params
<1>3. is_car_safety_mode(m) => heartbeat_counter' = 0
  BY DEF SetSafetyMode
<1>4. heartbeat_counter' \in 0..MaxCount
  <2>1. heartbeat_counter' = 0 \/ heartbeat_counter' = heartbeat_counter
    BY DEF SetSafetyMode
  <2> QED BY <2>1 DEF IInv, TypeOK, CountersOK
<1>10. heartbeat_lost' \in BOOLEAN
  <2>1. heartbeat_lost' = FALSE \/ heartbeat_lost' = heartbeat_lost
    BY DEF SetSafetyMode
  <2> QED BY <2>1, Zenon DEF IInv, TypeOK, SignalsOK
<1> HIDE DEF m, p
<1>5. SignalsOK'
  BY <1>1, <1>10, HooksSignals
     DEF SetSafetyMode, outVars, ignVars, IInv, TypeOK, SignalsOK
<1>6. ModesOK'
  BY <1>1, <1>2 DEF SetSafetyHooks, SetSafetyMode, IInv, TypeOK, ModesOK
<1>7. CountersOK'
  BY <1>4 DEF SetSafetyMode, outVars, ignVars, IInv, TypeOK, CountersOK
<1>8. PedalInv' /\ UnusedControlsExpire' /\ HeldControlsAreFresh'
  BY <1>1 DEF SetSafetyHooks, PedalInv, UnusedControlsExpire, HeldControlsAreFresh
<1>9. CarModeNeedsHeartbeat'
  BY <1>1, <1>3 DEF SetSafetyHooks, CarModeNeedsHeartbeat, is_car_safety_mode
<1> QED BY <1>5, <1>6, <1>7, <1>8, <1>9 DEF IInv, TypeOK

\* Heartbeats, alternative experiences, the heartbeat switch, power save and host
\* faults keep the mode, the pedals and what the driver allowed.
LEMMA OtherRequestStep ==
  ASSUME IInv,
         \/ \E e \in BOOLEAN : Heartbeat(e)
         \/ \E a \in AltExperiences : SetAlternativeExperience(a)
         \/ DisableHeartbeat
         \/ \E s \in BOOLEAN : SetPowerSaveState(s)
         \/ HostFault
         \/ UNCHANGED vars
  PROVE  IInv'
<1> USE IInv
<1>1. UNCHANGED <<modeVars, pedalVars, controlVars, ignVars, relay_malfunction, brake_msg, age,
                  safety_mode_cnt, controls_allowed_countdown, siren_countdown>>
  BY DEF Heartbeat, SetAlternativeExperience, DisableHeartbeat, SetPowerSaveState, HostFault,
         vars, modeVars, outVars
<1>2. heartbeat_counter' = 0 \/ heartbeat_counter' = heartbeat_counter
  BY DEF Heartbeat, SetAlternativeExperience, DisableHeartbeat, SetPowerSaveState, HostFault,
         vars, heartVars
<1>3. heartbeat_engaged' \in BOOLEAN
  BY DEF Heartbeat, SetAlternativeExperience, DisableHeartbeat, SetPowerSaveState, HostFault,
         vars, heartVars, IInv, TypeOK, SignalsOK
<1>4. power_save_status' \in BOOLEAN
  BY DEF Heartbeat, SetAlternativeExperience, DisableHeartbeat, SetPowerSaveState, HostFault,
         vars, outVars, IInv, TypeOK, SignalsOK
<1>5. heartbeat_lost' \in BOOLEAN /\ heartbeat_disabled' \in BOOLEAN
  BY DEF Heartbeat, SetAlternativeExperience, DisableHeartbeat, SetPowerSaveState, HostFault,
         vars, heartVars, IInv, TypeOK, SignalsOK
<1>6. host_alive' \in BOOLEAN
  <2>1. host_alive' = host_alive \/ host_alive' = ~host_alive
    BY DEF Heartbeat, SetAlternativeExperience, DisableHeartbeat, SetPowerSaveState, HostFault,
           vars
  <2> QED BY <2>1, Zenon DEF IInv, TypeOK, SignalsOK
<1>7. alternative_experience' \in AltExperienceSet
  BY InputsAssumption
     DEF Heartbeat, SetAlternativeExperience, DisableHeartbeat, SetPowerSaveState, HostFault,
         vars, IInv, TypeOK, ModesOK
<1>8. SignalsOK'
  BY <1>1, <1>3, <1>4, <1>5, <1>6
     DEF pedalVars, ignVars, controlVars, IInv, TypeOK, SignalsOK
<1>9. ModesOK'
  BY <1>1, <1>7 DEF modeVars, IInv, TypeOK, ModesOK
<1>10. CountersOK'
  BY <1>1, <1>2, TimesAssumption DEF ignVars, controlVars, IInv, TypeOK, CountersOK
<1>11. PedalInv' /\ UnusedControlsExpire' /\ HeldControlsAreFresh'
  BY <1>1 DEF modeVars, pedalVars, controlVars, IInv, PedalInv, UnusedControlsExpire,
              HeldControlsAreFresh
<1>12. CarModeNeedsHeartbeat'
  BY <1>1, <1>2, TimesAssumption DEF modeVars, IInv, CarModeNeedsHeartbeat, is_car_safety_mode
<1> QED BY <1>8, <1>9, <1>10, <1>11, <1>12 DEF IInv, TypeOK

LEMMA NextIInv == IInv /\ [Next]_vars => IInv'
<1> SUFFICES ASSUME IInv, [Next]_vars PROVE IInv'
  OBVIOUS
<1>1. CASE \E f \in RxFrames : RxFrame(f)
  BY <1>1, RxFrameStep
<1>2. CASE Tick
  BY <1>2, TickStep
<1>3. CASE \E r \in Requests : SetSafetyMode(r)
  BY <1>3, SetSafetyModeStep
<1>4. CASE \/ \E e \in BOOLEAN : Heartbeat(e)
           \/ \E a \in AltExperiences : SetAlternativeExperience(a)
           \/ DisableHeartbeat
           \/ \E s \in BOOLEAN : SetPowerSaveState(s)
           \/ HostFault
           \/ UNCHANGED vars
  BY <1>4, OtherRequestStep
<1> QED BY <1>1, <1>2, <1>3, <1>4 DEF Next, Host

-----------------------------------------------------------------------------
(* Theorems                                                                *)

\* The inductive invariant holds in every reachable state.
THEOREM Invariance == Spec => []IInv
<1>1. Init => IInv
  BY InitIInv
<1>2. IInv /\ [Next]_vars => IInv'
  BY NextIInv
<1> QED BY <1>1, <1>2, PTL DEF Spec

\* Every state variable stays within its declared values and bounds: no counter of
\* the tick handler exceeds the timeout it is compared with.
THEOREM TypeCorrect == Spec => []TypeOK
<1>1. IInv => TypeOK
  BY DEF IInv
<1> QED BY <1>1, Invariance, PTL

\* safety_tx_hook lets the host move the car only under the driver's and the
\* heartbeat's authority, unless the relay malfunctions.
THEOREM Authority == Spec => []ActuationAuthority
<1>1. ASSUME IInv PROVE ActuationAuthority
  <2> SUFFICES ASSUME ~relay_malfunction, NEW f \in TxFrames, Actuates(f), CanSendAdmits(f)
               PROVE  /\ cruise_engaged_prev
                      /\ ~(brake_pressed /\ vehicle_moving)
                      /\ f.addr \in {"ACCEL", "GAS"} => ~gas_pressed
                      /\ heartbeat_counter < HeartbeatOn
                      /\ heartbeat_engaged_mismatches < MismatchLimit
    BY DEF ActuationAuthority
  <2>1. CurrentTxHook(f)
    BY DEF CanSendAdmits, SafetyTxHook
  <2>2. current_safety_mode = "TOYOTA" /\ ToyotaTxHook(f)
    BY <2>1 DEF CurrentTxHook, Actuates
  <2>3. /\ controls_allowed
        /\ f.addr \in {"ACCEL", "GAS"} => ~gas_pressed_prev
    BY <2>2 DEF ToyotaTxHook, ToyotaTxMsgs, Actuates, get_longitudinal_allowed
  <2>4. heartbeat_counter < HeartbeatOn
    BY <1>1, <2>2 DEF IInv, CarModeNeedsHeartbeat, is_car_safety_mode
  <2> QED BY <1>1, <2>3, <2>4 DEF IInv, PedalInv, UnusedControlsExpire
<1> QED BY <1>1, Invariance, PTL

\* Controls the host leaves unused are gone within MismatchLimit ticks, and a new
\* engagement never inherits older mismatches.
THEOREM UnusedExpires == Spec => []UnusedControlsExpire
<1>1. IInv => UnusedControlsExpire
  BY DEF IInv
<1> QED BY <1>1, Invariance, PTL

\* A car mode never outlives the heartbeat, whatever the host disabled before.
THEOREM HeartbeatGuardsCarMode == Spec => []CarModeNeedsHeartbeat
<1>1. IInv => CarModeNeedsHeartbeat
  BY DEF IInv
<1> QED BY <1>1, Invariance, PTL

\* Controls that survived a tick rest on messages no older than the tick before.
THEOREM FreshControls == Spec => []HeldControlsAreFresh
<1>1. IInv => HeldControlsAreFresh
  BY DEF IInv
<1> QED BY <1>1, Invariance, PTL

\* The lost heartbeat is declared by a tick only, and by the one that restarts the
\* countdown: with controls allowed until then the siren sounds its full time.
LEMMA SirenStep ==
  ASSUME Next, controls_allowed, ~heartbeat_lost, heartbeat_lost'
  PROVE  siren_countdown' = SirenTime
<1> USE controls_allowed, ~heartbeat_lost, heartbeat_lost'
<1>1. ASSUME NEW f \in RxFrames, RxFrame(f) PROVE FALSE
  <2>1. heartbeat_lost' = heartbeat_lost
    BY <1>1 DEF RxFrame, heartVars
  <2> QED BY <2>1
<1>2. CASE Tick
  <2>1. CountdownAfterTick > 0
    BY TimesAssumption DEF CountdownAfterTick
  <2>2. ASSUME TickAlive PROVE FALSE
    BY <2>2 DEF TickAlive
  <2>3. CASE TickHeartbeatGone
    BY <2>1, <2>3 DEF TickHeartbeatGone
  <2> QED BY <1>2, <2>2, <2>3 DEF Tick
<1>3. ASSUME Host PROVE FALSE
  BY <1>3 DEF Host, SetSafetyMode, Heartbeat, SetAlternativeExperience, DisableHeartbeat,
              SetPowerSaveState, heartVars
<1>4. ASSUME HostFault PROVE FALSE
  BY <1>4 DEF HostFault, heartVars
<1> QED BY <1>1, <1>2, <1>3, <1>4 DEF Next

\* When the heartbeat is declared lost while controls are allowed, the siren sounds:
\* for every timeout, and although the same tick may withdraw the controls first.
THEOREM LostHeartbeatSounds == Spec => SirenOnLostControls
<1>1. [Next]_vars =>
        [controls_allowed /\ ~heartbeat_lost /\ heartbeat_lost'
           => siren_countdown' = SirenTime]_vars
  BY SirenStep
<1> QED BY <1>1, PTL DEF Spec, SirenOnLostControls

\* No step gives controls while stock cruise is seen engaged.
LEMMA LockedOut ==
  ASSUME Next, ~controls_allowed, cruise_engaged_prev
  PROVE  ~controls_allowed'
<1> USE Next, ~controls_allowed, cruise_engaged_prev
<1>1. CASE \E f \in RxFrames : RxFrame(f)
  <2> PICK f \in RxFrames : RxFrame(f)
    BY <1>1
  <2>1. CASE current_safety_mode # "TOYOTA"
    BY <2>1 DEF RxFrame, SafetyRxHook
  <2>2. CASE current_safety_mode = "TOYOTA"
    <3>1. ToyotaRxHook(f)
      BY <2>2 DEF RxFrame, SafetyRxHook
    <3>2. CASE FrameValid(f) /\ f.bus = 0
      BY <3>1, <3>2 DEF ToyotaRxHook, ToyotaSample, GenericRxChecks, PcmCruiseCheck
    <3>3. CASE ~(FrameValid(f) /\ f.bus = 0)
      BY <3>1, <3>3 DEF ToyotaRxHook
    <3> QED BY <3>2, <3>3
  <2> QED BY <2>1, <2>2
<1>2. CASE Tick
  BY <1>2 DEF Tick, TickAlive, TickHeartbeatGone, SafetyTick, ControlsAfterMismatch,
                    SetSafetyHooks
<1>3. CASE Host
  BY <1>3 DEF Host, SetSafetyMode, SetSafetyHooks, Heartbeat, SetAlternativeExperience,
                    DisableHeartbeat, SetPowerSaveState, controlVars
<1>4. CASE HostFault
  BY <1>4 DEF HostFault, controlVars
<1> QED BY <1>1, <1>2, <1>3, <1>4 DEF Next

\* The panda implements Authority for every set of inputs and every timeout: it
\* allows controls only on a rising edge of stock cruise, never without it, and
\* does not allow them again before stock cruise was seen off.
THEOREM Implements == Spec => ImplementsAuthority
<1>1. Init => DriverAuthority!Init
  BY DEF Init, DriverAuthority!Init
<1>2. ASSUME IInv, IInv', [Next]_vars
      PROVE  [DriverAuthority!Next]_<<cruise_engaged_prev, controls_allowed>>
  <2>1. controls_allowed => cruise_engaged_prev
    BY <1>2 DEF IInv, PedalInv
  <2>2. controls_allowed' => cruise_engaged_prev'
    BY <1>2 DEF IInv, PedalInv
  <2>3. /\ controls_allowed \in BOOLEAN /\ cruise_engaged_prev \in BOOLEAN
        /\ controls_allowed' \in BOOLEAN /\ cruise_engaged_prev' \in BOOLEAN
    BY <1>2 DEF IInv, TypeOK, SignalsOK
  <2>4. CASE Next
    <3>1. ~controls_allowed /\ cruise_engaged_prev => ~controls_allowed'
      BY <2>4, LockedOut
    <3> QED BY <2>1, <2>2, <2>3, <3>1, Zenon
            DEF DriverAuthority!Next, DriverAuthority!CruiseOn, DriverAuthority!Withdraw,
                DriverAuthority!CruiseOff
  <2>5. CASE UNCHANGED vars
    BY <2>5 DEF vars, pedalVars, controlVars
  <2> QED BY <1>2, <2>4, <2>5
<1> QED BY <1>1, <1>2, Invariance, PTL DEF Spec, ImplementsAuthority, DriverAuthority!Spec
=============================================================================
