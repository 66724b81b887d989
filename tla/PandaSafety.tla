---------------------------- MODULE PandaSafety ----------------------------
(***************************************************************************)
(* The safety layer of the panda firmware: panda/board/safety.h, the       *)
(* Toyota safety mode (panda/board/safety/safety_toyota.h), the 8 Hz timer *)
(* of panda/board/main.c and the control requests of main_comms.h that     *)
(* change its state.                                                       *)
(*                                                                         *)
(* Every handler runs in an interrupt of one priority, so a handler is one *)
(* atomic action: RxFrame for the CAN receive interrupt, Tick for the      *)
(* timer (the 1 Hz part of it), one action per control request.            *)
(*                                                                         *)
(* Time is counted in ticks.  A monitored message is lagging when it was   *)
(* last received before the previous tick: every threshold of              *)
(* toyota_addr_checks is max(10 * expected_timestep, 1 s) = 1 s.           *)
(***************************************************************************)
EXTENDS Integers, FiniteSets

CONSTANTS
  RxFrames,            \* frames the CAN buses may deliver
  TxFrames,            \* frames the host may ask to transmit
  Requests,            \* safety modes the host may ask for: [mode, param]
  AltExperiences,      \* alternative experiences the host may ask for
  CheckIgnition,       \* what current_board->check_ignition() may return
  HeartbeatOn,         \* HEARTBEAT_IGNITION_CNT_ON, 5 in the code
  HeartbeatOff,        \* HEARTBEAT_IGNITION_CNT_OFF, 2 in the code
  MaxCount,            \* __UINT32_MAX__, where heartbeat_counter saturates
  MismatchLimit,       \* 3: ticks of unused controls before they are dropped
  CountdownStart,      \* 30: controls_allowed_countdown after engagement
  SirenTime,           \* 5: siren_countdown once the heartbeat is lost
  RelayTransition,     \* RELAY_TRNS_TIMEOUT, 1 in the code
  LagCap,              \* bound: ages of monitored messages saturate here
  Pyboard              \* the PYBOARD build: main() starts with the ignition forced on

ASSUME TimesAssumption ==
  /\ HeartbeatOff \in Nat \ {0} /\ HeartbeatOn \in Nat
  /\ HeartbeatOff =< HeartbeatOn
  /\ MaxCount \in Nat /\ HeartbeatOn =< MaxCount
  /\ MismatchLimit \in Nat \ {0}
  /\ CountdownStart \in Nat \ {0} /\ SirenTime \in Nat \ {0}
  /\ RelayTransition \in Nat /\ LagCap \in Nat \ {0} /\ Pyboard \in BOOLEAN

-----------------------------------------------------------------------------
(* Safety modes, frames and requests.  ALLOUTPUT is registered only in      *)
(* debug builds; the other car modes share every path of TOYOTA here.       *)

RegisteredModes == {"SILENT", "NOOUTPUT", "ELM327", "TOYOTA"}
is_car_safety_mode(m) == m \notin {"SILENT", "NOOUTPUT", "ALLOUTPUT", "ELM327"}

Params == SUBSET {"ALT_BRAKE", "STOCK_LONGITUDINAL"}
RequestSet == [mode : RegisteredModes \cup {"ALLOUTPUT"}, param : Params]
AltExperienceSet == SUBSET {"NO_DISENGAGE_ON_GAS"}

\* 0xAA, 0x260, 0x1D2, 0x224, 0x226, 0x201, 0x2E4, the frames ignition is read from, the rest
RxAddrs == {"WHEEL", "EPS", "PCM", "BRAKE224", "BRAKE226", "INTERCEPTOR", "STEER",
            "IGNITION", "OTHER"}
\* What the hooks read from a frame's bytes; BADSUM is a wrong checksum.
RxFlags == {"MOVING", "CRUISE", "GAS", "BRAKE", "ON", "BADSUM"}
RxFrameSet == [bus : 0..2, addr : RxAddrs, data : SUBSET RxFlags]

\* 0x2E4, 0x343, 0x200, 0x283, 0x191, 0x1D2, the DSU frames of bus 1, ISO 15765-4, the rest
TxAddrs == {"STEER", "ACCEL", "GAS", "AEB", "LTA", "PCM", "DSU1", "OBD", "OTHER"}
\* OVER_LIMIT: refused by max_limit_check or by steer_torque_cmd_checks (module SteerTorque).
TxFlags == {"NONZERO", "OVER_LIMIT", "CANCEL"}
TxFrameSet == [bus : 0..2, addr : TxAddrs, data : SUBSET TxFlags]

ASSUME InputsAssumption ==
  /\ RxFrames \subseteq RxFrameSet /\ TxFrames \subseteq TxFrameSet
  /\ Requests \subseteq RequestSet /\ AltExperiences \subseteq AltExperienceSet
  /\ CheckIgnition \subseteq BOOLEAN

\* The four entries of toyota_addr_checks.
Checks == {"WHEEL", "EPS", "PCM", "BRAKE"}

-----------------------------------------------------------------------------
VARIABLES
  current_safety_mode, current_safety_param,
  controls_allowed, relay_malfunction,
  gas_pressed, gas_pressed_prev, brake_pressed, brake_pressed_prev,
  vehicle_moving, cruise_engaged_prev, gas_interceptor_detected,
  brake_msg,           \* which of 0x224/0x226 the fourth check follows (index, msg_seen)
  age,                 \* last_timestamp of each check, in ticks
  safety_mode_cnt,     \* saturates at RelayTransition + 1
  alternative_experience,
  heartbeat_counter, heartbeat_lost, heartbeat_disabled,
  heartbeat_engaged, heartbeat_engaged_mismatches,
  controls_allowed_countdown, siren_countdown,
  power_save_status,
  ignition_can, ignition_can_cnt,
  host_alive,          \* boardd runs and reaches the panda
  engaged_ticks        \* history: ticks since controls_allowed last rose

modeVars    == <<current_safety_mode, current_safety_param>>
pedalVars   == <<gas_pressed, gas_pressed_prev, brake_pressed, brake_pressed_prev,
                 vehicle_moving, cruise_engaged_prev, gas_interceptor_detected>>
heartVars   == <<heartbeat_counter, heartbeat_lost, heartbeat_disabled, heartbeat_engaged>>
outVars     == <<controls_allowed_countdown, siren_countdown, power_save_status>>
ignVars     == <<ignition_can, ignition_can_cnt>>
controlVars == <<controls_allowed, heartbeat_engaged_mismatches, engaged_ticks>>
vars == <<modeVars, pedalVars, heartVars, outVars, ignVars, controlVars, relay_malfunction,
          brake_msg, age, safety_mode_cnt, alternative_experience, host_alive>>

Least(a, b) == IF a < b THEN a ELSE b

-----------------------------------------------------------------------------
(* State set by a safety mode                                              *)

\* set_safety_hooks(m, p): everything a mode owns goes back to its default.
SetSafetyHooks(m, p) ==
  /\ current_safety_mode' = m /\ current_safety_param' = p
  /\ relay_malfunction' = FALSE
  /\ gas_interceptor_detected' = FALSE
  /\ gas_pressed' = FALSE /\ gas_pressed_prev' = FALSE
  /\ brake_pressed' = FALSE /\ brake_pressed_prev' = FALSE
  /\ cruise_engaged_prev' = FALSE /\ vehicle_moving' = FALSE
  /\ controls_allowed' = FALSE
  /\ brake_msg' = IF m = "TOYOTA" THEN "none" ELSE brake_msg

Init ==
  /\ current_safety_mode = "SILENT" /\ current_safety_param = {}
  /\ controls_allowed = FALSE /\ relay_malfunction = FALSE
  /\ gas_pressed = FALSE /\ gas_pressed_prev = FALSE
  /\ brake_pressed = FALSE /\ brake_pressed_prev = FALSE
  /\ vehicle_moving = FALSE /\ cruise_engaged_prev = FALSE
  /\ gas_interceptor_detected = FALSE
  /\ brake_msg = "none" /\ age = [c \in Checks |-> 0]
  /\ safety_mode_cnt = 0 /\ alternative_experience = {}
  /\ heartbeat_counter = 0 /\ heartbeat_lost = FALSE /\ heartbeat_disabled = FALSE
  /\ heartbeat_engaged = FALSE /\ heartbeat_engaged_mismatches = 0
  /\ controls_allowed_countdown = 0 /\ siren_countdown = 0
  /\ power_save_status = FALSE
  /\ ignition_can = Pyboard /\ ignition_can_cnt = 0
  /\ host_alive = TRUE /\ engaged_ticks = 0

-----------------------------------------------------------------------------
(* Receiving a frame                                                       *)

\* get_addr_check_index: the check a frame belongs to, "none" for -1.  The
\* fourth check follows whichever of its two messages it sees first.
CheckOf(f) ==
  IF f.bus # 0 THEN "none"
  ELSE IF f.addr \in {"WHEEL", "EPS", "PCM"} THEN f.addr
  ELSE IF f.addr \in {"BRAKE224", "BRAKE226"} /\ brake_msg \in {"none", f.addr} THEN "BRAKE"
  ELSE "none"

\* addr_safety_check: only 0x260 and 0x1D2 carry a checksum, no Toyota frame a counter.
FrameValid(f) == ~(CheckOf(f) \in {"EPS", "PCM"} /\ "BADSUM" \in f.data)

\* Mutant: the level of stock ACC enters, not its rising edge.
PcmCruiseCheckOnLevel(allowed, engaged) == engaged

\* pcm_cruise_check: enter on the rising edge of stock ACC, exit while it is off.
PcmCruiseCheck(allowed, engaged) == engaged /\ (allowed \/ ~cruise_engaged_prev)

\* Mutant: a brake already held when the car starts to move no longer counts.
GenericRxChecksEdgeOnly(allowed, gas, brake, moving) ==
  /\ allowed
  /\ ~(gas /\ ~gas_pressed_prev /\ "NO_DISENGAGE_ON_GAS" \notin alternative_experience)
  /\ ~(brake /\ ~brake_pressed_prev)

\* generic_rx_checks, with the pedals as this frame leaves them.
GenericRxChecks(allowed, gas, brake, moving) ==
  /\ allowed
  /\ ~(gas /\ ~gas_pressed_prev /\ "NO_DISENGAGE_ON_GAS" \notin alternative_experience)
  /\ ~(brake /\ (~brake_pressed_prev \/ moving))

\* Which frames toyota_rx_hook samples the brake from.
BrakeAddr == IF "ALT_BRAKE" \in current_safety_param THEN "BRAKE224" ELSE "BRAKE226"

\* The part of toyota_rx_hook that runs for a valid frame of bus 0.
ToyotaSample(f) ==
  LET gas    == IF \/ f.addr = "PCM" /\ ~gas_interceptor_detected
                   \/ f.addr = "INTERCEPTOR"
                THEN "GAS" \in f.data ELSE gas_pressed
      brake  == IF f.addr = BrakeAddr THEN "BRAKE" \in f.data ELSE brake_pressed
      moving == IF f.addr = "WHEEL" THEN "MOVING" \in f.data ELSE vehicle_moving
      cruise == IF f.addr = "PCM" THEN "CRUISE" \in f.data ELSE cruise_engaged_prev
      pcm    == IF f.addr = "PCM" THEN PcmCruiseCheck(controls_allowed, cruise)
                ELSE controls_allowed
  IN /\ gas_pressed' = gas /\ gas_pressed_prev' = gas
     /\ brake_pressed' = brake /\ brake_pressed_prev' = brake
     /\ vehicle_moving' = moving /\ cruise_engaged_prev' = cruise
     /\ gas_interceptor_detected' = (gas_interceptor_detected \/ f.addr = "INTERCEPTOR")
     /\ controls_allowed' = GenericRxChecks(pcm, gas, brake, moving)
     /\ relay_malfunction' = (\/ relay_malfunction
                              \/ safety_mode_cnt > RelayTransition /\ f.addr = "STEER")

ToyotaRxHook(f) ==
  /\ age' = [c \in Checks |-> IF c = CheckOf(f) THEN 0 ELSE age[c]]
  /\ brake_msg' = IF CheckOf(f) = "BRAKE" THEN f.addr ELSE brake_msg
  /\ IF FrameValid(f) /\ f.bus = 0
     THEN ToyotaSample(f)
     ELSE /\ controls_allowed' = (controls_allowed /\ FrameValid(f))
          /\ UNCHANGED <<pedalVars, relay_malfunction>>

\* Mutant: the mismatch count survives a new engagement.
SafetyRxHookKeepsMismatches(f) ==
  /\ IF current_safety_mode = "TOYOTA"
     THEN ToyotaRxHook(f)
     ELSE UNCHANGED <<controls_allowed, pedalVars, relay_malfunction, brake_msg, age>>
  /\ engaged_ticks' = IF controls_allowed' /\ ~controls_allowed THEN 0 ELSE engaged_ticks
  /\ UNCHANGED heartbeat_engaged_mismatches

\* safety_rx_hook: a rising edge of controls_allowed restarts the mismatch count.
SafetyRxHook(f) ==
  /\ IF current_safety_mode = "TOYOTA"
     THEN ToyotaRxHook(f)
     ELSE UNCHANGED <<controls_allowed, pedalVars, relay_malfunction, brake_msg, age>>
  /\ IF controls_allowed' /\ ~controls_allowed
     THEN heartbeat_engaged_mismatches' = 0 /\ engaged_ticks' = 0
     ELSE UNCHANGED <<heartbeat_engaged_mismatches, engaged_ticks>>

\* ignition_can_hook
IgnitionCanHook(f) ==
  /\ ignition_can_cnt' = 0
  /\ ignition_can' = IF f.bus = 0 /\ f.addr = "IGNITION" THEN "ON" \in f.data
                     ELSE ignition_can

\* can_rx without the queues: the receive interrupt of one frame.
RxFrame(f) ==
  /\ SafetyRxHook(f)
  /\ IgnitionCanHook(f)
  /\ UNCHANGED <<modeVars, heartVars, outVars, safety_mode_cnt, alternative_experience,
                 host_alive>>

-----------------------------------------------------------------------------
(* Transmitting a frame: what can_send() does with it                      *)

get_longitudinal_allowed == controls_allowed /\ ~gas_pressed_prev

ToyotaTxMsgs ==
  {<<a, 0>> : a \in {"STEER", "ACCEL", "GAS", "AEB", "LTA", "PCM"}} \cup {<<"DSU1", 1>>}

ToyotaTxHook(f) ==
  LET nonzero == "NONZERO" \in f.data
      stock   == "STOCK_LONGITUDINAL" \in current_safety_param
  IN /\ <<f.addr, f.bus>> \in ToyotaTxMsgs
     /\ f.bus = 0 =>
          /\ f.addr = "GAS"   => (nonzero => get_longitudinal_allowed)
          /\ f.addr = "ACCEL" => /\ nonzero => get_longitudinal_allowed /\ ~stock
                                 /\ stock => "CANCEL" \in f.data
                                 /\ "OVER_LIMIT" \notin f.data
          /\ f.addr \in {"AEB", "LTA"} => ~nonzero
          /\ f.addr = "STEER" => /\ nonzero => controls_allowed
                                 /\ "OVER_LIMIT" \notin f.data

\* current_hooks->tx of the registered modes
CurrentTxHook(f) ==
  CASE current_safety_mode = "TOYOTA" -> ToyotaTxHook(f)
    [] current_safety_mode = "ELM327" -> f.addr = "OBD"
    [] OTHER -> FALSE

SafetyTxHook(f) == IF relay_malfunction THEN -1 ELSE IF CurrentTxHook(f) THEN 1 ELSE 0

\* can_send queues the frame when the hook's result is not 0.
CanSendAdmits(f) == SafetyTxHook(f) # 0

-----------------------------------------------------------------------------
(* The 1 Hz part of tick_handler                                           *)

\* exit controls allowed if unused by openpilot for a few seconds
Unused == controls_allowed /\ ~heartbeat_engaged
MismatchesAfterTick == IF Unused THEN heartbeat_engaged_mismatches + 1 ELSE 0
\* Mutant: one mismatch too many.
ControlsAfterMismatchLate == controls_allowed /\ ~(Unused /\ MismatchesAfterTick > MismatchLimit)
ControlsAfterMismatch == controls_allowed /\ ~(Unused /\ MismatchesAfterTick >= MismatchLimit)

\* Mutant: the countdown is not restarted while controls are allowed.
CountdownNotRestarted ==
  IF controls_allowed_countdown > 0 THEN controls_allowed_countdown - 1 ELSE 0

CountdownAfterTick ==
  IF controls_allowed THEN CountdownStart
  ELSE IF controls_allowed_countdown > 0 THEN controls_allowed_countdown - 1 ELSE 0

\* Mutant: a disabled heartbeat stays disabled in a car mode.
HeartbeatStaysDisabled == heartbeat_disabled
HeartbeatDisabledAfterTick == heartbeat_disabled /\ ~is_car_safety_mode(current_safety_mode)

HeartbeatGone(ignition) ==
  /\ ~HeartbeatDisabledAfterTick
  /\ Least(heartbeat_counter + 1, MaxCount) >= IF ignition THEN HeartbeatOn ELSE HeartbeatOff

\* Mutant: off by one tick.
SafetyTickLate(m, allowed) == allowed /\ (m = "TOYOTA" => \A c \in Checks : age[c] =< 1)

\* safety_tick, on the checks of mode m: a lagging message takes controls away.
SafetyTick(m, allowed) == allowed /\ (m = "TOYOTA" => \A c \in Checks : age[c] = 0)

\* The heartbeat is there, or is not asked for.
TickAlive ==
  /\ controls_allowed' = SafetyTick(current_safety_mode, ControlsAfterMismatch)
  /\ controls_allowed_countdown' = CountdownAfterTick
  /\ siren_countdown' = IF siren_countdown > 0 THEN siren_countdown - 1 ELSE 0
  /\ safety_mode_cnt' = Least(safety_mode_cnt + 1, RelayTransition + 1)
  /\ UNCHANGED <<modeVars, pedalVars, relay_malfunction, brake_msg, heartbeat_lost,
                 power_save_status>>

\* No heartbeat for a while: SILENT mode, power save, and the siren if the
\* driver had controls engaged within the last CountdownStart seconds.
TickHeartbeatGone ==
  /\ siren_countdown' = IF CountdownAfterTick > 0 THEN SirenTime
                        ELSE IF siren_countdown > 0 THEN siren_countdown - 1 ELSE 0
  /\ controls_allowed_countdown' = 0
  /\ heartbeat_lost' = (heartbeat_lost \/ is_car_safety_mode(current_safety_mode))
  /\ power_save_status' = TRUE
  /\ IF current_safety_mode # "SILENT"
     THEN /\ SetSafetyHooks("SILENT", {})
          /\ safety_mode_cnt' = 1
     ELSE /\ controls_allowed' = ControlsAfterMismatch
          /\ safety_mode_cnt' = Least(safety_mode_cnt + 1, RelayTransition + 1)
          /\ UNCHANGED <<modeVars, pedalVars, relay_malfunction, brake_msg>>

Tick ==
  /\ \E line \in CheckIgnition :
       IF HeartbeatGone(line \/ ignition_can) THEN TickHeartbeatGone ELSE TickAlive
  /\ heartbeat_counter' = Least(heartbeat_counter + 1, MaxCount)
  /\ heartbeat_disabled' = HeartbeatDisabledAfterTick
  /\ heartbeat_engaged_mismatches' = MismatchesAfterTick
  /\ engaged_ticks' = Least(engaged_ticks + 1, MismatchLimit)
  /\ ignition_can' = (ignition_can /\ ignition_can_cnt =< 2)
  /\ ignition_can_cnt' = Least(ignition_can_cnt + 1, 3)
  /\ age' = [c \in Checks |-> Least(age[c] + 1, LagCap)]
  /\ UNCHANGED <<heartbeat_engaged, alternative_experience, host_alive>>

-----------------------------------------------------------------------------
(* Control requests of the host (comms_control_handler)                    *)

\* 0xdc: an unregistered mode falls back to SILENT.
SetSafetyMode(r) ==
  LET m == IF r.mode \in RegisteredModes THEN r.mode ELSE "SILENT"
      p == IF r.mode \in RegisteredModes THEN r.param ELSE {}
  IN /\ SetSafetyHooks(m, p)
     /\ safety_mode_cnt' = 0
     /\ IF m = "ELM327" \/ is_car_safety_mode(m)
        THEN heartbeat_counter' = 0 /\ heartbeat_lost' = FALSE
        ELSE UNCHANGED <<heartbeat_counter, heartbeat_lost>>
     /\ UNCHANGED <<heartbeat_disabled, heartbeat_engaged, heartbeat_engaged_mismatches,
                    engaged_ticks, outVars, ignVars, age, alternative_experience, host_alive>>

\* 0xf3
Heartbeat(engaged) ==
  /\ heartbeat_counter' = 0 /\ heartbeat_lost' = FALSE
  /\ heartbeat_disabled' = FALSE /\ heartbeat_engaged' = engaged
  /\ UNCHANGED <<modeVars, pedalVars, controlVars, outVars, ignVars, relay_malfunction,
                 brake_msg, age, safety_mode_cnt, alternative_experience, host_alive>>

\* 0xdf: only in a non-car safety mode
SetAlternativeExperience(e) ==
  /\ ~is_car_safety_mode(current_safety_mode)
  /\ alternative_experience' = e
  /\ UNCHANGED <<modeVars, pedalVars, heartVars, outVars, ignVars, controlVars,
                 relay_malfunction, brake_msg, age, safety_mode_cnt, host_alive>>

\* 0xf8: only in a non-car safety mode
DisableHeartbeat ==
  /\ ~is_car_safety_mode(current_safety_mode)
  /\ heartbeat_disabled' = TRUE
  /\ UNCHANGED <<modeVars, pedalVars, heartbeat_counter, heartbeat_lost, heartbeat_engaged,
                 outVars, ignVars, controlVars, relay_malfunction, brake_msg, age,
                 safety_mode_cnt, alternative_experience, host_alive>>

\* 0xe7
SetPowerSaveState(enabled) ==
  /\ power_save_status' = enabled
  /\ UNCHANGED <<modeVars, pedalVars, heartVars, controls_allowed_countdown, siren_countdown,
                 ignVars, controlVars, relay_malfunction, brake_msg, age, safety_mode_cnt,
                 alternative_experience, host_alive>>

Host ==
  /\ host_alive
  /\ \/ \E r \in Requests : SetSafetyMode(r)
     \/ \E e \in BOOLEAN : Heartbeat(e)
     \/ \E a \in AltExperiences : SetAlternativeExperience(a)
     \/ DisableHeartbeat
     \/ \E s \in BOOLEAN : SetPowerSaveState(s)

\* boardd dies, hangs or loses USB, and may come back.
HostFault ==
  /\ host_alive' = ~host_alive
  /\ UNCHANGED <<modeVars, pedalVars, heartVars, outVars, ignVars, controlVars,
                 relay_malfunction, brake_msg, age, safety_mode_cnt, alternative_experience>>

Next ==
  \/ \E f \in RxFrames : RxFrame(f)
  \/ Tick
  \/ Host
  \/ HostFault

Spec == Init /\ [][Next]_vars

\* The timer interrupt keeps firing whatever the buses and the host do.
FairSpec == Spec /\ WF_vars(Tick)

-----------------------------------------------------------------------------
(* Properties                                                              *)

SignalsOK ==
  /\ controls_allowed \in BOOLEAN /\ relay_malfunction \in BOOLEAN
  /\ gas_pressed \in BOOLEAN /\ gas_pressed_prev \in BOOLEAN
  /\ brake_pressed \in BOOLEAN /\ brake_pressed_prev \in BOOLEAN
  /\ vehicle_moving \in BOOLEAN /\ cruise_engaged_prev \in BOOLEAN
  /\ gas_interceptor_detected \in BOOLEAN
  /\ heartbeat_lost \in BOOLEAN /\ heartbeat_disabled \in BOOLEAN
  /\ heartbeat_engaged \in BOOLEAN
  /\ power_save_status \in BOOLEAN /\ ignition_can \in BOOLEAN /\ host_alive \in BOOLEAN

ModesOK ==
  /\ current_safety_mode \in RegisteredModes
  /\ current_safety_param \in Params
  /\ alternative_experience \in AltExperienceSet
  /\ brake_msg \in {"none", "BRAKE224", "BRAKE226"}

CountersOK ==
  /\ age \in [Checks -> 0..LagCap]
  /\ safety_mode_cnt \in 0..(RelayTransition + 1)
  /\ heartbeat_counter \in 0..MaxCount
  /\ heartbeat_engaged_mismatches \in 0..MismatchLimit
  /\ engaged_ticks \in 0..MismatchLimit
  /\ controls_allowed_countdown \in 0..CountdownStart
  /\ siren_countdown \in 0..SirenTime
  /\ ignition_can_cnt \in 0..3

\* Every state variable stays within its declared values and bounds.
TypeOK == SignalsOK /\ ModesOK /\ CountersOK

Actuates(f) == f.addr \in {"STEER", "ACCEL", "GAS", "AEB", "LTA"} /\ "NONZERO" \in f.data

\* Whatever sequence of frames, ticks and requests led here: unless the relay
\* malfunctions, a frame that moves the car is admitted only while stock cruise
\* is engaged, the driver does not brake a moving car (nor press the gas, for a
\* longitudinal frame), the host's heartbeat is recent, and the host has not
\* left controls unused for MismatchLimit ticks.
ActuationAuthority ==
  ~relay_malfunction =>
    \A f \in TxFrames : Actuates(f) /\ CanSendAdmits(f) =>
      /\ cruise_engaged_prev
      /\ ~(brake_pressed /\ vehicle_moving)
      /\ f.addr \in {"ACCEL", "GAS"} => ~gas_pressed
      /\ heartbeat_counter < HeartbeatOn
      /\ heartbeat_engaged_mismatches < MismatchLimit

\* Controls the host does not use expire within MismatchLimit ticks, and a new
\* engagement is never cut short by mismatches counted before it (the "rare race
\* condition" safety_rx_hook resets the count for).
UnusedControlsExpire ==
  controls_allowed => /\ heartbeat_engaged_mismatches < MismatchLimit
                      /\ heartbeat_engaged_mismatches =< engaged_ticks

\* No car mode outlives the heartbeat, even if heartbeat checks were disabled
\* before the mode was set.
CarModeNeedsHeartbeat ==
  is_car_safety_mode(current_safety_mode) => heartbeat_counter < HeartbeatOn

\* Controls that have survived a tick rest on messages seen since the tick before.
HeldControlsAreFresh ==
  controls_allowed /\ engaged_ticks > 0 => \A c \in Checks : age[c] =< 1

\* The panda implements Authority: controls are entered only as stock cruise is
\* seen to engage, and what takes them away (a pedal, a lagging message, a bad
\* checksum, an absent host) keeps them away until stock cruise was seen off or
\* the safety mode was set again: not a released pedal, nor a heartbeat, nor a
\* message that stopped lagging.
DriverAuthority ==
  INSTANCE Authority WITH cruise <- cruise_engaged_prev, authority <- controls_allowed
ImplementsAuthority == DriverAuthority!Spec

\* When the heartbeat is declared lost while controls are allowed, the siren sounds.
SirenOnLostControls ==
  [][controls_allowed /\ ~heartbeat_lost /\ heartbeat_lost'
       => siren_countdown' = SirenTime]_vars

\* A host that stays away loses the car mode (FairSpec).
LostHostLeavesCarMode ==
  ~host_alive ~> (host_alive \/ ~is_car_safety_mode(current_safety_mode))

\* panda/tests/safety/common.py: under a relay malfunction "both tx_hook and
\* fwd_hook are expected to return failure".  can_send takes the failure -1 for a
\* permission.
RelayMalfunctionBlocksTx ==
  relay_malfunction => \A f \in TxFrames : ~CanSendAdmits(f)

\* safety.h on safety_tick: "2s of lag is worse case".  Controls can be entered
\* while a message has been missing for longer: entry does not look at lagging.
LagIsAtMostTwoSeconds ==
  controls_allowed => \A c \in Checks : age[c] =< 2
=============================================================================
