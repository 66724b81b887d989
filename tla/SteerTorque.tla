----------------------------- MODULE SteerTorque -----------------------------
(***************************************************************************)
(* Torque steering limits of panda/board/safety.h with the Toyota limits   *)
(* of safety_toyota.h: what happens to the steering frames (0x2E4) the     *)
(* host sends while the EPS reports its torque (0x260), the driver engages *)
(* and disengages, the host sets the safety mode and time passes.          *)
(*                                                                         *)
(* PandaSafety decides when controls are allowed; here they rise and fall  *)
(* freely.  A steering frame this module refuses is the OVER_LIMIT of that *)
(* one.  The hook runs in one interrupt, so it is one action.              *)
(***************************************************************************)
EXTENDS Integers, Sequences

CONSTANTS
  MaxSteer, MaxRateUp, MaxRateDown, MaxTorqueError, MaxRtDelta,
  MaxRtInterval,       \* time units; 250 ms in the code
  MinValidFrames,      \* frames between two cuts of the request bit
  MinValidInterval,    \* time units between two cuts; 170 ms in the code
  SampleSize,          \* values kept by a sample_t, 6 in the code
  EpsFactor,           \* toyota_dbc_eps_torque_factor, in percent
  TimerSize,           \* 2^32 in the code: where the microsecond timer wraps
  Desired,             \* torques the host may ask for
  Measured,            \* raw torques the EPS may report
  TimeCap              \* bound: the time since engagement saturates here

ASSUME LimitsAssumption ==
  /\ MaxSteer \in Nat /\ MaxRateUp \in Nat /\ MaxRateDown \in Nat
  /\ MaxTorqueError \in Nat /\ MaxRtDelta \in Nat
  /\ MaxRtInterval \in Nat /\ MinValidFrames \in Nat /\ MinValidInterval \in Nat
  /\ EpsFactor \in Nat /\ SampleSize \in Nat \ {0} /\ TimerSize \in Nat \ {0}
  /\ TimeCap \in Nat
  /\ Desired \subseteq Int /\ Measured \subseteq Int

VARIABLES
  controls_allowed,
  torque_meas,                 \* [values, min, max] of the EPS torque
  desired_torque_last, rt_torque_last,
  ts_torque_check_last, ts_steer_req_mismatch_last,
  valid_steer_req_count,
  timer,                       \* microsecond_timer_get()
  sent,                        \* history: the last torque put on the bus
  rise_from, engaged_for,      \* history: torque known at, and time since, engagement
  cut_gap, cut_elapsed         \* history: matching frames and time since the last cut

checkVars == <<desired_torque_last, rt_torque_last, ts_torque_check_last,
               ts_steer_req_mismatch_last, valid_steer_req_count>>
histVars  == <<sent, rise_from, engaged_for, cut_gap, cut_elapsed>>
vars == <<controls_allowed, torque_meas, checkVars, timer, histVars>>

Greater(a, b) == IF a > b THEN a ELSE b
Lesser(a, b)  == IF a < b THEN a ELSE b
Abs(a)        == IF a < 0 THEN -a ELSE a

\* get_ts_elapsed: unsigned subtraction, right across one wrap of the timer
Elapsed(ts_last) == (timer - ts_last) % TimerSize

Init ==
  /\ controls_allowed = FALSE
  /\ torque_meas = [values |-> [i \in 1..SampleSize |-> 0], min |-> 0, max |-> 0]
  /\ desired_torque_last = 0 /\ rt_torque_last = 0
  /\ ts_torque_check_last = 0 /\ ts_steer_req_mismatch_last = 0
  /\ valid_steer_req_count = 0
  /\ timer = 0
  /\ sent = 0 /\ rise_from = 0 /\ engaged_for = 0
  /\ cut_gap = MinValidFrames /\ cut_elapsed = MinValidInterval

-----------------------------------------------------------------------------
(* Measuring: toyota_rx_hook on 0x260                                      *)

\* C's integer division by 100 goes toward zero.
Scaled(raw) ==
  IF raw * EpsFactor < 0 THEN -((-(raw * EpsFactor)) \div 100) ELSE (raw * EpsFactor) \div 100

\* Mutant: no allowance for the rounding of Scaled.
RoundingMarginNone == 0
\* "increase torque_meas by 1 to be conservative on rounding"
RoundingMargin == 1

\* update_sample: the newest value first, min and max over all of them
UpdatedSample(s, new) ==
  LET values == [i \in 1..SampleSize |-> IF i = 1 THEN new ELSE s.values[i - 1]]
      least  == CHOOSE i \in 1..SampleSize : \A j \in 1..SampleSize : values[i] =< values[j]
      most   == CHOOSE i \in 1..SampleSize : \A j \in 1..SampleSize : values[i] >= values[j]
  IN [values |-> values,
      min |-> values[least] - RoundingMargin,
      max |-> values[most] + RoundingMargin]

RxTorqueMeas(raw) ==
  /\ torque_meas' = UpdatedSample(torque_meas, Scaled(raw))
  /\ UNCHANGED <<controls_allowed, checkVars, timer, histVars>>

-----------------------------------------------------------------------------
(* Steering: steer_torque_cmd_checks                                       *)

Outside(val, low, high) == val < low \/ val > high

\* Mutant: the limit itself is off by one.
OverLimitByOne(d) == Outside(d, -MaxSteer, MaxSteer + 1)
\* max_limit_check
OverLimit(d) == Outside(d, -MaxSteer, MaxSteer)

\* Mutant: once the measured torque is exceeded, torque may only come down in steps.
DistToMeasStepsDown(d) ==
  Outside(d,
    Greater(Lesser(desired_torque_last, 0) - MaxRateUp,
            Lesser(desired_torque_last + MaxRateDown, torque_meas.min + MaxTorqueError)),
    Lesser(Greater(desired_torque_last, 0) + MaxRateUp,
           Greater(desired_torque_last - MaxRateDown, torque_meas.max - MaxTorqueError)))

\* dist_to_meas_check: ramp from zero or from the last torque; beyond the measured
\* torque, move toward zero
DistToMeas(d) ==
  Outside(d,
    Greater(Lesser(desired_torque_last, 0) - MaxRateUp,
            Lesser(desired_torque_last + MaxRateDown, Lesser(torque_meas.min, 0) - MaxTorqueError)),
    Lesser(Greater(desired_torque_last, 0) + MaxRateUp,
           Greater(desired_torque_last - MaxRateDown, Greater(torque_meas.max, 0) + MaxTorqueError)))

\* Mutant: the real time limit is taken from the last torque.
RtRateFromLast(d) ==
  Outside(d, Lesser(desired_torque_last, 0) - MaxRtDelta,
             Greater(desired_torque_last, 0) + MaxRtDelta)

\* rt_rate_limit_check
RtRate(d) ==
  Outside(d, Lesser(rt_torque_last, 0) - MaxRtDelta, Greater(rt_torque_last, 0) + MaxRtDelta)

\* The request bit is low although torque is asked for: a cut.
SteerReqMismatch(d, req) == ~req /\ d # 0

\* Mutant: either of the two distances to the last cut is enough.
CutAllowedByEither ==
  valid_steer_req_count >= MinValidFrames
    \/ Elapsed(ts_steer_req_mismatch_last) >= MinValidInterval
\* enough recent matching frames, and not cut too recently
CutAllowed ==
  /\ valid_steer_req_count >= MinValidFrames
  /\ Elapsed(ts_steer_req_mismatch_last) >= MinValidInterval

Violation(d, req) ==
  \/ controls_allowed /\ (OverLimit(d) \/ DistToMeas(d) \/ RtRate(d))
  \/ ~controls_allowed /\ d # 0
  \/ SteerReqMismatch(d, req) /\ ~CutAllowed

\* Mutant: a refused torque is remembered as if it had been sent.
ForgetsRefused(d, req) == ~controls_allowed
\* "reset to 0 if either controls is not allowed or there's a violation"
ResetsLimits(d, req) == Violation(d, req) \/ ~controls_allowed

TxSteer(d, req) ==
  LET refused == Violation(d, req)
      reset   == ResetsLimits(d, req)
      cut     == SteerReqMismatch(d, req)
      renew   == Elapsed(ts_torque_check_last) > MaxRtInterval
  IN /\ desired_torque_last' = IF reset THEN 0 ELSE d
     /\ rt_torque_last' = IF reset THEN 0 ELSE IF renew THEN d ELSE rt_torque_last
     /\ ts_torque_check_last' = IF reset \/ renew THEN timer ELSE ts_torque_check_last
     /\ ts_steer_req_mismatch_last' =
          IF reset \/ cut THEN timer ELSE ts_steer_req_mismatch_last
     /\ valid_steer_req_count' =
          IF reset \/ cut THEN 0 ELSE Lesser(valid_steer_req_count + 1, MinValidFrames)
     /\ IF refused
        THEN UNCHANGED <<sent, cut_gap, cut_elapsed>>
        ELSE /\ sent' = d
             /\ cut_gap' = IF cut THEN 0 ELSE Lesser(cut_gap + 1, MinValidFrames)
             /\ cut_elapsed' = IF cut THEN 0 ELSE cut_elapsed
     /\ UNCHANGED <<controls_allowed, torque_meas, timer, rise_from, engaged_for>>

-----------------------------------------------------------------------------
(* The rest of the panda                                                   *)

\* pcm_cruise_check sees the rising edge of stock ACC.
Engage ==
  /\ ~controls_allowed
  /\ controls_allowed' = TRUE
  /\ rise_from' = Greater(Abs(sent), Abs(rt_torque_last)) /\ engaged_for' = 0
  /\ UNCHANGED <<torque_meas, checkVars, timer, sent, cut_gap, cut_elapsed>>

\* A pedal, stock ACC, a missing message or the tick takes controls away.
Disengage ==
  /\ controls_allowed
  /\ controls_allowed' = FALSE
  /\ UNCHANGED <<torque_meas, checkVars, timer, histVars>>

\* set_safety_hooks.  It clears torque_meas.max twice and torque_meas.min never.
\* The frame on the bus is not touched: sent stays.
SetSafetyHooks ==
  /\ controls_allowed' = FALSE
  /\ torque_meas' = [torque_meas EXCEPT !.max = 0]
  /\ desired_torque_last' = 0 /\ rt_torque_last' = 0
  /\ ts_torque_check_last' = 0 /\ ts_steer_req_mismatch_last' = 0
  /\ valid_steer_req_count' = 0
  /\ cut_elapsed' = MinValidInterval
  /\ UNCHANGED <<timer, sent, rise_from, engaged_for, cut_gap>>

PassTime ==
  /\ timer' = (timer + 1) % TimerSize
  /\ engaged_for' = Lesser(engaged_for + 1, TimeCap)
  /\ cut_elapsed' = Lesser(cut_elapsed + 1, MinValidInterval)
  /\ UNCHANGED <<controls_allowed, torque_meas, checkVars, sent, rise_from, cut_gap>>

Next ==
  \/ \E raw \in Measured : RxTorqueMeas(raw)
  \/ \E d \in Desired, req \in BOOLEAN : TxSteer(d, req)
  \/ Engage
  \/ Disengage
  \/ SetSafetyHooks
  \/ PassTime

Spec == Init /\ [][Next]_vars

-----------------------------------------------------------------------------
(* Properties                                                              *)

\* Torques are integers, timestamps are values of the timer, counts are bounded.
TypeOK ==
  /\ controls_allowed \in BOOLEAN
  /\ torque_meas \in [values : [1..SampleSize -> Int], min : Int, max : Int]
  /\ desired_torque_last \in -MaxSteer..MaxSteer /\ rt_torque_last \in -MaxSteer..MaxSteer
  /\ timer \in 0..(TimerSize - 1)
  /\ ts_torque_check_last \in 0..(TimerSize - 1)
  /\ ts_steer_req_mismatch_last \in 0..(TimerSize - 1)
  /\ valid_steer_req_count \in 0..MinValidFrames
  /\ sent \in -MaxSteer..MaxSteer /\ rise_from \in 0..MaxSteer /\ engaged_for \in 0..TimeCap
  /\ cut_gap \in 0..MinValidFrames /\ cut_elapsed \in 0..MinValidInterval

\* The host can always release the wheel: a frame with no torque is never refused,
\* wherever measured torque, limits and timers stand.
HostCanRelease == \A req \in BOOLEAN : ~Violation(0, req)

\* From one admitted frame to the next torque grows by at most MaxRateUp away from
\* zero, and changes sign only to within MaxRateUp of zero; refused frames, a new
\* mode or a new engagement between the two give no more.
TorqueRampsUp ==
  [][/\ sent' =< Greater(sent, 0) + MaxRateUp
     /\ sent' >= Lesser(sent, 0) - MaxRateUp]_vars

\* However fast the host sends frames, torque after an engagement grows by at most
\* MaxRtDelta per started MaxRtInterval, over one more for the first renewal of the
\* real time limit, above what the panda knew when controls rose.
TorqueRampsInRealTime ==
  controls_allowed /\ engaged_for < TimeCap =>
    Abs(sent) =< rise_from + MaxRtDelta * (2 + engaged_for \div (MaxRtInterval + 1))

\* "for a single frame": a cut is admitted only after MinValidFrames admitted frames
\* without one, and MinValidInterval after the last one of the same safety mode (a
\* new mode, whose timestamps restart at 0, has only the frames to wait for).
CutsAreSpaced ==
  (\E d \in Desired : d # 0 /\ ~Violation(d, FALSE)) =>
    cut_gap >= MinValidFrames /\ cut_elapsed >= MinValidInterval

\* The rounding of scaled torque never hides torque: the newest report lies within
\* the measured range the limits are taken from.
MeasuredRangeIsConservative ==
  [][\A raw \in Measured : RxTorqueMeas(raw) =>
       100 * torque_meas'.min =< raw * EpsFactor /\ raw * EpsFactor =< 100 * torque_meas'.max]_vars

\* safety.h: "reset state set by safety mode".  A new mode starts from no measured
\* torque, as it does from no driver torque and no measured angle.
ModeResetsMeasuredTorque ==
  [][SetSafetyHooks => torque_meas'.min = 0 /\ torque_meas'.max = 0]_vars
=============================================================================
