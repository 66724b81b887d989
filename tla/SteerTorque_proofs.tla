------------------------- MODULE SteerTorque_proofs -------------------------
(***************************************************************************)
(* Proofs about SteerTorque for all limits, torques, sample sizes and      *)
(* timer widths.                                                           *)
(***************************************************************************)
EXTENDS SteerTorque, TLAPS, WellFoundedInduction

-----------------------------------------------------------------------------
(* Arithmetic                                                              *)

\* Every non-empty set of naturals has a least element.
LEMMA LeastNatural ==
  ASSUME NEW S, S \subseteq Nat, S # {}
  PROVE  \E m \in S : \A k \in S : m =< k
<1>1. IsWellFoundedOn(OpToRel(<, Nat), Nat)
  BY NatLessThanWellFounded
<1>2. PICK m \in S : \A k \in S : ~(<<k, m>> \in OpToRel(<, Nat))
  BY <1>1, WFMin
<1>3. \A k \in S : ~(k < m)
  BY <1>2 DEF OpToRel
<1> QED BY <1>3

\* A list of integers that is not empty has a least element: were there lengths for
\* which it had none, the smallest of them would have one.
LEMMA LeastOfList ==
  ASSUME NEW n \in Nat \ {0}, NEW v \in [1..n -> Int]
  PROVE  \E i \in 1..n : \A j \in 1..n : v[i] =< v[j]
<1> DEFINE HasLeast(k) == \E i \in 1..k : \A j \in 1..k : v[i] =< v[j]
           Bad == {k \in 1..n : ~HasLeast(k)}
<1>1. ASSUME Bad # {} PROVE FALSE
  <2> HIDE DEF HasLeast
  <2>1. PICK k \in Bad : \A l \in Bad : k =< l
    <3>1. Bad \subseteq Nat
      OBVIOUS
    <3> QED BY <1>1, <3>1, LeastNatural
  <2>2. k \in 1..n /\ ~HasLeast(k)
    BY <2>1
  <2>3. k # 1
    <3>1. HasLeast(1)
      BY DEF HasLeast
    <3> QED BY <2>2, <3>1
  <2>4. PICK i \in 1..(k - 1) : \A j \in 1..(k - 1) : v[i] =< v[j]
    <3>1. k - 1 \in 1..n
      BY <2>2, <2>3
    <3>2. k - 1 \notin Bad
      BY <2>1, <2>2, <3>1
    <3>3. HasLeast(k - 1)
      BY <3>1, <3>2
    <3> QED BY <3>3 DEF HasLeast
  <2>5. i \in 1..k /\ k \in 1..k /\ \A j \in 1..k : j \in 1..(k - 1) \/ j = k
    BY <2>2, <2>3, <2>4
  <2>6. v[i] \in Int /\ v[k] \in Int /\ \A j \in 1..k : v[j] \in Int
    BY <2>2, <2>5
  <2>7. CASE v[i] =< v[k]
    <3>1. \A j \in 1..k : v[i] =< v[j]
      BY <2>4, <2>5, <2>6, <2>7
    <3> QED BY <3>1, <2>2, <2>5 DEF HasLeast
  <2>8. CASE v[k] =< v[i]
    <3>1. \A j \in 1..k : v[k] =< v[j]
      BY <2>4, <2>5, <2>6, <2>8
    <3> QED BY <3>1, <2>2, <2>5 DEF HasLeast
  <2> QED BY <2>6, <2>7, <2>8
<1> HIDE DEF HasLeast
<1>2. HasLeast(n)
  <2>1. n \in 1..n
    OBVIOUS
  <2> QED BY <1>1, <2>1
<1> QED BY <1>2 DEF HasLeast

LEMMA GreatestOfList ==
  ASSUME NEW n \in Nat \ {0}, NEW v \in [1..n -> Int]
  PROVE  \E i \in 1..n : \A j \in 1..n : v[i] >= v[j]
<1> DEFINE w == [i \in 1..n |-> -v[i]]
<1>1. w \in [1..n -> Int]
  OBVIOUS
<1>2. PICK i \in 1..n : \A j \in 1..n : w[i] =< w[j]
  BY <1>1, LeastOfList
<1>3. \A j \in 1..n : v[i] >= v[j]
  BY <1>2
<1> QED BY <1>3

\* Scaling rounds toward zero, by less than one.
LEMMA ScaledBounds ==
  ASSUME NEW raw \in Int
  PROVE  /\ Scaled(raw) \in Int
         /\ 100 * Scaled(raw) < raw * EpsFactor + 100
         /\ 100 * Scaled(raw) > raw * EpsFactor - 100
<1> DEFINE x == raw * EpsFactor
<1>1. x \in Int
  BY LimitsAssumption
<1>2. Scaled(raw) = IF x < 0 THEN -((-x) \div 100) ELSE x \div 100
  BY DEF Scaled
<1> HIDE DEF x
<1>3. /\ Scaled(raw) \in Int
      /\ 100 * Scaled(raw) < x + 100
      /\ 100 * Scaled(raw) > x - 100
  BY <1>1, <1>2
<1> QED BY <1>3 DEF x

\* Elapsed time on the wrapping timer.
LEMMA ElapsedIs ==
  ASSUME NEW ts \in 0..(TimerSize - 1), timer \in 0..(TimerSize - 1)
  PROVE  Elapsed(ts) = IF timer >= ts THEN timer - ts ELSE timer - ts + TimerSize
BY LimitsAssumption DEF Elapsed

-----------------------------------------------------------------------------
(* The invariant                                                           *)

\* The torque the rate limit starts from is the one on the bus, or zero.
LastIsSent == desired_torque_last = 0 \/ desired_torque_last = sent

\* What steer_torque_cmd_checks remembers of the last cut never overstates it.  The
\* timer may wrap, so elapsed time may be understated.
CutMemory ==
  /\ valid_steer_req_count =< cut_gap
  /\ \/ Elapsed(ts_steer_req_mismatch_last) =< cut_elapsed
     \/ cut_elapsed = MinValidInterval

IInv == TypeOK /\ LastIsSent /\ CutMemory

LEMMA InitIInv == Init => IInv
<1> SUFFICES ASSUME Init PROVE IInv
  OBVIOUS
<1>1. TypeOK
  <2>1. torque_meas \in [values : [1..SampleSize -> Int], min : Int, max : Int]
    BY DEF Init
  <2>2. /\ timer \in 0..(TimerSize - 1)
        /\ ts_torque_check_last \in 0..(TimerSize - 1)
        /\ ts_steer_req_mismatch_last \in 0..(TimerSize - 1)
    BY LimitsAssumption DEF Init
  <2>3. /\ desired_torque_last \in -MaxSteer..MaxSteer /\ rt_torque_last \in -MaxSteer..MaxSteer
        /\ sent \in -MaxSteer..MaxSteer /\ rise_from \in 0..MaxSteer
    BY LimitsAssumption DEF Init
  <2>4. /\ valid_steer_req_count \in 0..MinValidFrames /\ engaged_for \in 0..TimeCap
        /\ cut_gap \in 0..MinValidFrames /\ cut_elapsed \in 0..MinValidInterval
    BY LimitsAssumption DEF Init
  <2>5. controls_allowed \in BOOLEAN
    BY DEF Init
  <2> QED BY <2>1, <2>2, <2>3, <2>4, <2>5 DEF TypeOK
<1>2. LastIsSent /\ CutMemory
  BY LimitsAssumption DEF Init, LastIsSent, CutMemory
<1> QED BY <1>1, <1>2 DEF IInv

\* A measurement keeps the sample well-formed.
LEMMA SampleType ==
  ASSUME torque_meas \in [values : [1..SampleSize -> Int], min : Int, max : Int],
         NEW new \in Int
  PROVE  /\ UpdatedSample(torque_meas, new)
              \in [values : [1..SampleSize -> Int], min : Int, max : Int]
         /\ UpdatedSample(torque_meas, new).min + 1 =< new
         /\ new =< UpdatedSample(torque_meas, new).max - 1
<1> DEFINE values == [i \in 1..SampleSize |-> IF i = 1 THEN new ELSE torque_meas.values[i - 1]]
           least == CHOOSE i \in 1..SampleSize : \A j \in 1..SampleSize : values[i] =< values[j]
           most  == CHOOSE i \in 1..SampleSize : \A j \in 1..SampleSize : values[i] >= values[j]
<1>1. values \in [1..SampleSize -> Int] /\ values[1] = new /\ 1 \in 1..SampleSize
  BY LimitsAssumption
<1> HIDE DEF values
<1>2. least \in 1..SampleSize /\ \A j \in 1..SampleSize : values[least] =< values[j]
  <2>1. \E i \in 1..SampleSize : \A j \in 1..SampleSize : values[i] =< values[j]
    BY <1>1, LimitsAssumption, LeastOfList
  <2> QED BY <2>1
<1>3. most \in 1..SampleSize /\ \A j \in 1..SampleSize : values[most] >= values[j]
  <2>1. \E i \in 1..SampleSize : \A j \in 1..SampleSize : values[i] >= values[j]
    BY <1>1, LimitsAssumption, GreatestOfList
  <2> QED BY <2>1
<1> HIDE DEF least, most
<1>4. UpdatedSample(torque_meas, new) =
        [values |-> values, min |-> values[least] - 1, max |-> values[most] + 1]
  BY DEF UpdatedSample, RoundingMargin, values, least, most
<1>5. values[least] \in Int /\ values[most] \in Int
  BY <1>1, <1>2, <1>3
<1>6. values[least] =< new /\ new =< values[most]
  BY <1>1, <1>2, <1>3
<1> QED BY <1>1, <1>4, <1>5, <1>6

\* What an admitted torque is bounded by.
LEMMA AdmittedTorque ==
  ASSUME IInv, NEW d \in Int, NEW req \in BOOLEAN, ~Violation(d, req)
  PROVE  /\ d \in -MaxSteer..MaxSteer
         /\ d =< Greater(sent, 0) + MaxRateUp
         /\ d >= Lesser(sent, 0) - MaxRateUp
         /\ ~controls_allowed => d = 0
         /\ controls_allowed => /\ d =< Greater(rt_torque_last, 0) + MaxRtDelta
                                /\ d >= Lesser(rt_torque_last, 0) - MaxRtDelta
<1> USE LimitsAssumption DEF Greater, Lesser
<1>1. /\ sent \in -MaxSteer..MaxSteer /\ rt_torque_last \in -MaxSteer..MaxSteer
      /\ desired_torque_last \in -MaxSteer..MaxSteer
      /\ torque_meas.min \in Int /\ torque_meas.max \in Int
  BY DEF IInv, TypeOK
<1>2. desired_torque_last = 0 \/ desired_torque_last = sent
  BY DEF IInv, LastIsSent
<1>3. CASE ~controls_allowed
  BY <1>1, <1>3 DEF Violation
<1>4. CASE controls_allowed
  <2>1. ~OverLimit(d) /\ ~DistToMeas(d) /\ ~RtRate(d)
    BY <1>4 DEF Violation
  <2>2. d \in -MaxSteer..MaxSteer
    BY <2>1 DEF OverLimit, Outside
  <2>3. /\ d =< Greater(desired_torque_last, 0) + MaxRateUp
        /\ d >= Lesser(desired_torque_last, 0) - MaxRateUp
    BY <1>1, <2>1 DEF DistToMeas, Outside
  <2>4. /\ d =< Greater(rt_torque_last, 0) + MaxRtDelta
        /\ d >= Lesser(rt_torque_last, 0) - MaxRtDelta
    BY <1>1, <2>1 DEF RtRate, Outside
  <2> QED BY <1>1, <1>2, <1>4, <2>2, <2>3, <2>4
<1> QED BY <1>3, <1>4

\* No torque is within every limit.
LEMMA ZeroIsAdmitted == ASSUME TypeOK, NEW req PROVE ~Violation(0, req)
<1> USE LimitsAssumption DEF Greater, Lesser, Outside
<1>1. /\ rt_torque_last \in Int /\ desired_torque_last \in Int
      /\ torque_meas.min \in Int /\ torque_meas.max \in Int
  BY DEF TypeOK
<1>2. ~OverLimit(0)
  BY DEF OverLimit
<1>3. ~DistToMeas(0)
  BY <1>1 DEF DistToMeas
<1>4. ~RtRate(0)
  BY <1>1 DEF RtRate
<1> QED BY <1>2, <1>3, <1>4 DEF Violation, SteerReqMismatch

LEMMA TxSteerStep ==
  ASSUME IInv, NEW d \in Desired, NEW req \in BOOLEAN, TxSteer(d, req)
  PROVE  IInv'
<1> USE IInv, TxSteer(d, req), LimitsAssumption
<1>1. d \in Int
  OBVIOUS
<1>2. UNCHANGED <<controls_allowed, torque_meas, timer, rise_from, engaged_for>>
  BY DEF TxSteer
<1>3. CASE Violation(d, req)
  <2>1. /\ desired_torque_last' = 0 /\ rt_torque_last' = 0
        /\ ts_torque_check_last' = timer /\ ts_steer_req_mismatch_last' = timer
        /\ valid_steer_req_count' = 0
        /\ UNCHANGED <<sent, cut_gap, cut_elapsed>>
    BY <1>3 DEF TxSteer, ResetsLimits
  <2>2. TypeOK'
    BY <1>2, <2>1 DEF IInv, TypeOK
  <2>3. LastIsSent' /\ CutMemory'
    <3>1. Elapsed(ts_steer_req_mismatch_last)' = 0
      BY <1>2, <2>1 DEF Elapsed, IInv, TypeOK
    <3> QED BY <2>1, <3>1 DEF IInv, TypeOK, LastIsSent, CutMemory
  <2> QED BY <2>2, <2>3 DEF IInv
<1>4. CASE ~Violation(d, req)
  <2> DEFINE cut == SteerReqMismatch(d, req)
  <2>1. /\ sent' = d
        /\ cut_gap' = IF cut THEN 0 ELSE Lesser(cut_gap + 1, MinValidFrames)
        /\ cut_elapsed' = IF cut THEN 0 ELSE cut_elapsed
    BY <1>4 DEF TxSteer
  <2>2. desired_torque_last' = d \/ desired_torque_last' = 0
    BY DEF TxSteer
  <2>3. rt_torque_last' = 0 \/ rt_torque_last' = d \/ rt_torque_last' = rt_torque_last
    BY DEF TxSteer
  <2>4. ts_torque_check_last' = timer \/ ts_torque_check_last' = ts_torque_check_last
    BY DEF TxSteer
  <2>5. \/ ts_steer_req_mismatch_last' = timer
        \/ ts_steer_req_mismatch_last' = ts_steer_req_mismatch_last /\ ~cut
    BY DEF TxSteer
  <2>6. \/ valid_steer_req_count' = 0
        \/ /\ valid_steer_req_count' = Lesser(valid_steer_req_count + 1, MinValidFrames)
           /\ ~cut
    BY DEF TxSteer
  <2>7. d \in -MaxSteer..MaxSteer
    BY <1>1, <1>4, AdmittedTorque
  <2> HIDE DEF cut
  <2>8. TypeOK'
    <3>1. valid_steer_req_count' \in 0..MinValidFrames /\ cut_gap' \in 0..MinValidFrames
      BY <2>1, <2>6 DEF Lesser, IInv, TypeOK
    <3>2. cut_elapsed' \in 0..MinValidInterval
      BY <2>1 DEF IInv, TypeOK
    <3>3. rt_torque_last' \in -MaxSteer..MaxSteer /\ desired_torque_last' \in -MaxSteer..MaxSteer
      BY <2>2, <2>3, <2>7 DEF IInv, TypeOK
    <3> QED BY <1>2, <2>1, <2>4, <2>5, <2>7, <3>1, <3>2, <3>3 DEF IInv, TypeOK
  <2>9. LastIsSent'
    BY <2>1, <2>2 DEF LastIsSent
  <2>10. CutMemory'
    <3>1. valid_steer_req_count' =< cut_gap'
      <4>1. /\ valid_steer_req_count \in Nat /\ cut_gap \in Nat /\ cut_gap' \in Nat
            /\ valid_steer_req_count =< cut_gap
        BY <2>8 DEF IInv, TypeOK, CutMemory
      <4> QED BY <2>1, <2>6, <4>1 DEF Lesser
    <3>2. \/ Elapsed(ts_steer_req_mismatch_last)' =< cut_elapsed'
          \/ cut_elapsed' = MinValidInterval
      <4>1. CASE ts_steer_req_mismatch_last' = timer
        <5>1. Elapsed(ts_steer_req_mismatch_last)' = 0
          BY <1>2, <4>1 DEF Elapsed, IInv, TypeOK
        <5> QED BY <5>1, <2>8 DEF TypeOK
      <4>2. CASE ts_steer_req_mismatch_last' = ts_steer_req_mismatch_last /\ ~cut
        <5>1. Elapsed(ts_steer_req_mismatch_last)' = Elapsed(ts_steer_req_mismatch_last)
          BY <1>2, <4>2 DEF Elapsed
        <5>2. cut_elapsed' = cut_elapsed
          BY <2>1, <4>2
        <5> QED BY <5>1, <5>2 DEF IInv, CutMemory
      <4> QED BY <2>5, <4>1, <4>2
    <3> QED BY <3>1, <3>2 DEF CutMemory
  <2> QED BY <2>8, <2>9, <2>10 DEF IInv
<1> QED BY <1>3, <1>4

LEMMA RxTorqueMeasStep ==
  ASSUME IInv, NEW raw \in Measured, RxTorqueMeas(raw)
  PROVE  IInv'
<1>1. torque_meas' \in [values : [1..SampleSize -> Int], min : Int, max : Int]
  <2>1. Scaled(raw) \in Int
    BY LimitsAssumption, ScaledBounds
  <2> QED BY <2>1, SampleType DEF RxTorqueMeas, IInv, TypeOK
<1>2. UNCHANGED <<controls_allowed, checkVars, timer, histVars>>
  BY DEF RxTorqueMeas
<1>3. TypeOK'
  BY <1>1, <1>2 DEF checkVars, histVars, IInv, TypeOK
<1>4. LastIsSent' /\ CutMemory'
  BY <1>2 DEF checkVars, histVars, Elapsed, IInv, LastIsSent, CutMemory
<1> QED BY <1>3, <1>4 DEF IInv

LEMMA ControlsStep == ASSUME IInv, Engage \/ Disengage PROVE IInv'
<1>1. /\ UNCHANGED <<torque_meas, checkVars, timer, sent, cut_gap, cut_elapsed>>
      /\ controls_allowed' \in BOOLEAN
  BY DEF Engage, Disengage, histVars
<1>2. rise_from' \in 0..MaxSteer /\ engaged_for' \in 0..TimeCap
  <2>1. rise_from' \in 0..MaxSteer
    BY LimitsAssumption DEF Engage, Disengage, histVars, Greater, Abs, IInv, TypeOK
  <2>2. engaged_for' \in 0..TimeCap
    BY LimitsAssumption DEF Engage, Disengage, histVars, IInv, TypeOK
  <2> QED BY <2>1, <2>2
<1>3. TypeOK'
  BY <1>1, <1>2 DEF checkVars, IInv, TypeOK
<1>4. LastIsSent' /\ CutMemory'
  BY <1>1 DEF checkVars, Elapsed, IInv, LastIsSent, CutMemory
<1> QED BY <1>3, <1>4 DEF IInv

LEMMA SetSafetyHooksStep == ASSUME IInv, SetSafetyHooks PROVE IInv'
<1> USE LimitsAssumption
<1>1. torque_meas' \in [values : [1..SampleSize -> Int], min : Int, max : Int]
  <2>1. torque_meas \in [values : [1..SampleSize -> Int], min : Int, max : Int]
    BY DEF IInv, TypeOK
  <2>2. torque_meas' = [torque_meas EXCEPT !.max = 0]
    BY DEF SetSafetyHooks
  <2> DEFINE Values == [1..SampleSize -> Int]
  <2> HIDE DEF Values
  <2>3. torque_meas \in [values : Values, min : Int, max : Int]
    BY <2>1 DEF Values
  <2>4. torque_meas' \in [values : Values, min : Int, max : Int]
    BY <2>2, <2>3
  <2> QED BY <2>4 DEF Values
<1>2. /\ desired_torque_last' \in -MaxSteer..MaxSteer /\ rt_torque_last' \in -MaxSteer..MaxSteer
      /\ ts_torque_check_last' \in 0..(TimerSize - 1)
      /\ ts_steer_req_mismatch_last' \in 0..(TimerSize - 1)
      /\ valid_steer_req_count' \in 0..MinValidFrames
      /\ cut_elapsed' \in 0..MinValidInterval
  BY DEF SetSafetyHooks
<1>3. controls_allowed' \in BOOLEAN /\ UNCHANGED <<timer, sent, rise_from, engaged_for, cut_gap>>
  BY DEF SetSafetyHooks
<1>4. TypeOK'
  BY <1>1, <1>2, <1>3 DEF IInv, TypeOK
<1>5. LastIsSent' /\ CutMemory'
  BY DEF SetSafetyHooks, IInv, TypeOK, LastIsSent, CutMemory
<1> QED BY <1>4, <1>5 DEF IInv

LEMMA PassTimeStep == ASSUME IInv, PassTime PROVE IInv'
<1> USE LimitsAssumption
<1>1. /\ timer \in 0..(TimerSize - 1) /\ ts_steer_req_mismatch_last \in 0..(TimerSize - 1)
      /\ engaged_for \in 0..TimeCap /\ cut_elapsed \in 0..MinValidInterval
  BY DEF IInv, TypeOK
<1>2. timer' = IF timer = TimerSize - 1 THEN 0 ELSE timer + 1
  BY <1>1 DEF PassTime
<1>3. timer' \in 0..(TimerSize - 1)
  BY <1>1, <1>2
<1>4. engaged_for' \in 0..TimeCap /\ cut_elapsed' \in 0..MinValidInterval
  BY <1>1 DEF PassTime, Lesser
<1>5. UNCHANGED <<controls_allowed, torque_meas, checkVars, sent, rise_from, cut_gap>>
  BY DEF PassTime
<1>6. TypeOK'
  BY <1>3, <1>4, <1>5 DEF checkVars, IInv, TypeOK
<1>7. LastIsSent'
  BY <1>5 DEF checkVars, IInv, LastIsSent
<1>8. CutMemory'
  <2> DEFINE ts == ts_steer_req_mismatch_last
  <2>1. Elapsed(ts) = IF timer >= ts THEN timer - ts ELSE timer - ts + TimerSize
    BY <1>1, ElapsedIs
  <2>2. ts' = ts
    BY <1>5 DEF checkVars
  <2>3. Elapsed(ts)' = IF timer' >= ts THEN timer' - ts ELSE timer' - ts + TimerSize
    BY <1>1, <1>3, <2>2 DEF Elapsed
  <2>4. Elapsed(ts)' =< Elapsed(ts) + 1
    BY <1>1, <1>2, <2>1, <2>3
  <2>5. \/ cut_elapsed' = MinValidInterval
        \/ cut_elapsed' = cut_elapsed + 1 /\ cut_elapsed # MinValidInterval
    BY <1>1 DEF PassTime, Lesser
  <2>6. Elapsed(ts) \in Int /\ Elapsed(ts)' \in Int
    BY <1>1, <1>3, <2>1, <2>3
  <2> HIDE DEF ts
  <2>7. \/ Elapsed(ts)' =< cut_elapsed'
        \/ cut_elapsed' = MinValidInterval
    <3>1. Elapsed(ts) =< cut_elapsed \/ cut_elapsed = MinValidInterval
      BY DEF IInv, CutMemory, ts
    <3> QED BY <1>1, <2>4, <2>5, <2>6, <3>1
  <2> QED BY <1>5, <2>7 DEF checkVars, IInv, CutMemory, ts
<1> QED BY <1>6, <1>7, <1>8 DEF IInv

LEMMA NextIInv == IInv /\ [Next]_vars => IInv'
<1> SUFFICES ASSUME IInv, [Next]_vars PROVE IInv'
  OBVIOUS
<1>1. CASE \E raw \in Measured : RxTorqueMeas(raw)
  BY <1>1, RxTorqueMeasStep
<1>2. CASE \E d \in Desired, req \in BOOLEAN : TxSteer(d, req)
  BY <1>2, TxSteerStep
<1>3. CASE Engage \/ Disengage
  BY <1>3, ControlsStep
<1>4. CASE SetSafetyHooks
  BY <1>4, SetSafetyHooksStep
<1>5. CASE PassTime
  BY <1>5, PassTimeStep
<1>6. CASE UNCHANGED vars
  BY <1>6 DEF vars, checkVars, histVars, IInv, TypeOK, LastIsSent, CutMemory, Elapsed
<1> QED BY <1>1, <1>2, <1>3, <1>4, <1>5, <1>6 DEF Next

-----------------------------------------------------------------------------
(* Theorems                                                                *)

\* The inductive invariant holds in every reachable state.
THEOREM Invariance == Spec => []IInv
<1>1. Init => IInv
  BY InitIInv
<1>2. IInv /\ [Next]_vars => IInv'
  BY NextIInv
<1> QED BY <1>1, <1>2, PTL DEF Spec

\* No torque beyond the limit is ever remembered or on the bus, and every count and
\* timestamp stays in range, on a timer of any width.
THEOREM TypeCorrect == Spec => []TypeOK
<1>1. IInv => TypeOK
  BY DEF IInv
<1> QED BY <1>1, Invariance, PTL

\* A frame with no torque is never refused, for any limits and any measured torque.
THEOREM Release == Spec => []HostCanRelease
<1>1. IInv => HostCanRelease
  BY ZeroIsAdmitted DEF IInv, HostCanRelease
<1> QED BY <1>1, Invariance, PTL

\* The panda's memory of the last cut never lets two of them come too close.
THEOREM CutSpacing == Spec => []CutsAreSpaced
<1>1. ASSUME IInv PROVE CutsAreSpaced
  <2> SUFFICES ASSUME NEW d \in Desired, d # 0, ~Violation(d, FALSE)
               PROVE  cut_gap >= MinValidFrames /\ cut_elapsed >= MinValidInterval
    BY DEF CutsAreSpaced
  <2>1. CutAllowed
    BY DEF Violation, SteerReqMismatch
  <2>2. /\ valid_steer_req_count \in Int /\ cut_gap \in Int /\ cut_elapsed \in Int
        /\ valid_steer_req_count =< cut_gap
        /\ Elapsed(ts_steer_req_mismatch_last) =< cut_elapsed \/ cut_elapsed = MinValidInterval
    BY <1>1 DEF IInv, TypeOK, CutMemory
  <2>3. Elapsed(ts_steer_req_mismatch_last) \in Int
    BY <1>1, LimitsAssumption DEF Elapsed, IInv, TypeOK
  <2> QED BY <2>1, <2>2, <2>3, LimitsAssumption DEF CutAllowed
<1> QED BY <1>1, Invariance, PTL

\* From one frame on the bus to the next, torque grows by at most MaxRateUp.
THEOREM RampsUp == Spec => TorqueRampsUp
<1> DEFINE Ramp == /\ sent' =< Greater(sent, 0) + MaxRateUp
                   /\ sent' >= Lesser(sent, 0) - MaxRateUp
<1>1. ASSUME IInv, Next PROVE Ramp
  <2>1. sent \in Int
    BY <1>1 DEF IInv, TypeOK
  <2>2. CASE \E d \in Desired, req \in BOOLEAN : TxSteer(d, req)
    <3> PICK d \in Desired, req \in BOOLEAN : TxSteer(d, req)
      BY <2>2
    <3>1. CASE Violation(d, req)
      BY <2>1, <3>1, LimitsAssumption DEF TxSteer, Greater, Lesser
    <3>2. CASE ~Violation(d, req)
      <4>1. sent' = d /\ d \in Int
        BY <3>2, LimitsAssumption DEF TxSteer
      <4> QED BY <1>1, <3>2, <4>1, AdmittedTorque
    <3> QED BY <3>1, <3>2
  <2>3. CASE ~\E d \in Desired, req \in BOOLEAN : TxSteer(d, req)
    <3>1. sent' = sent
      BY <1>1, <2>3 DEF Next, RxTorqueMeas, Engage, Disengage, SetSafetyHooks, PassTime, histVars
    <3> QED BY <2>1, <3>1, LimitsAssumption DEF Greater, Lesser
  <2> QED BY <2>2, <2>3
<1>2. ASSUME IInv, UNCHANGED vars PROVE [Ramp]_vars
  BY <1>2
<1>3. IInv /\ [Next]_vars => [Ramp]_vars
  BY <1>1, <1>2
<1> QED BY <1>3, Invariance, PTL DEF Spec, TorqueRampsUp

\* Rounding never takes the measured torque out of the range the limits are taken
\* from, for any scaling factor.
THEOREM MeasuredRange == Spec => MeasuredRangeIsConservative
<1> DEFINE Conservative == \A raw \in Measured : RxTorqueMeas(raw) =>
       100 * torque_meas'.min =< raw * EpsFactor /\ raw * EpsFactor =< 100 * torque_meas'.max
<1>1. ASSUME IInv PROVE Conservative
  <2> SUFFICES ASSUME NEW raw \in Measured, RxTorqueMeas(raw)
               PROVE  /\ 100 * torque_meas'.min =< raw * EpsFactor
                      /\ raw * EpsFactor =< 100 * torque_meas'.max
    OBVIOUS
  <2> DEFINE scaled == Scaled(raw)
             x == raw * EpsFactor
             min == torque_meas'.min
             max == torque_meas'.max
  <2>1. scaled \in Int /\ 100 * scaled < x + 100 /\ 100 * scaled > x - 100 /\ x \in Int
    BY LimitsAssumption, ScaledBounds
  <2>2. min + 1 =< scaled /\ scaled =< max - 1 /\ min \in Int /\ max \in Int
    BY <1>1, <2>1, SampleType DEF RxTorqueMeas, IInv, TypeOK
  <2> HIDE DEF scaled, x, min, max
  <2>3. 100 * min =< x /\ x =< 100 * max
    BY <2>1, <2>2
  <2> QED BY <2>3 DEF x, min, max
<1>2. IInv /\ [Next]_vars => [Conservative]_vars
  BY <1>1
<1> QED BY <1>2, Invariance, PTL DEF Spec, MeasuredRangeIsConservative

-----------------------------------------------------------------------------
(* The real time limit                                                     *)

\* k times MaxRtDelta, and the whole intervals in a time t.
Quota(k) == MaxRtDelta * k
Intervals(t) == t \div (MaxRtInterval + 1)

LEMMA QuotaGrows ==
  /\ \A k \in Int : Quota(k) \in Int /\ Quota(k + 1) = Quota(k) + MaxRtDelta
  /\ \A k \in Int, l \in Int : k =< l => Quota(k) =< Quota(l)
  /\ \A k \in Nat : Quota(k) >= 0
<1> USE LimitsAssumption DEF Quota
<1>1. \A k \in Int : Quota(k) \in Int /\ Quota(k + 1) = Quota(k) + MaxRtDelta
  OBVIOUS
<1>2. \A k \in Nat : Quota(k) >= 0
  OBVIOUS
<1>3. ASSUME NEW k \in Int, NEW l \in Int, k =< l PROVE Quota(k) =< Quota(l)
  <2>1. Quota(l - k) >= 0
    BY <1>2, <1>3
  <2>2. Quota(l) = Quota(k) + Quota(l - k)
    OBVIOUS
  <2> QED BY <1>1, <2>1, <2>2
<1> QED BY <1>1, <1>2, <1>3

LEMMA IntervalsGrow ==
  /\ \A t \in Nat : Intervals(t) \in Nat
  /\ \A s \in Nat, t \in Nat : s =< t => Intervals(s) =< Intervals(t)
  /\ \A s \in Nat, t \in Nat : s + MaxRtInterval < t => Intervals(s) + 1 =< Intervals(t)
<1> DEFINE P == MaxRtInterval + 1
<1>1. P \in Nat \ {0}
  BY LimitsAssumption
<1>2. \A t \in Int : Intervals(t) = t \div P
  BY DEF Intervals
<1>3. \A s \in Nat, t \in Nat : s + MaxRtInterval < t => s + P =< t
  BY LimitsAssumption
<1> HIDE DEF P
<1>4. \A t \in Nat : t \div P \in Nat
  BY <1>1
<1>5. \A s \in Nat, t \in Nat : s =< t => s \div P =< t \div P
  BY <1>1
<1>6. \A s \in Nat : (s + P) \div P = (s \div P) + 1
  BY <1>1
<1>7. ASSUME NEW s \in Nat, NEW t \in Nat, s + P =< t PROVE (s \div P) + 1 =< t \div P
  <2>1. s + P \in Nat
    BY <1>1
  <2>2. (s + P) \div P =< t \div P
    BY <1>5, <1>7, <2>1
  <2> QED BY <1>6, <2>2
<1> QED BY <1>2, <1>3, <1>4, <1>5, <1>7

\* The torque the real time limit starts from was either known at engagement, or
\* renewed since, at most once per whole interval up to the last renewal.
RtMemory ==
  controls_allowed /\ engaged_for < TimeCap =>
    /\ Abs(sent) =< rise_from + Quota(2 + Intervals(engaged_for))
    /\ \/ Abs(rt_torque_last) =< rise_from
       \/ /\ Elapsed(ts_torque_check_last) =< engaged_for
          /\ Abs(rt_torque_last) =<
               rise_from + Quota(1 + Intervals(engaged_for - Elapsed(ts_torque_check_last)))

LEMMA TxSteerRt ==
  ASSUME IInv, RtMemory, NEW d \in Desired, NEW req \in BOOLEAN, TxSteer(d, req)
  PROVE  RtMemory'
<1> USE IInv, RtMemory, TxSteer(d, req), LimitsAssumption
<1> DEFINE el == Elapsed(ts_torque_check_last)
           e == engaged_for
           rise == rise_from
<1> SUFFICES ASSUME controls_allowed', engaged_for' < TimeCap
             PROVE  /\ Abs(sent') =< rise' + Quota(2 + Intervals(e'))
                    /\ \/ Abs(rt_torque_last') =< rise'
                       \/ /\ el' =< e'
                          /\ Abs(rt_torque_last') =< rise' + Quota(1 + Intervals(e' - el'))
  BY DEF RtMemory
<1>1. UNCHANGED <<controls_allowed, timer, rise_from, engaged_for>>
  BY DEF TxSteer
<1>2. /\ timer \in 0..(TimerSize - 1) /\ ts_torque_check_last \in 0..(TimerSize - 1)
      /\ e \in Nat /\ rise \in Nat /\ sent \in Int /\ rt_torque_last \in Int
  BY DEF IInv, TypeOK
<1>3. el \in Nat
  BY <1>2, ElapsedIs
<1>4. controls_allowed /\ e < TimeCap /\ e' = e /\ rise' = rise
  BY <1>1
<1>5. /\ Abs(sent) =< rise + Quota(2 + Intervals(e))
      /\ \/ Abs(rt_torque_last) =< rise
         \/ /\ el =< e
            /\ Abs(rt_torque_last) =< rise + Quota(1 + Intervals(e - el))
  BY <1>4 DEF RtMemory
<1>6. Intervals(e) \in Nat
  BY <1>2, IntervalsGrow
<1>7. CASE Violation(d, req)
  <2>1. rt_torque_last' = 0 /\ sent' = sent
    BY <1>7 DEF TxSteer, ResetsLimits
  <2>2. Abs(rt_torque_last') = 0
    <3>1. ASSUME NEW a \in Int, a = 0 PROVE Abs(a) = 0
      BY <3>1 DEF Abs, Greater
    <3> QED BY <2>1, <3>1
  <2>3. Abs(sent') = Abs(sent)
    BY <2>1, Zenon
  <2> HIDE DEF el, e, rise
  <2> QED BY <1>2, <1>4, <1>5, <2>2, <2>3
<1>8. CASE ~Violation(d, req)
  <2>1. d \in Int /\ sent' = d
    BY <1>8 DEF TxSteer
  <2>2. Abs(d) \in Nat /\ Abs(rt_torque_last) \in Nat /\ Abs(sent') = Abs(d)
    BY <1>2, <2>1 DEF Abs, Greater
  <2>3. Abs(d) =< Abs(rt_torque_last) + MaxRtDelta
    <3>1. /\ d =< Greater(rt_torque_last, 0) + MaxRtDelta
          /\ d >= Lesser(rt_torque_last, 0) - MaxRtDelta
      BY <1>4, <1>8, <2>1, AdmittedTorque
    <3> QED BY <1>2, <2>1, <3>1 DEF Abs, Greater, Lesser
  <2>4. \/ rt_torque_last' = d /\ ts_torque_check_last' = timer /\ el > MaxRtInterval
        \/ rt_torque_last' = rt_torque_last /\ ts_torque_check_last' = ts_torque_check_last
    BY <1>4, <1>8 DEF TxSteer, ResetsLimits
  <2>5. \/ rt_torque_last' = d /\ el' = 0 /\ el > MaxRtInterval
        \/ rt_torque_last' = rt_torque_last /\ el' = el
    BY <1>1, <1>2, <2>4 DEF Elapsed
  <2> HIDE DEF el, e, rise
  <2>7. Abs(rt_torque_last) =< rise + Quota(1 + Intervals(e))
    <3>1. CASE Abs(rt_torque_last) =< rise
      <4>1. 1 + Intervals(e) \in Nat
        BY <1>6
      <4>2. Quota(1 + Intervals(e)) >= 0 /\ Quota(1 + Intervals(e)) \in Int
        BY <4>1, QuotaGrows
      <4> QED BY <1>2, <2>2, <3>1, <4>2
    <3>2. CASE el =< e /\ Abs(rt_torque_last) =< rise + Quota(1 + Intervals(e - el))
      <4>1. e - el \in Nat /\ e - el =< e
        BY <1>2, <1>3, <3>2
      <4>2. Intervals(e - el) \in Nat /\ Intervals(e - el) =< Intervals(e)
        BY <1>2, <4>1, IntervalsGrow
      <4>3. /\ Quota(1 + Intervals(e - el)) =< Quota(1 + Intervals(e))
            /\ Quota(1 + Intervals(e - el)) \in Int /\ Quota(1 + Intervals(e)) \in Int
        <5>1. 1 + Intervals(e - el) \in Int /\ 1 + Intervals(e) \in Int
              /\ 1 + Intervals(e - el) =< 1 + Intervals(e)
          BY <1>6, <4>2
        <5>2. \A k \in Int, l \in Int : k =< l => Quota(k) =< Quota(l)
          BY QuotaGrows
        <5>3. Quota(1 + Intervals(e - el)) =< Quota(1 + Intervals(e))
          BY <5>1, <5>2
        <5> QED BY <5>1, <5>3, QuotaGrows
      <4> QED BY <1>2, <2>2, <3>2, <4>3
    <3> QED BY <1>5, <3>1, <3>2
  <2>8. Abs(d) =< rise + Quota(2 + Intervals(e))
    <3>1. /\ Quota(2 + Intervals(e)) = Quota(1 + Intervals(e)) + MaxRtDelta
          /\ Quota(1 + Intervals(e)) \in Int
      <4>1. (1 + Intervals(e)) + 1 = 2 + Intervals(e) /\ 1 + Intervals(e) \in Int
        BY <1>6
      <4> QED BY <4>1, QuotaGrows
    <3> QED BY <1>2, <2>2, <2>3, <2>7, <3>1
  <2>9. CASE rt_torque_last' = d /\ el' = 0 /\ el > MaxRtInterval
    <3>1. Abs(rt_torque_last) =< rise + Quota(Intervals(e))
      <4>1. CASE Abs(rt_torque_last) =< rise
        <5>1. Quota(Intervals(e)) >= 0 /\ Quota(Intervals(e)) \in Int
          BY <1>6, QuotaGrows
        <5> QED BY <1>2, <2>2, <4>1, <5>1
      <4>2. CASE el =< e /\ Abs(rt_torque_last) =< rise + Quota(1 + Intervals(e - el))
        <5>1. e - el \in Nat /\ (e - el) + MaxRtInterval < e
          BY <1>2, <1>3, <2>9, <4>2
        <5>2. Intervals(e - el) \in Nat /\ Intervals(e - el) + 1 =< Intervals(e)
          BY <1>2, <5>1, IntervalsGrow
        <5>3. /\ Quota(1 + Intervals(e - el)) =< Quota(Intervals(e))
              /\ Quota(1 + Intervals(e - el)) \in Int /\ Quota(Intervals(e)) \in Int
          <6>1. 1 + Intervals(e - el) \in Int /\ Intervals(e) \in Int
                /\ 1 + Intervals(e - el) =< Intervals(e)
            BY <1>6, <5>2
          <6>2. \A k \in Int, l \in Int : k =< l => Quota(k) =< Quota(l)
            BY QuotaGrows
          <6>3. Quota(1 + Intervals(e - el)) =< Quota(Intervals(e))
            BY <6>1, <6>2
          <6> QED BY <6>1, <6>3, QuotaGrows
        <5> QED BY <1>2, <2>2, <4>2, <5>3
      <4> QED BY <1>5, <4>1, <4>2
    <3>2. /\ Quota(1 + Intervals(e)) = Quota(Intervals(e)) + MaxRtDelta
          /\ Quota(Intervals(e)) \in Int
      <4>1. Intervals(e) + 1 = 1 + Intervals(e) /\ Intervals(e) \in Int
        BY <1>6
      <4>2. /\ Quota(Intervals(e) + 1) = Quota(Intervals(e)) + MaxRtDelta
            /\ Quota(Intervals(e)) \in Int
        BY <4>1, QuotaGrows
      <4>3. Quota(1 + Intervals(e)) = Quota(Intervals(e) + 1)
        BY <4>1
      <4> QED BY <4>2, <4>3
    <3>3. Abs(rt_torque_last') =< rise + Quota(1 + Intervals(e))
      BY <1>2, <2>2, <2>3, <2>9, <3>1, <3>2
    <3>4. el' =< e /\ e - el' = e
      BY <1>2, <2>9
    <3> QED BY <1>4, <2>2, <2>8, <3>3, <3>4
  <2>10. CASE rt_torque_last' = rt_torque_last /\ el' = el
    BY <1>4, <1>5, <2>2, <2>8, <2>10
  <2> QED BY <2>5, <2>9, <2>10
<1> QED BY <1>7, <1>8

LEMMA EngageRt == ASSUME IInv, Engage PROVE RtMemory'
<1> USE LimitsAssumption
<1>1. /\ engaged_for' = 0 /\ rise_from' = Greater(Abs(sent), Abs(rt_torque_last))
      /\ sent' = sent /\ rt_torque_last' = rt_torque_last
  BY DEF Engage, checkVars
<1>2. /\ sent \in Int /\ rt_torque_last \in Int
      /\ Abs(sent) \in Nat /\ Abs(rt_torque_last) \in Nat
  BY DEF IInv, TypeOK, Abs, Greater
<1>3. rise_from' \in Nat /\ Abs(sent) =< rise_from' /\ Abs(rt_torque_last) =< rise_from'
  BY <1>1, <1>2 DEF Greater
<1>4. Quota(2 + Intervals(0)) \in Int /\ Quota(2 + Intervals(0)) >= 0
  <2>1. 2 + Intervals(0) \in Nat
    BY IntervalsGrow
  <2> QED BY <2>1, QuotaGrows
<1>5. Abs(sent') =< rise_from' + Quota(2 + Intervals(engaged_for'))
  BY <1>1, <1>2, <1>3, <1>4
<1>6. Abs(rt_torque_last') =< rise_from'
  BY <1>1, <1>3
<1> QED BY <1>5, <1>6 DEF RtMemory

LEMMA PassTimeRt == ASSUME IInv, RtMemory, PassTime PROVE RtMemory'
<1> USE IInv, RtMemory, PassTime, LimitsAssumption
<1> DEFINE el == Elapsed(ts_torque_check_last)
           e == engaged_for
           rise == rise_from
<1> SUFFICES ASSUME controls_allowed', engaged_for' < TimeCap
             PROVE  /\ Abs(sent') =< rise' + Quota(2 + Intervals(e'))
                    /\ \/ Abs(rt_torque_last') =< rise'
                       \/ /\ el' =< e'
                          /\ Abs(rt_torque_last') =< rise' + Quota(1 + Intervals(e' - el'))
  BY DEF RtMemory
<1>1. /\ UNCHANGED <<controls_allowed, rise_from, sent, rt_torque_last, ts_torque_check_last>>
      /\ timer' = (timer + 1) % TimerSize
  BY DEF PassTime, checkVars
<1>2. /\ timer \in 0..(TimerSize - 1) /\ ts_torque_check_last \in 0..(TimerSize - 1)
      /\ e \in Nat /\ rise \in Nat /\ sent \in Int /\ rt_torque_last \in Int
      /\ engaged_for =< TimeCap
  BY DEF IInv, TypeOK
<1>3. timer' = IF timer = TimerSize - 1 THEN 0 ELSE timer + 1
  BY <1>1, <1>2
<1>4. el \in Nat /\ el' \in Nat /\ el' =< el + 1
  <2>1. el = IF timer >= ts_torque_check_last THEN timer - ts_torque_check_last
             ELSE timer - ts_torque_check_last + TimerSize
    BY <1>2, ElapsedIs
  <2>2. timer' \in 0..(TimerSize - 1)
    BY <1>2, <1>3
  <2>3. el' = IF timer' >= ts_torque_check_last THEN timer' - ts_torque_check_last
              ELSE timer' - ts_torque_check_last + TimerSize
    BY <1>1, <1>2, <2>2 DEF Elapsed
  <2> QED BY <1>2, <1>3, <2>1, <2>2, <2>3
<1>5. e' = e + 1 /\ e < TimeCap /\ controls_allowed /\ rise' = rise
  BY <1>1, <1>2 DEF PassTime, Lesser
<1>6. /\ Abs(sent) =< rise + Quota(2 + Intervals(e))
      /\ \/ Abs(rt_torque_last) =< rise
         \/ /\ el =< e
            /\ Abs(rt_torque_last) =< rise + Quota(1 + Intervals(e - el))
  BY <1>5 DEF RtMemory
<1>7. /\ Abs(sent) \in Nat /\ Abs(rt_torque_last) \in Nat
      /\ Abs(sent') = Abs(sent) /\ Abs(rt_torque_last') = Abs(rt_torque_last)
  BY <1>1, <1>2 DEF Abs, Greater
<1> HIDE DEF el, e, rise
<1>8. ASSUME NEW k \in Nat, NEW s \in Nat, NEW t \in Nat, s =< t
      PROVE  /\ Quota(k + Intervals(s)) \in Int /\ Quota(k + Intervals(t)) \in Int
             /\ Quota(k + Intervals(s)) =< Quota(k + Intervals(t))
  <2>1. Intervals(s) \in Nat /\ Intervals(t) \in Nat /\ Intervals(s) =< Intervals(t)
    BY <1>8, IntervalsGrow
  <2>2. /\ k + Intervals(s) \in Int /\ k + Intervals(t) \in Int
        /\ k + Intervals(s) =< k + Intervals(t)
    BY <2>1
  <2>3. \A i \in Int, j \in Int : i =< j => Quota(i) =< Quota(j)
    BY QuotaGrows
  <2>4. Quota(k + Intervals(s)) =< Quota(k + Intervals(t))
    BY <2>2, <2>3
  <2> QED BY <2>2, <2>4, QuotaGrows
<1>9. Abs(sent') =< rise' + Quota(2 + Intervals(e'))
  <2>1. e \in Nat /\ e' \in Nat /\ e =< e' /\ 2 \in Nat
    BY <1>2, <1>5
  <2>2. /\ Quota(2 + Intervals(e)) \in Int /\ Quota(2 + Intervals(e')) \in Int
        /\ Quota(2 + Intervals(e)) =< Quota(2 + Intervals(e'))
    BY <1>8, <2>1
  <2> QED BY <1>2, <1>5, <1>6, <1>7, <2>2
<1>10. CASE Abs(rt_torque_last) =< rise
  BY <1>5, <1>7, <1>9, <1>10
<1>11. CASE el =< e /\ Abs(rt_torque_last) =< rise + Quota(1 + Intervals(e - el))
  <2>1. /\ e - el \in Nat /\ e' - el' \in Nat /\ e - el =< e' - el' /\ 1 \in Nat
        /\ el' =< e'
    <3>1. el =< e /\ e \in Nat /\ e' = e + 1 /\ el \in Nat /\ el' \in Nat /\ el' =< el + 1
      BY <1>2, <1>4, <1>5, <1>11
    <3>2. ASSUME NEW a \in Nat, NEW b \in Nat, NEW c \in Nat, a =< b, c =< a + 1
          PROVE  b - a \in Nat /\ (b + 1) - c \in Nat /\ b - a =< (b + 1) - c /\ c =< b + 1
      BY <3>2
    <3> QED BY <3>1, <3>2
  <2>2. /\ Quota(1 + Intervals(e - el)) \in Int /\ Quota(1 + Intervals(e' - el')) \in Int
        /\ Quota(1 + Intervals(e - el)) =< Quota(1 + Intervals(e' - el'))
    BY <1>8, <2>1
  <2>3. Abs(rt_torque_last') =< rise' + Quota(1 + Intervals(e' - el'))
    BY <1>2, <1>5, <1>7, <1>11, <2>2
  <2> QED BY <1>9, <2>1, <2>3
<1> QED BY <1>6, <1>10, <1>11

\* Torque after an engagement is bounded by the time since, for any limits, any
\* interval and a timer of any width.
THEOREM RampsInRealTime == Spec => []TorqueRampsInRealTime
<1>1. Init => RtMemory
  BY DEF Init, RtMemory
<1>2. IInv /\ RtMemory /\ [Next]_vars => RtMemory'
  <2> SUFFICES ASSUME IInv, RtMemory, [Next]_vars PROVE RtMemory'
    OBVIOUS
  <2>1. CASE \E raw \in Measured : RxTorqueMeas(raw)
    BY <2>1 DEF RxTorqueMeas, checkVars, histVars, RtMemory, Elapsed
  <2>2. CASE \E d \in Desired, req \in BOOLEAN : TxSteer(d, req)
    BY <2>2, TxSteerRt
  <2>3. CASE Engage
    BY <2>3, EngageRt
  <2>4. CASE Disengage \/ SetSafetyHooks
    BY <2>4 DEF Disengage, SetSafetyHooks, RtMemory
  <2>5. CASE PassTime
    BY <2>5, PassTimeRt
  <2>6. CASE UNCHANGED vars
    BY <2>6 DEF vars, checkVars, histVars, RtMemory, Elapsed
  <2> QED BY <2>1, <2>2, <2>3, <2>4, <2>5, <2>6 DEF Next
<1>3. RtMemory => TorqueRampsInRealTime
  BY DEF RtMemory, TorqueRampsInRealTime, Quota, Intervals
<1> QED BY <1>1, <1>2, <1>3, Invariance, PTL DEF Spec
=============================================================================
