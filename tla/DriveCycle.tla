----------------------------- MODULE DriveCycle -----------------------------
(***************************************************************************)
(* A drive from key to key: the car, the panda, boardd, thermald, flowinitd*)
(* and controlsd, which know of each other only by messages, parameters and*)
(* a safety mode.  The steps of all interleave freely within a loop of     *)
(* 500 ms; none misses the deadline that its period sets, but for boardd   *)
(* when it stalls.                                                         *)
(***************************************************************************)
EXTENDS Supervision

CONSTANTS
  MaxTurns,      \* bound: turns of the key and disturbances
  MaxFailures    \* bound: failures

ASSUME DriveCycleAssumption == MaxTurns \in Nat /\ MaxFailures \in Nat

VARIABLE events

vars == <<store, boarddVars, supervisionVars, events>>

Init == BoarddInit /\ SupervisionInit /\ events = [turns |-> 0, failures |-> 0]

Program == MainThread \/ StateThread \/ SetterThread
ProgramStep == Program /\ UNCHANGED <<supervisionVars, events>>
Supervised == (ThermaldLoop \/ ManagerLoop \/ Controlsd) /\ UNCHANGED events

Turn ==
  /\ events.turns < MaxTurns /\ events' = [events EXCEPT !.turns = @ + 1]
  /\ TurnKey /\ UNCHANGED supervisionVars

\* A process dies for good.
Crash ==
  /\ events.failures < MaxFailures /\ events' = [events EXCEPT !.failures = @ + 1]
  /\ (BoarddCrash /\ UNCHANGED supervisionVars) \/ ControlsdDies

\* A failure that passes.  Bound: it takes the place of a turn of the key.
Disturbance ==
  /\ events.failures < MaxFailures /\ events.turns < MaxTurns
  /\ events' = [turns |-> events.turns + 1, failures |-> events.failures + 1]
  /\ ((Unplug \/ Stall) /\ UNCHANGED supervisionVars) \/ ConditionFails

Repair == ((Replug /\ UNCHANGED supervisionVars) \/ ConditionReturns) /\ UNCHANGED events

Tick ==
  /\ BoarddOnTime /\ SupervisionOnTime
  /\ LoopPasses /\ SupervisionPasses /\ UNCHANGED events

Next == ProgramStep \/ Supervised \/ Turn \/ Crash \/ Disturbance \/ Repair \/ Tick

Fairness ==
  /\ WF_vars(MainThread /\ UNCHANGED <<supervisionVars, events>>)
  /\ WF_vars(StateThread /\ UNCHANGED <<supervisionVars, events>>)
  /\ WF_vars(SetterThread /\ UNCHANGED <<supervisionVars, events>>)
  /\ WF_vars(ThermaldLoop /\ UNCHANGED events)
  /\ WF_vars(ManagerLoop /\ UNCHANGED events)
  /\ WF_vars((PutVin \/ PutParams \/ BecomeReady) /\ UNCHANGED events)
  /\ SF_vars(Tick)

Spec == Init /\ [][Next]_vars /\ Fairness

-----------------------------------------------------------------------------
(* Properties                                                              *)

\* The states of the processes fit together: a process is there exactly while there
\* is a handle on it, and thermald times the offroad phases and only those.
TypeOK ==
  /\ store \in [Keys -> Ages] /\ mode \in Modes /\ heard \in 0..HEARTBEAT_CNT
  /\ state.pc \in StateSteps /\ setter.pc \in SetterSteps /\ setter.params \in Ages
  /\ controlsd \in ControlsSteps /\ (handler <=> controlsd # "off")
  /\ thermald.off \in 0..(OFFROAD_MIN + 1) \cup {Never}
  /\ (thermald.started => thermald.off = Never /\ thermald.ignition)

\* Two loops of the state thread, each in time, that find the ignition off leave the panda without
\* output, and it stays so: although the setter may be past its own check of the
\* ignition, and the state thread acts on a health packet it read before.
OffWithinTwoLoops == connected /\ offLoops = 2 => mode \in {"noOutput", "silent"}

\* A controlsd that no longer publishes is taken for engaged by two heartbeats at most,
\* and by the second only when a slow loop and the next without a pause update within
\* 100 ms: however loops overrun, an age test of 100 ms ends what it says.
EngagedHeartbeatsEnd == engagedBeats =< 2

\* The panda never enters the car's mode by parameters from before the ignition rose,
\* whatever the setter of an earlier drive had read.  Exempt is a setter during which
\* boardd's loops followed each other without a pause: it may live on into the next drive,
\* which boardd logs, and set the mode by what it read in its own.
ParamsOfThisDrive ==
  [][setter.pc = "car" /\ setter'.pc = "off" /\ connected'
       => setter.params = "fresh" \/ setter.hurried]_vars

\* When flowinitd has come round, a controlsd that runs was started in this onroad
\* phase: no phase is so short that flowinitd does not see it.
OneControlsdPerDrive ==
  [][manager' = 0 /\ thermald.started /\ controlsd' # "off" => drive'.controlsd = drive'.now]_vars

\* The running controlsd had written a key that is gone again: boardd reconnected in
\* the middle of a drive and cleared it.
Erased ==
  \/ controlsd \in {"vin", "step", "ready"} /\ ~Has("CarVin")
  \/ controlsd \in {"step", "ready"} /\ ~Has("CarParams")
  \/ controlsd = "ready" /\ ~Has("ControlsReady")

\* With the ignition on, the panda on the bus and nothing broken in this drive, the
\* panda ends up in the car's mode with a controlsd that is ready, whatever overheated,
\* filled up or was unplugged before.  Broken is a device kept offroad by a condition, a
\* controlsd or a pandad that died, a key erased in mid drive, and a panda that went
\* silent after it had told of the ignition: then boardd asks for noOutput, and may ask
\* last.  Nothing in the code mends these before the next turn of the key, and nothing
\* ever restarts pandad.
DriveComesUp ==
  <>[](ignitionLine /\ link /\ pandad /\ ~KeptOffroad /\ controlsd # "dead" /\ ~Erased /\ ~lapsed)
    => <>[](mode = "car" /\ controlsd = "ready")

\* With the ignition off, the cable out or boardd dead, the panda ends up without
\* output and controlsd is stopped, alive or dead.
DriveGoesDown ==
  <>[](~ignitionLine \/ ~link \/ ~pandad)
    => <>[](mode \in {"noOutput", "silent"} /\ controlsd = "off" /\ setter.pc = "off")
=============================================================================
