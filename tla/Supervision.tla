---------------------------- MODULE Supervision ----------------------------
(***************************************************************************)
(* Who decides that the device is onroad, and who starts controlsd then:   *)
(* thermald, flowinitd and the start of controlsd up to its first steps    *)
(* (ControlsState has the rest).  Time is counted in loops of 500 ms.      *)
(***************************************************************************)
EXTENDS Boardd

CONSTANTS
  OFFROAD_MIN,        \* loops offroad before the next start: 5 s
  DISCONNECT_TIMEOUT, \* loops without pandaStates before going offroad: 5 s
  MANAGER_PERIOD,     \* loops within which flowinitd comes round: 3 s
  Never

\* thermald's pause is longer than a round of flowinitd.
ASSUME SupervisionAssumption ==
  /\ OFFROAD_MIN \in Nat /\ DISCONNECT_TIMEOUT \in Nat /\ MANAGER_PERIOD \in Nat \ {0}
  /\ MANAGER_PERIOD <= OFFROAD_MIN /\ Never \notin Nat

VARIABLES
  thermald,      \* the state of its thread
  unmet,         \* conditions that do not hold: "onroad" (device_temp_good) and
                 \* "startup" (not_uninstalling, free_space)
  manager,       \* loops since flowinitd last came round
  handler,       \* flowinitd holds a handle on a controlsd process
  controlsd,     \* how far that process has come
  drive          \* history: onroad phases of thermald and controlsd's, parity only

supervisionVars == <<thermald, unmet, manager, handler, controlsd, drive>>

ControlsSteps == {"off", "boot", "fingerprint", "vin", "step", "ready", "dead"}

SupervisionInit ==
  /\ thermald = [ignition |-> FALSE, started |-> FALSE, seen |-> FALSE, off |-> Never,
                 since |-> DISCONNECT_TIMEOUT + 1, ran |-> FALSE]
  /\ unmet = {} /\ manager = 0 /\ handler = FALSE /\ controlsd = "off"
  /\ drive = [now |-> 0, controlsd |-> 0]

-----------------------------------------------------------------------------
(* thermald, one loop for each pandaStates or after 750 ms without         *)

\* Mutant: a panda that has gone silent leaves the last ignition in force.
IgnitionFromMessagesOnly ==
  IF pandaStates # "none" THEN pandaStates = "on" ELSE thermald.ignition
\* The empty state of unknown type tells of no ignition.
IgnitionCondition ==
  IF pandaStates # "none" THEN pandaStates = "on"
  ELSE thermald.ignition /\ thermald.since <= DISCONNECT_TIMEOUT

\* Mutant: the device may go onroad again at once.
NoMinTime == TRUE
\* The time offroad is only asked of a device that has been onroad.
OffroadMinTime == ~thermald.seen \/ (thermald.off # Never /\ thermald.off > OFFROAD_MIN)

\* The startup conditions are only asked of a device that is offroad.
KeptOffroad == "onroad" \in unmet \/ ("startup" \in unmet /\ ~thermald.started)

ShouldStart == IgnitionCondition /\ ~KeptOffroad /\ (thermald.started \/ OffroadMinTime)

\* Mutant: the time it went offroad is kept.
OffTimeKept(starts) == IF thermald.off = Never /\ ~starts THEN 0 ELSE thermald.off
OffTime(starts) == IF starts THEN Never ELSE IF thermald.off = Never THEN 0 ELSE thermald.off

ThermaldLoop ==
  /\ ~thermald.ran
  /\ thermald' = [ignition |-> IgnitionCondition, started |-> ShouldStart,
                  seen |-> thermald.seen \/ ShouldStart, off |-> OffTime(ShouldStart),
                  since |-> IF pandaStates # "none" THEN 0 ELSE thermald.since, ran |-> TRUE]
  /\ pandaStates' = "none"
  /\ drive' = [drive EXCEPT !.now = IF ShouldStart /\ ~thermald.started THEN 1 - @ ELSE @]
  /\ UNCHANGED <<store, pandaVars, process, threads, controlsState, boarddHistory,
                 unmet, manager, handler, controlsd>>

-----------------------------------------------------------------------------
(* flowinitd                                                               *)

\* ManagerProcess.start: nothing happens while there is a handle, be it on a process
\* that has died.
StartControlsd ==
  /\ handler' = TRUE
  /\ controlsd' = IF handler THEN controlsd ELSE "boot"
  /\ drive' = IF handler THEN drive ELSE [drive EXCEPT !.controlsd = drive.now]

\* Mutant: the handle on a process that has died is kept.
StopIfAlive ==
  /\ handler' = (handler /\ controlsd = "dead") /\ controlsd' = "off" /\ UNCHANGED drive
\* ManagerProcess.stop: terminates the process if it lives, and waits for its end.
StopControlsd == handler' = FALSE /\ controlsd' = "off" /\ UNCHANGED drive

ManagerLoop ==
  /\ manager' = 0
  /\ IF thermald.started THEN StartControlsd ELSE StopControlsd
  /\ UNCHANGED <<store, boarddVars, thermald, unmet>>

-----------------------------------------------------------------------------
(* controlsd                                                               *)

ControlsOnly == UNCHANGED <<boarddVars, thermald, unmet, manager, handler, drive>>

\* fingerprint, once CAN messages arrive: the last thing before it eliminates cars.
PutVin ==
  /\ controlsd = "fingerprint" /\ connected
  /\ controlsd' = "vin" /\ Put("CarVin") /\ ControlsOnly

PutParams == controlsd = "vin" /\ controlsd' = "step" /\ Put("CarParams") /\ ControlsOnly

\* All checks passed, or 3.5 s went by.
BecomeReady == controlsd = "step" /\ controlsd' = "ready" /\ Put("ControlsReady") /\ ControlsOnly

\* publish_logs.  Only an initialised controlsd engages.  A message that says otherwise
\* counts as one only while boardd holds the contrary; else it changes nothing there.
Publish(enabled) ==
  /\ controlsd \in {"step", "ready"} /\ (enabled => controlsd = "ready")
  /\ controlsState' = IF enabled THEN "engaged" ELSE IF state.held THEN "disengaged" ELSE "none"
  /\ engagedBeats' = 0
  /\ UNCHANGED <<store, pandaVars, process, threads, pandaStates, lapsed, offLoops, supervisionVars>>

\* It crashes, or hangs: nothing more comes from it.
ControlsdDies ==
  /\ controlsd \notin {"off", "dead"} /\ controlsd' = "dead"
  /\ UNCHANGED store /\ ControlsOnly

\* The device heats up, its storage fills, or the user asks to uninstall.
ConditionFails ==
  /\ \E c \in {"onroad", "startup"} \ unmet : unmet' = unmet \cup {c}
  /\ UNCHANGED <<store, boarddVars, thermald, manager, handler, controlsd, drive>>

\* It cools down, the storage is freed, or the request is withdrawn.
ConditionReturns ==
  /\ \E c \in unmet : unmet' = unmet \ {c}
  /\ UNCHANGED <<store, boarddVars, thermald, manager, handler, controlsd, drive>>

Controlsd == PutVin \/ PutParams \/ BecomeReady \/ \E e \in BOOLEAN : Publish(e)

-----------------------------------------------------------------------------

Counted(n, max) == IF n < max THEN n + 1 ELSE n

\* Time: 500 ms.  A process takes that long to start.
SupervisionPasses ==
  /\ thermald' = [thermald EXCEPT !.ran = FALSE, !.since = Counted(@, DISCONNECT_TIMEOUT + 1),
                    !.off = IF @ = Never THEN Never ELSE Counted(@, OFFROAD_MIN + 1)]
  /\ manager' = manager + 1
  /\ controlsd' = IF controlsd = "boot" THEN "fingerprint" ELSE controlsd
  /\ UNCHANGED <<unmet, handler, drive>>

SupervisionOnTime == thermald.ran /\ manager < MANAGER_PERIOD
=============================================================================
