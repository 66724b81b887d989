------------------------------- MODULE Boardd -------------------------------
(***************************************************************************)
(* boardd and its panda: the panda state thread, the safety setter thread  *)
(* it starts when the ignition rises, and what pandad and the USB link do  *)
(* to them.  Of the panda only the safety mode and the heartbeat count are *)
(* kept (PandaSafety has the rest).  One action per access to the panda,   *)
(* to the shared flag `ignition` or to the parameters.                     *)
(***************************************************************************)
EXTENDS Naturals, ParamsStore

CONSTANT
  HEARTBEAT_CNT  \* state loops without a heartbeat after which the panda goes silent

ASSUME BoarddAssumption == HEARTBEAT_CNT \in Nat /\ HEARTBEAT_CNT > 1

VARIABLES
  ignitionLine,  \* the car's ignition, as the panda senses it
  link,          \* the panda is on the USB bus
  mode,          \* the panda's safety mode
  heard,         \* loops since the panda got a heartbeat, up to HEARTBEAT_CNT
  pandad,        \* pandad runs
  connected,     \* Panda::connected
  ignition,      \* the flag the threads of boardd share
  state,         \* the main thread, then the panda state thread
  setter,        \* the safety setter thread
  pandaStates,   \* the last message on the topic, until thermald receives it
  controlsState, \* the last message on the topic, until boardd receives it
  lapsed,        \* history: the panda went silent since the health packet with the last rise
  offLoops,      \* history: state loops in a row that found the ignition off, up to 2
  engagedBeats   \* history: engaged heartbeats since controlsd last published, up to 3

pandaVars == <<ignitionLine, link, mode, heard>>
process == <<pandad, connected>>
threads == <<ignition, state, setter>>
topics == <<pandaStates, controlsState>>
boarddHistory == <<lapsed, offLoops, engagedBeats>>
boarddVars == <<pandaVars, process, threads, topics, boarddHistory>>

Modes == {"silent", "noOutput", "elm327", "car"}
StateSteps == {"off", "connect", "retry", "read", "apply", "share", "clear", "spawn", "update", "beat", "sleep"}
Transfers == {"read", "apply", "beat"}
SetterSteps == {"off", "elm", "vin", "elm1", "ready", "get", "car"}

\* on and mode: from the health packet of this loop, until the last use of each.
\* slow: this loop takes more than 400 ms.  held: the last controlsState says engaged,
\* and boardd received it less than 100 ms ago.
StateOff == [pc |-> "off", on |-> FALSE, mode |-> "silent", last |-> FALSE, todo |-> {},
             slow |-> FALSE, held |-> FALSE]
\* polled: since the flag was last stored.  hurried: while the setter ran, a loop of the
\* state thread followed on another without a pause.
SetterOff == [pc |-> "off", params |-> "none", polled |-> FALSE, hurried |-> FALSE]

BoarddInit ==
  /\ store = [k \in Keys |-> "none"]
  /\ ignitionLine = FALSE /\ link = TRUE /\ mode = "silent" /\ heard = HEARTBEAT_CNT
  /\ pandad = TRUE /\ connected = FALSE /\ ignition = FALSE
  /\ state = StateOff /\ setter = SetterOff
  /\ pandaStates = "none" /\ controlsState = "none"
  /\ lapsed = FALSE /\ offLoops = 0 /\ engagedBeats = 0

\* A control transfer reaches the panda only over a live connection.
SetSafetyModel(m) == mode' = IF connected THEN m ELSE mode

-----------------------------------------------------------------------------
(* pandad and the main thread                                              *)

\* pandad starts boardd once it lists a panda and the last boardd has ended.
Launch ==
  /\ pandad /\ link /\ state.pc = "off" /\ setter.pc = "off"
  /\ state' = [StateOff EXCEPT !.pc = "connect"] /\ ignition' = FALSE
  /\ UNCHANGED <<store, pandaVars, process, setter, topics, boarddHistory>>

\* The state thread subscribes anew: what controlsd said before does not reach it.
Connect ==
  /\ state.pc = "connect" /\ link
  /\ connected' = TRUE /\ offLoops' = 0 /\ controlsState' = "none"
  /\ state' = [state EXCEPT !.pc = "read"]
  /\ UNCHANGED <<store, pandaVars, pandad, ignition, setter, pandaStates, lapsed, engagedBeats>>

\* The panda has gone meanwhile: an empty state of unknown type, every 500 ms.
ConnectFails ==
  /\ state.pc = "connect" /\ ~link
  /\ pandaStates' = "unknown"
  /\ state' = [state EXCEPT !.pc = "retry"]
  /\ UNCHANGED <<store, pandaVars, process, ignition, setter, controlsState, boarddHistory>>

-----------------------------------------------------------------------------
(* panda_state_thread, one loop every 500 ms                               *)

\* The process ends when the link is lost; it waits for the setter on its way out.
Exit ==
  /\ state.pc = "read" /\ ~connected /\ setter.pc = "off"
  /\ state' = StateOff
  /\ UNCHANGED <<store, pandaVars, process, ignition, setter, topics, boarddHistory>>

Rises(s) == s.on /\ ~s.last

\* send_panda_states: the health packet is read here and used below.
Read ==
  /\ state.pc = "read" /\ connected
  /\ state' = [state EXCEPT !.pc = "apply", !.on = ignitionLine, !.mode = mode]
  /\ lapsed' = (lapsed /\ ~Rises(state'))
  /\ UNCHANGED <<store, pandaVars, process, ignition, setter, topics, offLoops, engagedBeats>>

\* Whether this loop asks for noOutput, going by the health packet.  The part about the
\* ignition is compiled in on the device and left out on a PC (x86_64).
NeedsNoOutput(s) == s.mode = "silent" \/ (~s.on /\ s.mode # "noOutput")

Apply ==
  /\ state.pc = "apply"
  /\ IF NeedsNoOutput(state) THEN SetSafetyModel("noOutput") ELSE UNCHANGED mode
  /\ pandaStates' = IF state.on THEN "on" ELSE "off"
  /\ state' = [state EXCEPT !.pc = "share", !.mode = "silent"]
  /\ UNCHANGED <<store, ignitionLine, link, heard, process, ignition, setter,
                 controlsState, boarddHistory>>

\* Mutant: the parameters of the car survive.
ToClearButParams == Keys \ {"CarParams"}
\* clearAll(CLEAR_ON_IGNITION_ON), in the order of a hash table.
ToClear == Keys

\* The flag is what the setter looks at; on a rising edge a drive begins.
Share ==
  /\ state.pc = "share"
  /\ ignition' = state.on
  /\ IF Rises(state)
     THEN /\ GrowOld
          /\ state' = [state EXCEPT !.pc = "clear", !.todo = ToClear]
          /\ setter' = [setter EXCEPT !.params = Grown(@), !.polled = FALSE]
     ELSE /\ state' = [state EXCEPT !.pc = "update"]
          /\ setter' = [setter EXCEPT !.polled = FALSE]
          /\ UNCHANGED store
  /\ offLoops' = IF state.on THEN 0 ELSE offLoops
  /\ UNCHANGED <<pandaVars, process, topics, lapsed, engagedBeats>>

ClearOne(key) ==
  /\ state.pc = "clear" /\ key \in state.todo
  /\ Remove(key)
  /\ state' = [state EXCEPT !.todo = @ \ {key}, !.pc = IF state.todo = {key} THEN "spawn" ELSE "clear"]
  /\ UNCHANGED <<pandaVars, process, ignition, setter, topics, boarddHistory>>

Spawn ==
  /\ state.pc = "spawn"
  /\ setter' = IF setter.pc = "off" THEN [SetterOff EXCEPT !.pc = "elm"] ELSE setter
  /\ state' = [state EXCEPT !.pc = "update"]
  /\ UNCHANGED <<store, pandaVars, process, ignition, topics, boarddHistory>>

\* SubMaster::update: a message received now is alive, and one received less than 100 ms
\* ago still is; its age is counted from its receipt.
SaysEngaged == IF controlsState # "none" THEN {controlsState = "engaged"} ELSE {FALSE, state.held}

\* What the heartbeat will say is settled before it is sent, and is counted here.
Update ==
  /\ state.pc = "update"
  /\ \E engaged \in SaysEngaged :
       /\ state' = [state EXCEPT !.pc = "beat", !.held = engaged]
       /\ engagedBeats' = IF engaged /\ engagedBeats < 3 THEN engagedBeats + 1 ELSE engagedBeats
  /\ controlsState' = "none"
  /\ UNCHANGED <<store, pandaVars, process, ignition, setter, pandaStates, lapsed, offLoops>>

\* The thread sleeps until 500 ms are over: not at all after a loop that took longer.
AfterLoop(s) == IF s.slow THEN {"read", "sleep"} ELSE {"sleep"}

\* The heartbeat closes the loop.
Beat ==
  /\ state.pc = "beat"
  /\ heard' = IF connected THEN 0 ELSE heard
  /\ offLoops' = IF ~state.on /\ ~state.slow /\ offLoops < 2 THEN offLoops + 1 ELSE offLoops
  /\ \E pc \in AfterLoop(state) :
       /\ state' = [StateOff EXCEPT !.pc = pc, !.last = state.on, !.held = state.held,
                      !.slow = state.slow /\ pc = "sleep"]
       /\ setter' = [setter EXCEPT !.hurried = @ \/ (setter.pc # "off" /\ pc = "read")]
  /\ UNCHANGED <<store, ignitionLine, link, mode, process, ignition, topics, lapsed, engagedBeats>>

-----------------------------------------------------------------------------
(* safety_setter_thread                                                    *)

\* Mutant: the thread does not look at the ignition again.
AbortsOnLinkLoss == ~connected
\* What ends the wait: the link is lost, or the drive.
Aborts == ~connected \/ ~ignition

SetterStep(pc) == setter' = [setter EXCEPT !.pc = pc]
SetterOnly == UNCHANGED <<store, pandaVars, process, ignition, state, topics, boarddHistory>>
SetterAndMode == UNCHANGED <<store, ignitionLine, link, heard, process, ignition, state, topics, boarddHistory>>

\* Fingerprinting talks to the ECUs in this mode.
SetElm ==
  /\ setter.pc = "elm" /\ SetSafetyModel("elm327") /\ SetterStep("vin") /\ SetterAndMode

\* One poll for a parameter; without it the thread sleeps and polls again.
Poll(pc, key, next) ==
  /\ setter.pc = pc
  /\ setter' = IF Aborts THEN SetterOff
               ELSE [setter EXCEPT !.pc = IF Has(key) THEN next ELSE pc, !.polled = TRUE]
  /\ SetterOnly

AwaitVin == Poll("vin", "CarVin", "elm1")
AwaitReady == Poll("ready", "ControlsReady", "get")

SetElm1 ==
  /\ setter.pc = "elm1" /\ SetSafetyModel("elm327") /\ SetterStep("ready") /\ SetterAndMode

\* CarParams is read in a transaction of its own.
GetParams ==
  /\ setter.pc = "get"
  /\ setter' = IF Has("CarParams")
               THEN [setter EXCEPT !.pc = "car", !.params = store["CarParams"]]
               ELSE [setter EXCEPT !.pc = "ready"]
  /\ SetterOnly

\* "car" stands for the safety mode those parameters name.
SetCar ==
  /\ setter.pc = "car" /\ SetSafetyModel("car") /\ setter' = SetterOff /\ SetterAndMode

-----------------------------------------------------------------------------
(* The car, the cable, and what fails                                      *)

TurnKey ==
  /\ ignitionLine' = ~ignitionLine
  /\ UNCHANGED <<store, link, mode, heard, process, threads, topics, boarddHistory>>

\* The receive thread finds the panda gone within 10 ms.
Unplug ==
  /\ link /\ link' = FALSE /\ connected' = FALSE
  /\ UNCHANGED <<store, ignitionLine, mode, heard, pandad, threads, topics, boarddHistory>>

Replug ==
  /\ ~link /\ link' = TRUE
  /\ UNCHANGED <<store, ignitionLine, mode, heard, process, threads, topics, boarddHistory>>

\* boardd dies: pandad, which checks its exit code, dies with it.
BoarddCrash ==
  /\ state.pc # "off" /\ pandad
  /\ pandad' = FALSE /\ connected' = FALSE /\ ignition' = FALSE
  /\ state' = StateOff /\ setter' = SetterOff
  /\ UNCHANGED <<store, pandaVars, topics, boarddHistory>>

\* Transfers stall and are retried: the loop takes over 400 ms.  A stall that begins
\* before the update and goes on after it counts as one before it.
Stall ==
  /\ connected /\ state.pc \in Transfers
  /\ state' = [state EXCEPT !.slow = TRUE, !.held = FALSE]
  /\ UNCHANGED <<store, pandaVars, process, ignition, setter, topics, boarddHistory>>

\* Mutant: the last controlsState is alive however old it is.
AliveForever(s) == s.held
\* The next loop comes within 100 ms of the last update only if that was late.
StillAlive(s) == s.held /\ s.pc = "sleep" /\ s.slow

\* Time: 500 ms.  The panda's own tick counts the heartbeats it misses.
LoopPasses ==
  /\ heard' = IF heard < HEARTBEAT_CNT THEN heard + 1 ELSE heard
  /\ mode' = IF heard' = HEARTBEAT_CNT THEN "silent" ELSE mode
  /\ lapsed' = (lapsed \/ (heard' = HEARTBEAT_CNT /\ mode # "silent"))
  /\ state' = [state EXCEPT !.held = StillAlive(state), !.slow = @ /\ state.pc # "sleep",
                  !.pc = CASE @ = "sleep" -> "read" [] @ = "retry" -> "connect" [] OTHER -> @]
  /\ setter' = [setter EXCEPT !.polled = FALSE]
  /\ UNCHANGED <<store, ignitionLine, link, process, ignition, topics, offLoops, engagedBeats>>

\* The deadlines of a loop: the state thread has finished its own, and the setter,
\* which polls every 100 ms, has polled since the flag was last stored.  The
\* transfers of a slow loop have none, and hold the setter up with them: both share the
\* lock of the handle.  Bound: a stall is over when the panda has gone silent.
BoarddOnTime ==
  \/ state.slow /\ state.pc \in Transfers /\ heard < HEARTBEAT_CNT
  \/ /\ state.pc \in {"off", "retry", "sleep"}
     /\ setter.pc = "off" \/ (setter.pc \in {"vin", "ready"} /\ setter.polled)

StateThread == Exit \/ Read \/ Apply \/ Share \/ (\E k \in Keys : ClearOne(k)) \/ Spawn \/ Update
               \/ Beat
SetterThread == SetElm \/ AwaitVin \/ SetElm1 \/ AwaitReady \/ GetParams \/ SetCar
MainThread == Launch \/ Connect \/ ConnectFails
=============================================================================
