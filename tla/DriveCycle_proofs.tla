-------------------------- MODULE DriveCycle_proofs --------------------------
(***************************************************************************)
(* Safety theorems of DriveCycle, for all periods, timeouts and numbers of *)
(* turns and failures.  Boardd's part of the inductive invariant and that  *)
(* of Supervision are kept by each other's steps.                          *)
(***************************************************************************)
EXTENDS DriveCycle, TLAPS

Quiet == {"noOutput", "silent"}
Looking == {"read", "apply", "share"}   \* the state thread, before it shares the ignition

StateRecords == [pc : StateSteps, on : BOOLEAN, mode : Modes, last : BOOLEAN,
                 todo : SUBSET Keys, slow : BOOLEAN, held : BOOLEAN]
SetterRecords == [pc : SetterSteps, params : Ages, polled : BOOLEAN, hurried : BOOLEAN]

BoarddTypes ==
  /\ store \in [Keys -> Ages] /\ mode \in Modes /\ heard \in 0..HEARTBEAT_CNT
  /\ state \in StateRecords
  /\ setter \in SetterRecords
  /\ connected \in BOOLEAN /\ ignition \in BOOLEAN /\ ignitionLine \in BOOLEAN
  /\ offLoops \in 0..2 /\ engagedBeats \in 0..3

\* What the state thread remembers of the ignition is the flag it shares; a poll that
\* went on since the flag was stored has seen the ignition on.
FlagInv ==
  /\ state.pc \in Looking \cup {"connect", "retry", "sleep"} => state.last = ignition
  /\ state.pc \in {"clear", "spawn", "update", "beat"} => state.on = ignition
  /\ state.pc \in {"clear", "spawn"} => ignition
  /\ setter.polled => ignition /\ setter.pc # "off"
  /\ offLoops > 0 => ~ignition

\* A setter is there only within a drive and through its first loop without ignition,
\* but for one that is hurried, and that too is gone after a loop in time.
SetterInv ==
  setter.pc # "off" =>
    /\ ~setter.hurried => /\ state.pc \in Looking \cup {"update", "beat", "sleep"}
                          /\ state.pc \in Looking => ignition
    /\ offLoops > 0 => state.pc = "sleep" /\ offLoops = 1

\* While there is a setter that is not hurried no parameter is of an earlier drive.
FreshInv ==
  /\ state.pc = "clear" => \A k \in Keys \ state.todo : store[k] # "stale"
  /\ state.pc = "spawn" => \A k \in Keys : store[k] # "stale"
  /\ setter.pc # "off" /\ ~setter.hurried => \A k \in Keys : store[k] # "stale"
  /\ setter.pc = "car" /\ ~setter.hurried => setter.params = "fresh"

\* From the first loop without ignition on, the panda comes to rest and stays there.
QuietInv ==
  /\ offLoops > 0 /\ state.pc = "apply" => mode \in {state.mode, "silent"}
  /\ offLoops > 0 /\ state.pc \in {"share", "update", "beat"} /\ ~state.on /\ connected => mode \in Quiet
  /\ offLoops = 2 /\ connected => mode \in Quiet

\* An engaged controlsState is held over a second update only from a slow loop into the
\* next, and over no third.
BeatInv ==
  /\ engagedBeats =< 2
  /\ controlsState # "none" => engagedBeats = 0
  /\ state.held /\ engagedBeats = 2 => ~state.slow /\ state.pc \in {"beat", "sleep"}
  /\ state.held /\ state.slow => state.pc \in {"beat", "sleep"}

BoarddInv == BoarddTypes /\ FlagInv /\ SetterInv /\ FreshInv /\ QuietInv /\ BeatInv

SupervisionTypes ==
  /\ thermald \in [ignition : BOOLEAN, started : BOOLEAN, seen : BOOLEAN,
                   off : 0..(OFFROAD_MIN + 1) \cup {Never}, since : Nat, ran : BOOLEAN]
  /\ manager \in 0..MANAGER_PERIOD /\ handler \in BOOLEAN /\ controlsd \in ControlsSteps
  /\ handler <=> controlsd # "off"
  /\ drive \in [now : 0..1, controlsd : 0..1]
  /\ thermald.started => thermald.off = Never /\ thermald.ignition

\* A controlsd left over from an onroad phase is no older, offroad, than the manager's
\* last round, and so is gone before the pause offroad is over.
PhaseInv ==
  /\ handler /\ thermald.started => drive.controlsd = drive.now
  /\ handler /\ ~thermald.started => thermald.off # Never /\ thermald.off <= manager
  /\ handler \/ thermald.started => thermald.seen

SupervisionInv == SupervisionTypes /\ PhaseInv

\* The inductive invariant.
IInv == BoarddInv /\ SupervisionInv

-----------------------------------------------------------------------------

LEMMA InitInv == Init => IInv
<1> SUFFICES ASSUME Init PROVE IInv
  OBVIOUS
<1> USE BoarddAssumption, SupervisionAssumption DEF Init, BoarddInit, SupervisionInit
<1>1. BoarddTypes
  <2>1. state \in StateRecords
    BY DEF StateOff, StateRecords, Modes, StateSteps
  <2>2. setter \in SetterRecords
    BY DEF SetterOff, SetterRecords, Ages, SetterSteps
  <2>3. store \in [Keys -> Ages] /\ mode \in Modes
    BY DEF Ages, Modes
  <2>4. heard \in 0..HEARTBEAT_CNT /\ offLoops \in 0..2 /\ engagedBeats \in 0..2
    OBVIOUS
  <2>5. connected \in BOOLEAN /\ ignition \in BOOLEAN /\ ignitionLine \in BOOLEAN
    OBVIOUS
  <2> QED BY <2>1, <2>2, <2>3, <2>4, <2>5 DEF BoarddTypes, StateRecords, SetterRecords
<1>2. FlagInv /\ SetterInv /\ FreshInv /\ QuietInv /\ BeatInv
  BY DEF FlagInv, SetterInv, FreshInv, QuietInv, BeatInv, StateOff, SetterOff, Looking
<1>3. SupervisionTypes
  <2>1. thermald \in [ignition : BOOLEAN, started : BOOLEAN, seen : BOOLEAN,
                      off : 0..(OFFROAD_MIN + 1) \cup {Never}, since : Nat, ran : BOOLEAN]
    OBVIOUS
  <2>2. manager \in 0..MANAGER_PERIOD
    OBVIOUS
  <2>3. handler \in BOOLEAN /\ controlsd \in ControlsSteps
    BY DEF ControlsSteps
  <2>4. ~thermald.started /\ (handler <=> controlsd # "off")
    OBVIOUS
  <2>5. drive \in [now : 0..1, controlsd : 0..1]
    OBVIOUS
  <2> QED BY <2>1, <2>2, <2>3, <2>4, <2>5 DEF SupervisionTypes
<1>4. PhaseInv
  BY DEF PhaseInv
<1> QED BY <1>1, <1>2, <1>3, <1>4 DEF IInv, BoarddInv, SupervisionInv

-----------------------------------------------------------------------------
-----------------------------------------------------------------------------
(* Boardd: each part of its invariant is kept by each of its steps         *)

BoarddStep == Program \/ TurnKey \/ Unplug \/ Replug \/ BoarddCrash \/ Stall \/ (BoarddOnTime /\ LoopPasses)

USE DEF pandaVars, process, threads, topics, boarddHistory

\* What a heartbeat does to the two threads, field by field.
LEMMA BeatDoes ==
  ASSUME BoarddTypes, Beat
  PROVE  /\ state.pc = "beat" /\ state'.on = FALSE /\ state'.last = state.on /\ state'.held = state.held
         /\ state'.pc = "sleep" \/ (state.slow /\ state'.pc = "read")
         /\ state'.slow = (state.slow /\ state'.pc = "sleep")
         /\ setter'.pc = setter.pc /\ setter'.params = setter.params /\ setter'.polled = setter.polled
         /\ setter'.hurried = (setter.hurried \/ (setter.pc # "off" /\ state'.pc = "read"))
<1>1. PICK pc \in AfterLoop(state) :
        /\ state' = [StateOff EXCEPT !.pc = pc, !.last = state.on, !.held = state.held,
                       !.slow = state.slow /\ pc = "sleep"]
        /\ setter' = [setter EXCEPT !.hurried = @ \/ (setter.pc # "off" /\ pc = "read")]
  BY DEF Beat
<1>2. state \in StateRecords /\ setter \in SetterRecords
  BY DEF BoarddTypes
<1>3. pc = "sleep" \/ (state.slow /\ pc = "read")
  BY DEF AfterLoop
<1>4. state'.on = FALSE /\ state'.last = state.on /\ state'.held = state.held /\ state'.pc = pc
  BY <1>1 DEF StateOff
<1>5. state'.slow = (state.slow /\ pc = "sleep")
  BY <1>1 DEF StateOff
<1>6. /\ setter'.pc = setter.pc /\ setter'.params = setter.params /\ setter'.polled = setter.polled
      /\ setter'.hurried = (setter.hurried \/ (setter.pc # "off" /\ pc = "read"))
  BY <1>1, <1>2 DEF SetterRecords
<1> QED BY <1>3, <1>4, <1>5, <1>6 DEF Beat

LEMMA TypesKept == BoarddInv /\ BoarddStep => BoarddTypes'
<1> SUFFICES ASSUME BoarddInv, BoarddStep PROVE BoarddTypes'
  OBVIOUS
<1> USE DEF BoarddInv, BoarddTypes, StateRecords, SetterRecords, Modes, Ages, StateSteps, SetterSteps
<1>1. CASE Launch
  BY <1>1 DEF Launch, StateOff
<1>2. CASE Connect
  BY <1>2 DEF Connect
<1>3. CASE ConnectFails
  BY <1>3 DEF ConnectFails
<1>4. CASE Exit
  BY <1>4 DEF Exit, StateOff
<1>5. CASE Read
  BY <1>5 DEF Read
<1>6. CASE Apply
  <2>1. state' \in StateRecords
    BY <1>6 DEF Apply
  <2>2. mode' \in Modes
    BY <1>6 DEF Apply, NeedsNoOutput, SetSafetyModel
  <2>3. UNCHANGED <<store, heard, setter, connected, ignition, ignitionLine, offLoops, engagedBeats>>
    BY <1>6 DEF Apply
  <2> QED BY <2>1, <2>2, <2>3
<1>7. CASE Share
  <2>1. \A age \in Ages : Grown(age) \in Ages
    BY DEF Grown
  <2>2. store' \in [Keys -> Ages]
    BY <1>7, <2>1 DEF Share, GrowOld
  <2>3. state' \in StateRecords
    BY <1>7 DEF Share, ToClear
  <2>4. setter' \in SetterRecords
    <3>1. CASE Rises(state)
      BY <1>7, <2>1, <3>1 DEF Share
    <3>2. CASE ~Rises(state)
      BY <1>7, <3>2 DEF Share
    <3> QED BY <3>1, <3>2
  <2>5. ignition' \in BOOLEAN
    BY <1>7 DEF Share
  <2>6. offLoops' \in 0..2
    BY <1>7 DEF Share
  <2>7. UNCHANGED <<mode, heard, connected, ignitionLine, engagedBeats>>
    BY <1>7 DEF Share
  <2> QED BY <2>2, <2>3, <2>4, <2>5, <2>6, <2>7
<1>8. ASSUME NEW k \in Keys, ClearOne(k) PROVE BoarddTypes'
  BY <1>8 DEF ClearOne, Remove
<1>9. CASE Spawn
  BY <1>9 DEF Spawn, SetterOff
<1>10. CASE Beat
  <2>0. PICK pc \in AfterLoop(state) :
          /\ state' = [StateOff EXCEPT !.pc = pc, !.last = state.on, !.held = state.held,
                         !.slow = state.slow /\ pc = "sleep"]
          /\ setter' = [setter EXCEPT !.hurried = @ \/ (setter.pc # "off" /\ pc = "read")]
    BY <1>10 DEF Beat
  <2>1. state' \in StateRecords
    BY <2>0 DEF StateOff, AfterLoop
  <2>2. heard' \in 0..HEARTBEAT_CNT
    BY <1>10, BoarddAssumption DEF Beat
  <2>3. offLoops' \in 0..2
    BY <1>10 DEF Beat
  <2>4. setter' \in SetterRecords
    BY <2>0
  <2>5. UNCHANGED <<store, mode, connected, ignition, ignitionLine, engagedBeats>>
    BY <1>10 DEF Beat
  <2> QED BY <2>1, <2>2, <2>3, <2>4, <2>5
<1>11. CASE SetElm
  BY <1>11 DEF SetElm, SetterStep, SetterAndMode, SetSafetyModel
<1>12. CASE AwaitVin
  <2>1. setter' \in SetterRecords
    BY <1>12 DEF AwaitVin, Poll, SetterOff
  <2>2. UNCHANGED <<store, mode, heard, state, connected, ignition, ignitionLine, offLoops, engagedBeats>>
    BY <1>12 DEF AwaitVin, Poll, SetterOnly
  <2> QED BY <2>1, <2>2
<1>13. CASE SetElm1
  BY <1>13 DEF SetElm1, SetterStep, SetterAndMode, SetSafetyModel
<1>14. CASE AwaitReady
  <2>1. setter' \in SetterRecords
    BY <1>14 DEF AwaitReady, Poll, SetterOff
  <2>2. UNCHANGED <<store, mode, heard, state, connected, ignition, ignitionLine, offLoops, engagedBeats>>
    BY <1>14 DEF AwaitReady, Poll, SetterOnly
  <2> QED BY <2>1, <2>2
<1>15. CASE GetParams
  <2>1. store["CarParams"] \in Ages
    BY DEF Keys
  <2>2. setter' \in SetterRecords
    BY <1>15, <2>1 DEF GetParams
  <2>3. UNCHANGED <<store, mode, heard, state, connected, ignition, ignitionLine, offLoops, engagedBeats>>
    BY <1>15 DEF GetParams, SetterOnly
  <2> QED BY <2>2, <2>3
<1>16. CASE SetCar
  BY <1>16 DEF SetCar, SetterOff, SetterAndMode, SetSafetyModel
<1>17. CASE TurnKey
  BY <1>17 DEF TurnKey
<1>18. CASE Unplug
  <2>1. connected' \in BOOLEAN /\ UNCHANGED <<store, mode, heard, state, setter>>
    BY <1>18 DEF Unplug
  <2>2. UNCHANGED <<ignition, ignitionLine, offLoops, engagedBeats>>
    BY <1>18 DEF Unplug
  <2> QED BY <2>1, <2>2
<1>19. CASE Replug
  BY <1>19 DEF Replug
<1>20. CASE BoarddCrash
  BY <1>20 DEF BoarddCrash, StateOff, SetterOff
<1>21. CASE Stall
  BY <1>21 DEF Stall, Transfers
<1>22. CASE BoarddOnTime /\ LoopPasses
  <2>1. state' \in StateRecords
    BY <1>22 DEF LoopPasses, StillAlive
  <2>2. heard' \in 0..HEARTBEAT_CNT
    BY <1>22, BoarddAssumption DEF LoopPasses
  <2>3. mode' \in Modes
    BY <1>22 DEF LoopPasses
  <2>4. setter' \in SetterRecords
    BY <1>22 DEF LoopPasses
  <2>5. UNCHANGED <<store, connected, ignition, ignitionLine, offLoops, engagedBeats>>
    BY <1>22 DEF LoopPasses
  <2> QED BY <2>1, <2>2, <2>3, <2>4, <2>5
<1>23. CASE Update
  <2>1. PICK engaged \in SaysEngaged :
          /\ state' = [state EXCEPT !.pc = "beat", !.held = engaged]
          /\ engagedBeats' = IF engaged /\ engagedBeats < 3 THEN engagedBeats + 1 ELSE engagedBeats
    BY <1>23 DEF Update
  <2>2. engaged \in BOOLEAN
    BY DEF SaysEngaged
  <2>3. state' \in StateRecords
    BY <2>1, <2>2
  <2>4. engagedBeats' \in 0..3
    BY <2>1, <2>2
  <2>5. UNCHANGED <<store, mode, heard, setter, connected, ignition, ignitionLine, offLoops>>
    BY <1>23 DEF Update
  <2> QED BY <2>3, <2>4, <2>5
<1> QED
  BY <1>1, <1>2, <1>3, <1>4, <1>5, <1>6, <1>7, <1>8, <1>9, <1>10, <1>11, <1>12, <1>13, <1>14, <1>15, <1>16, <1>17, <1>18, <1>19, <1>20, <1>21, <1>22, <1>23
  DEF BoarddStep, Program, MainThread, StateThread, SetterThread

LEMMA FlagKept == BoarddInv /\ BoarddStep => FlagInv'
<1> SUFFICES ASSUME BoarddInv, BoarddStep PROVE FlagInv'
  OBVIOUS
<1> USE DEF BoarddInv, FlagInv, Looking
<1>1. CASE Launch
  BY <1>1 DEF Launch, StateOff
<1>2. CASE Connect
  BY <1>2 DEF Connect
<1>3. CASE ConnectFails
  BY <1>3 DEF ConnectFails
<1>4. CASE Exit
  BY <1>4 DEF Exit, StateOff
<1>5. CASE Read
  BY <1>5 DEF Read
<1>6. CASE Apply
  BY <1>6 DEF Apply, NeedsNoOutput, SetSafetyModel
<1>7. CASE Share
  <2>1. ignition' = state.on /\ state'.on = state.on /\ ~setter'.polled
    BY <1>7 DEF Share, BoarddTypes, StateRecords, SetterRecords
  <2>2. state'.pc = IF Rises(state) THEN "clear" ELSE "update"
    BY <1>7 DEF Share, BoarddTypes, StateRecords, SetterRecords
  <2>3. offLoops' = IF state.on THEN 0 ELSE offLoops
    BY <1>7 DEF Share
  <2> QED BY <2>1, <2>2, <2>3 DEF Rises
<1>8. ASSUME NEW k \in Keys, ClearOne(k) PROVE FlagInv'
  BY <1>8 DEF ClearOne, Remove, BoarddTypes, StateRecords, SetterRecords, Modes, Ages, StateSteps, SetterSteps
<1>9. CASE Spawn
  BY <1>9 DEF Spawn, SetterOff, BoarddTypes, StateRecords, SetterRecords, Modes, Ages, StateSteps, SetterSteps
<1>10. CASE Beat
  <2>1. BoarddTypes /\ UNCHANGED <<store, mode, connected, ignition, controlsState, engagedBeats>>
    BY <1>10 DEF Beat
  <2>2. offLoops' = IF ~state.on /\ ~state.slow /\ offLoops < 2 THEN offLoops + 1 ELSE offLoops
    BY <1>10 DEF Beat
  <2> QED BY <1>10, <2>1, <2>2, BeatDoes DEF BoarddTypes, StateRecords, SetterRecords
<1>11. CASE SetElm
  BY <1>11 DEF SetElm, SetterStep, SetterAndMode, SetSafetyModel
<1>12. CASE AwaitVin
  BY <1>12 DEF AwaitVin, Poll, Aborts, Has, SetterOff, SetterOnly
<1>13. CASE SetElm1
  BY <1>13 DEF SetElm1, SetterStep, SetterAndMode, SetSafetyModel
<1>14. CASE AwaitReady
  BY <1>14 DEF AwaitReady, Poll, Aborts, Has, SetterOff, SetterOnly
<1>15. CASE GetParams
  BY <1>15 DEF GetParams, Has, SetterOnly
<1>16. CASE SetCar
  BY <1>16 DEF SetCar, SetterOff, SetterAndMode, SetSafetyModel
<1>17. CASE TurnKey
  BY <1>17 DEF TurnKey
<1>18. CASE Unplug
  BY <1>18 DEF Unplug
<1>19. CASE Replug
  BY <1>19 DEF Replug
<1>20. CASE BoarddCrash
  BY <1>20 DEF BoarddCrash, StateOff, SetterOff
<1>21. CASE Stall
  BY <1>21 DEF Stall, Transfers
<1>22. CASE BoarddOnTime /\ LoopPasses
  BY <1>22 DEF LoopPasses, BoarddOnTime, StillAlive, Transfers
<1>23. CASE Update
  BY <1>23 DEF Update, SaysEngaged
<1> QED
  BY <1>1, <1>2, <1>3, <1>4, <1>5, <1>6, <1>7, <1>8, <1>9, <1>10, <1>11, <1>12, <1>13, <1>14, <1>15, <1>16, <1>17, <1>18, <1>19, <1>20, <1>21, <1>22, <1>23
  DEF BoarddStep, Program, MainThread, StateThread, SetterThread

LEMMA SetterKept == BoarddInv /\ BoarddStep => SetterInv'
<1> SUFFICES ASSUME BoarddInv, BoarddStep PROVE SetterInv'
  OBVIOUS
<1> USE DEF BoarddInv, SetterInv, Looking
<1>1. CASE Launch
  BY <1>1 DEF Launch, StateOff
<1>2. CASE Connect
  <2>1. offLoops' = 0 /\ setter' = setter /\ state.pc = "connect"
    BY <1>2 DEF Connect
  <2>2. setter.pc # "off" => setter.hurried
    <3>1. state.pc \notin Looking \cup {"update", "beat", "sleep"}
      BY <2>1
    <3> QED BY <3>1
  <2>3. ~(offLoops' > 0)
    BY <2>1
  <2> QED BY <2>1, <2>2, <2>3
<1>3. CASE ConnectFails
  BY <1>3 DEF ConnectFails
<1>4. CASE Exit
  BY <1>4 DEF Exit, StateOff
<1>5. CASE Read
  BY <1>5 DEF Read
<1>6. CASE Apply
  BY <1>6 DEF Apply, NeedsNoOutput, SetSafetyModel
<1>7. CASE Share
  <2>1. setter'.pc = setter.pc
    BY <1>7 DEF Share, BoarddTypes, StateRecords, SetterRecords
  <2>2. state.pc = "share" /\ state'.pc = IF Rises(state) THEN "clear" ELSE "update"
    BY <1>7 DEF Share, BoarddTypes, StateRecords, SetterRecords
  <2>3. offLoops' = IF state.on THEN 0 ELSE offLoops
    BY <1>7 DEF Share
  <2>4. state.last = ignition
    BY <2>2 DEF FlagInv
  <2>5. setter'.hurried = setter.hurried /\ ignition' = state.on /\ offLoops \in 0..2
    BY <1>7 DEF Share, BoarddTypes, SetterRecords
  <2>6. setter.pc # "off" => offLoops' = 0
    <3>1. setter.pc # "off" => ~(offLoops > 0)
      BY <2>2
    <3> QED BY <2>3, <2>5, <3>1
  <2>7. setter.pc # "off" /\ ~setter.hurried => state'.pc = "update"
    BY <2>2, <2>4 DEF Rises
  <2> QED BY <2>1, <2>5, <2>6, <2>7
<1>8. ASSUME NEW k \in Keys, ClearOne(k) PROVE SetterInv'
  BY <1>8 DEF ClearOne, Remove
<1>9. CASE Spawn
  BY <1>9 DEF Spawn, SetterOff, FlagInv
<1>10. CASE Beat
  <2>1. BoarddTypes /\ UNCHANGED <<store, mode, connected, ignition, controlsState, engagedBeats>>
    BY <1>10 DEF Beat
  <2>2. offLoops' = IF ~state.on /\ ~state.slow /\ offLoops < 2 THEN offLoops + 1 ELSE offLoops
    BY <1>10 DEF Beat
  <2>3. setter.pc # "off" => offLoops = 0
    <3>1. state.pc = "beat"
      BY <2>1, BeatDoes, <1>10
    <3>2. offLoops \in 0..2
      BY DEF BoarddTypes
    <3> QED BY <3>1, <3>2
  <2>4. CASE state'.pc = "read"
    BY <1>10, <2>1, <2>2, <2>3, <2>4, BeatDoes
  <2>5. CASE state'.pc = "sleep"
    BY <1>10, <2>1, <2>2, <2>3, <2>5, BeatDoes
  <2> QED BY <1>10, <2>1, <2>4, <2>5, BeatDoes
<1>11. CASE SetElm
  BY <1>11 DEF SetElm, SetterStep, SetterAndMode, SetSafetyModel
<1>12. CASE AwaitVin
  BY <1>12 DEF AwaitVin, Poll, Aborts, Has, SetterOff, SetterOnly
<1>13. CASE SetElm1
  BY <1>13 DEF SetElm1, SetterStep, SetterAndMode, SetSafetyModel
<1>14. CASE AwaitReady
  BY <1>14 DEF AwaitReady, Poll, Aborts, Has, SetterOff, SetterOnly
<1>15. CASE GetParams
  BY <1>15 DEF GetParams, Has, SetterOnly
<1>16. CASE SetCar
  BY <1>16 DEF SetCar, SetterOff, SetterAndMode, SetSafetyModel
<1>17. CASE TurnKey
  BY <1>17 DEF TurnKey
<1>18. CASE Unplug
  BY <1>18 DEF Unplug
<1>19. CASE Replug
  BY <1>19 DEF Replug
<1>20. CASE BoarddCrash
  BY <1>20 DEF BoarddCrash, StateOff, SetterOff
<1>21. CASE Stall
  BY <1>21 DEF Stall, Transfers
<1>22. CASE BoarddOnTime /\ LoopPasses
  BY <1>22 DEF LoopPasses, BoarddOnTime, StillAlive, Transfers, FlagInv
<1>23. CASE Update
  BY <1>23 DEF Update, SaysEngaged
<1> QED
  BY <1>1, <1>2, <1>3, <1>4, <1>5, <1>6, <1>7, <1>8, <1>9, <1>10, <1>11, <1>12, <1>13, <1>14, <1>15, <1>16, <1>17, <1>18, <1>19, <1>20, <1>21, <1>22, <1>23
  DEF BoarddStep, Program, MainThread, StateThread, SetterThread

LEMMA FreshKept == BoarddInv /\ BoarddStep => FreshInv'
<1> SUFFICES ASSUME BoarddInv, BoarddStep PROVE FreshInv'
  OBVIOUS
<1> USE DEF BoarddInv, FreshInv
<1>1. CASE Launch
  BY <1>1 DEF Launch, StateOff
<1>2. CASE Connect
  BY <1>2 DEF Connect
<1>3. CASE ConnectFails
  BY <1>3 DEF ConnectFails
<1>4. CASE Exit
  BY <1>4 DEF Exit, StateOff
<1>5. CASE Read
  BY <1>5 DEF Read
<1>6. CASE Apply
  BY <1>6 DEF Apply, NeedsNoOutput, SetSafetyModel
<1>7. CASE Share
  BY <1>7 DEF Share, Rises, GrowOld, Grown, ToClear, BoarddTypes, StateRecords, SetterRecords, FlagInv, SetterInv, Modes, Ages, StateSteps, SetterSteps, Looking
<1>8. ASSUME NEW k \in Keys, ClearOne(k) PROVE FreshInv'
  BY <1>8 DEF ClearOne, Remove, BoarddTypes, StateRecords, SetterRecords, Modes, Ages, StateSteps, SetterSteps
<1>9. CASE Spawn
  BY <1>9 DEF Spawn, SetterOff
<1>10. CASE Beat
  <2>1. BoarddTypes /\ UNCHANGED <<store, mode, connected, ignition, controlsState, engagedBeats>>
    BY <1>10 DEF Beat
  <2>2. offLoops' = IF ~state.on /\ ~state.slow /\ offLoops < 2 THEN offLoops + 1 ELSE offLoops
    BY <1>10 DEF Beat
  <2> QED BY <1>10, <2>1, <2>2, BeatDoes DEF BoarddTypes, StateRecords, SetterRecords
<1>11. CASE SetElm
  BY <1>11 DEF SetElm, SetterStep, SetterAndMode, SetSafetyModel
<1>12. CASE AwaitVin
  BY <1>12 DEF AwaitVin, Poll, Aborts, Has, SetterOff, SetterOnly
<1>13. CASE SetElm1
  BY <1>13 DEF SetElm1, SetterStep, SetterAndMode, SetSafetyModel
<1>14. CASE AwaitReady
  BY <1>14 DEF AwaitReady, Poll, Aborts, Has, SetterOff, SetterOnly
<1>15. CASE GetParams
  <2>1. store["CarParams"] \in Ages /\ "CarParams" \in Keys
    BY DEF BoarddTypes, StateRecords, SetterRecords, Keys
  <2>2. setter.pc # "off" /\ (~setter.hurried => store["CarParams"] # "stale")
    BY <1>15, <2>1 DEF GetParams
  <2>3. UNCHANGED <<store, state>> /\ setter'.hurried = setter.hurried
    BY <1>15 DEF GetParams, SetterOnly, BoarddTypes, SetterRecords
  <2>4. setter'.pc = "car" /\ ~setter'.hurried => setter'.params = "fresh"
    BY <1>15, <2>1, <2>2, <2>3 DEF GetParams, Has, Ages, BoarddTypes, StateRecords, SetterRecords
  <2> QED BY <2>2, <2>3, <2>4
<1>16. CASE SetCar
  BY <1>16 DEF SetCar, SetterOff, SetterAndMode, SetSafetyModel
<1>17. CASE TurnKey
  BY <1>17 DEF TurnKey
<1>18. CASE Unplug
  BY <1>18 DEF Unplug
<1>19. CASE Replug
  BY <1>19 DEF Replug
<1>20. CASE BoarddCrash
  BY <1>20 DEF BoarddCrash, StateOff, SetterOff
<1>21. CASE Stall
  BY <1>21 DEF Stall, Transfers
<1>22. CASE BoarddOnTime /\ LoopPasses
  BY <1>22 DEF LoopPasses, BoarddOnTime, StillAlive, Transfers
<1>23. CASE Update
  BY <1>23 DEF Update, SaysEngaged
<1> QED
  BY <1>1, <1>2, <1>3, <1>4, <1>5, <1>6, <1>7, <1>8, <1>9, <1>10, <1>11, <1>12, <1>13, <1>14, <1>15, <1>16, <1>17, <1>18, <1>19, <1>20, <1>21, <1>22, <1>23
  DEF BoarddStep, Program, MainThread, StateThread, SetterThread

LEMMA QuietKept == BoarddInv /\ BoarddStep => QuietInv'
<1> SUFFICES ASSUME BoarddInv, BoarddStep PROVE QuietInv'
  OBVIOUS
<1> USE DEF BoarddInv, QuietInv, Quiet
<1>1. CASE Launch
  BY <1>1 DEF Launch, StateOff
<1>2. CASE Connect
  BY <1>2 DEF Connect
<1>3. CASE ConnectFails
  BY <1>3 DEF ConnectFails
<1>4. CASE Exit
  BY <1>4 DEF Exit, StateOff
<1>5. CASE Read
  BY <1>5 DEF Read
<1>6. CASE Apply
  BY <1>6 DEF Apply, NeedsNoOutput, SetSafetyModel
<1>7. CASE Share
  BY <1>7 DEF Share, Rises, GrowOld, Grown, ToClear, BoarddTypes, StateRecords, SetterRecords, Modes, Ages, StateSteps, SetterSteps
<1>8. ASSUME NEW k \in Keys, ClearOne(k) PROVE QuietInv'
  BY <1>8 DEF ClearOne, Remove
<1>9. CASE Spawn
  BY <1>9 DEF Spawn, SetterOff, FlagInv, Looking
<1>10. CASE Beat
  <2>1. BoarddTypes /\ UNCHANGED <<store, mode, connected, ignition, controlsState, engagedBeats>>
    BY <1>10 DEF Beat
  <2>2. offLoops' = IF ~state.on /\ ~state.slow /\ offLoops < 2 THEN offLoops + 1 ELSE offLoops
    BY <1>10 DEF Beat
  <2>3. state.pc = "beat" /\ state'.pc \in {"read", "sleep"} /\ offLoops \in 0..2
    BY <1>10, <2>1, BeatDoes DEF BoarddTypes
  <2> QED BY <2>1, <2>2, <2>3
<1>11. CASE SetElm
  BY <1>11 DEF SetElm, SetterStep, SetterAndMode, SetSafetyModel, SetterInv, Looking
<1>12. CASE AwaitVin
  BY <1>12 DEF AwaitVin, Poll, Aborts, Has, SetterOff, SetterOnly
<1>13. CASE SetElm1
  BY <1>13 DEF SetElm1, SetterStep, SetterAndMode, SetSafetyModel, SetterInv, Looking
<1>14. CASE AwaitReady
  BY <1>14 DEF AwaitReady, Poll, Aborts, Has, SetterOff, SetterOnly
<1>15. CASE GetParams
  BY <1>15 DEF GetParams, Has, SetterOnly
<1>16. CASE SetCar
  BY <1>16 DEF SetCar, SetterOff, SetterAndMode, SetSafetyModel, SetterInv, Looking
<1>17. CASE TurnKey
  BY <1>17 DEF TurnKey
<1>18. CASE Unplug
  BY <1>18 DEF Unplug
<1>19. CASE Replug
  BY <1>19 DEF Replug
<1>20. CASE BoarddCrash
  BY <1>20 DEF BoarddCrash, StateOff, SetterOff
<1>21. CASE Stall
  BY <1>21 DEF Stall, Transfers
<1>22. CASE BoarddOnTime /\ LoopPasses
  BY <1>22 DEF LoopPasses, BoarddOnTime, StillAlive, Transfers
<1>23. CASE Update
  BY <1>23 DEF Update, SaysEngaged
<1> QED
  BY <1>1, <1>2, <1>3, <1>4, <1>5, <1>6, <1>7, <1>8, <1>9, <1>10, <1>11, <1>12, <1>13, <1>14, <1>15, <1>16, <1>17, <1>18, <1>19, <1>20, <1>21, <1>22, <1>23
  DEF BoarddStep, Program, MainThread, StateThread, SetterThread

LEMMA BeatKept == BoarddInv /\ BoarddStep => BeatInv'
<1> SUFFICES ASSUME BoarddInv, BoarddStep PROVE BeatInv'
  OBVIOUS
<1> USE DEF BoarddInv, BeatInv
<1>1. CASE Launch
  BY <1>1 DEF Launch, StateOff
<1>2. CASE Connect
  BY <1>2 DEF Connect
<1>3. CASE ConnectFails
  BY <1>3 DEF ConnectFails
<1>4. CASE Exit
  BY <1>4 DEF Exit, StateOff
<1>5. CASE Read
  BY <1>5 DEF Read
<1>6. CASE Apply
  BY <1>6 DEF Apply, NeedsNoOutput, SetSafetyModel
<1>7. CASE Share
  <2>1. state.pc = "share" /\ state'.held = state.held /\ state'.slow = state.slow
    BY <1>7 DEF Share, BoarddTypes, StateRecords
  <2>2. UNCHANGED <<controlsState, engagedBeats>>
    BY <1>7 DEF Share
  <2> QED BY <2>1, <2>2
<1>8. ASSUME NEW k \in Keys, ClearOne(k) PROVE BeatInv'
  BY <1>8 DEF ClearOne, Remove
<1>9. CASE Spawn
  BY <1>9 DEF Spawn, SetterOff
<1>10. CASE Beat
  <2>1. BoarddTypes /\ UNCHANGED <<store, mode, connected, ignition, controlsState, engagedBeats>>
    BY <1>10 DEF Beat
  <2>2. offLoops' = IF ~state.on /\ ~state.slow /\ offLoops < 2 THEN offLoops + 1 ELSE offLoops
    BY <1>10 DEF Beat
  <2> QED BY <1>10, <2>1, <2>2, BeatDoes DEF BoarddTypes, StateRecords, SetterRecords
<1>11. CASE SetElm
  BY <1>11 DEF SetElm, SetterStep, SetterAndMode, SetSafetyModel
<1>12. CASE AwaitVin
  BY <1>12 DEF AwaitVin, Poll, Aborts, Has, SetterOff, SetterOnly
<1>13. CASE SetElm1
  BY <1>13 DEF SetElm1, SetterStep, SetterAndMode, SetSafetyModel
<1>14. CASE AwaitReady
  BY <1>14 DEF AwaitReady, Poll, Aborts, Has, SetterOff, SetterOnly
<1>15. CASE GetParams
  BY <1>15 DEF GetParams, Has, SetterOnly
<1>16. CASE SetCar
  BY <1>16 DEF SetCar, SetterOff, SetterAndMode, SetSafetyModel
<1>17. CASE TurnKey
  BY <1>17 DEF TurnKey
<1>18. CASE Unplug
  BY <1>18 DEF Unplug
<1>19. CASE Replug
  BY <1>19 DEF Replug
<1>20. CASE BoarddCrash
  BY <1>20 DEF BoarddCrash, StateOff, SetterOff
<1>21. CASE Stall
  BY <1>21 DEF Stall, Transfers
<1>22. CASE BoarddOnTime /\ LoopPasses
  <2>1. state'.held = StillAlive(state) /\ state'.slow = (state.slow /\ state.pc # "sleep")
    BY <1>22 DEF LoopPasses, BoarddTypes, StateRecords
  <2>2. UNCHANGED <<controlsState, engagedBeats>>
    BY <1>22 DEF LoopPasses
  <2> QED BY <2>1, <2>2 DEF StillAlive
<1>23. CASE Update
  <2>1. PICK engaged \in SaysEngaged :
          /\ state' = [state EXCEPT !.pc = "beat", !.held = engaged]
          /\ engagedBeats' = IF engaged /\ engagedBeats < 3 THEN engagedBeats + 1 ELSE engagedBeats
    BY <1>23 DEF Update
  <2>2. state.pc = "update" /\ controlsState' = "none"
    BY <1>23 DEF Update
  <2>3. state'.pc = "beat" /\ state'.held = engaged /\ state'.slow = state.slow
    BY <2>1 DEF BoarddTypes, StateRecords
  <2>4. engagedBeats \in 0..3
    BY DEF BoarddTypes
  <2>5. CASE controlsState # "none"
    BY <2>1, <2>2, <2>3, <2>4, <2>5
  <2>6. CASE controlsState = "none"
    <3>1. engaged => state.held
      BY <2>6 DEF SaysEngaged
    <3>2. engaged => engagedBeats < 2 /\ ~state.slow
      BY <2>2, <2>4, <3>1
    <3> QED BY <2>1, <2>2, <2>3, <2>4, <3>2
  <2> QED BY <2>5, <2>6
<1> QED
  BY <1>1, <1>2, <1>3, <1>4, <1>5, <1>6, <1>7, <1>8, <1>9, <1>10, <1>11, <1>12, <1>13, <1>14, <1>15, <1>16, <1>17, <1>18, <1>19, <1>20, <1>21, <1>22, <1>23
  DEF BoarddStep, Program, MainThread, StateThread, SetterThread

-----------------------------------------------------------------------------
(* The steps of the others leave boardd's part alone, but for a parameter  *)
(* that is written and a controlsState that is published.                  *)

OthersStep == ThermaldLoop \/ ManagerLoop \/ Controlsd \/ ControlsdDies \/ ConditionFails \/ ConditionReturns

LEMMA StutterKeepsBoardd ==
  BoarddInv /\ UNCHANGED <<store, pandaVars, process, threads, controlsState, boarddHistory>> => BoarddInv'
<1> SUFFICES ASSUME BoarddInv,
                    UNCHANGED <<store, pandaVars, process, threads, controlsState, boarddHistory>>
             PROVE  BoarddInv'
  OBVIOUS
<1>1. BoarddTypes'
  BY DEF BoarddInv, BoarddTypes, StateRecords, SetterRecords
<1>2. FlagInv' /\ SetterInv'
  BY DEF BoarddInv, FlagInv, SetterInv
<1>3. FreshInv'
  BY DEF BoarddInv, FreshInv
<1>4. QuietInv' /\ BeatInv'
  BY DEF BoarddInv, QuietInv, BeatInv
<1> QED BY <1>1, <1>2, <1>3, <1>4 DEF BoarddInv

LEMMA PutKeepsBoardd ==
  ASSUME NEW key \in Keys, BoarddInv, Put(key), UNCHANGED boarddVars PROVE BoarddInv'
<1> USE DEF boarddVars, topics
<1>1. store \in [Keys -> Ages] /\ store' \in [Keys -> Ages]
  BY DEF BoarddInv, BoarddTypes, StateRecords, SetterRecords, Put, Ages
<1>2. \A k \in Keys : store[k] # "stale" => store'[k] # "stale"
  BY <1>1 DEF Put
<1>3. BoarddTypes'
  BY <1>1 DEF BoarddInv, BoarddTypes, StateRecords, SetterRecords
<1>4. FlagInv' /\ SetterInv'
  BY DEF BoarddInv, FlagInv, SetterInv
<1>5. FreshInv'
  BY <1>2 DEF BoarddInv, FreshInv
<1>6. QuietInv' /\ BeatInv'
  BY DEF BoarddInv, QuietInv, BeatInv
<1> QED BY <1>3, <1>4, <1>5, <1>6 DEF BoarddInv

LEMMA PublishKeepsBoardd ==
  ASSUME NEW enabled \in BOOLEAN, BoarddInv, Publish(enabled) PROVE BoarddInv'
<1> USE DEF Publish
<1>1. BoarddTypes'
  BY DEF BoarddInv, BoarddTypes, StateRecords, SetterRecords
<1>2. FlagInv' /\ SetterInv'
  BY DEF BoarddInv, FlagInv, SetterInv
<1>3. FreshInv'
  BY DEF BoarddInv, FreshInv
<1>4. QuietInv'
  BY DEF BoarddInv, QuietInv
<1>5. BeatInv'
  <2>1. controlsState' \in {"engaged", "disengaged", "none"} /\ engagedBeats' = 0 /\ UNCHANGED state
    OBVIOUS
  <2> QED BY <2>1 DEF BoarddInv, BeatInv
<1> QED BY <1>1, <1>2, <1>3, <1>4, <1>5 DEF BoarddInv

LEMMA OthersKeepBoardd == BoarddInv /\ OthersStep => BoarddInv'
<1> SUFFICES ASSUME BoarddInv, OthersStep PROVE BoarddInv'
  OBVIOUS
<1>1. CASE ThermaldLoop
  BY <1>1, StutterKeepsBoardd DEF ThermaldLoop
<1>2. CASE ManagerLoop \/ ControlsdDies \/ ConditionFails \/ ConditionReturns
  BY <1>2, StutterKeepsBoardd DEF ManagerLoop, ControlsdDies, ConditionFails, ConditionReturns, ControlsOnly, boarddVars, topics
<1>3. CASE PutVin \/ PutParams \/ BecomeReady
  BY <1>3, PutKeepsBoardd DEF PutVin, PutParams, BecomeReady, ControlsOnly, Keys
<1>4. ASSUME NEW enabled \in BOOLEAN, Publish(enabled) PROVE BoarddInv'
  BY <1>4, PublishKeepsBoardd
<1> QED BY <1>1, <1>2, <1>3, <1>4 DEF OthersStep, Controlsd

-----------------------------------------------------------------------------
(* thermald, flowinitd and controlsd                                       *)

LEMMA ThermaldKeeps == SupervisionInv /\ ThermaldLoop => SupervisionInv'
<1> SUFFICES ASSUME SupervisionInv, ThermaldLoop PROVE SupervisionInv'
  OBVIOUS
<1> USE SupervisionAssumption
<1>1. UNCHANGED <<manager, handler, controlsd>>
  BY DEF ThermaldLoop
<1>2. /\ thermald'.started = ShouldStart /\ thermald'.off = OffTime(ShouldStart)
      /\ thermald'.ignition = IgnitionCondition /\ thermald'.seen = (thermald.seen \/ ShouldStart)
  BY DEF ThermaldLoop
<1>3. IgnitionCondition \in BOOLEAN /\ ShouldStart \in BOOLEAN
  BY DEF SupervisionInv, SupervisionTypes, IgnitionCondition, ShouldStart
<1>4. SupervisionTypes'
  <2>1. OffTime(ShouldStart) \in 0..(OFFROAD_MIN + 1) \cup {Never}
    BY DEF SupervisionInv, SupervisionTypes, OffTime
  <2>2. thermald' \in [ignition : BOOLEAN, started : BOOLEAN, seen : BOOLEAN,
                       off : 0..(OFFROAD_MIN + 1) \cup {Never}, since : Nat, ran : BOOLEAN]
    BY <1>3, <2>1 DEF SupervisionInv, SupervisionTypes, ThermaldLoop
  <2>3. ShouldStart => OffTime(ShouldStart) = Never /\ IgnitionCondition
    BY DEF OffTime, ShouldStart
  <2>4. drive' \in [now : 0..1, controlsd : 0..1]
    BY DEF ThermaldLoop, SupervisionInv, SupervisionTypes
  <2> QED BY <1>1, <1>2, <2>2, <2>3, <2>4 DEF SupervisionInv, SupervisionTypes
<1>5. PhaseInv'
  <2>1. CASE thermald.started
    <3>1. drive'.now = drive.now /\ drive'.controlsd = drive.controlsd
      BY <2>1 DEF ThermaldLoop, SupervisionInv, SupervisionTypes
    <3>2. ~ShouldStart => thermald'.off = 0
      BY <1>2, <2>1 DEF OffTime, SupervisionInv, SupervisionTypes
    <3>3. manager >= 0 /\ 0 # Never
      BY DEF SupervisionInv, SupervisionTypes
    <3> QED BY <1>1, <1>2, <2>1, <3>1, <3>2, <3>3 DEF SupervisionInv, PhaseInv
  <2>2. CASE ~thermald.started /\ ShouldStart
    <3>1. OffroadMinTime
      BY <2>2 DEF ShouldStart
    <3>2. ~handler
      BY <2>2, <3>1 DEF OffroadMinTime, SupervisionInv, SupervisionTypes, PhaseInv
    <3> QED BY <1>1, <1>2, <2>2, <3>2 DEF PhaseInv
  <2>3. CASE ~thermald.started /\ ~ShouldStart
    <3>1. handler => thermald'.off = thermald.off
      BY <1>2, <2>3 DEF OffTime, SupervisionInv, PhaseInv
    <3> QED BY <1>1, <1>2, <2>3, <3>1 DEF SupervisionInv, PhaseInv
  <2> QED BY <2>1, <2>2, <2>3
<1> QED BY <1>4, <1>5 DEF SupervisionInv

LEMMA ManagerKeeps == SupervisionInv /\ ManagerLoop => SupervisionInv'
<1> SUFFICES ASSUME SupervisionInv, ManagerLoop PROVE SupervisionInv'
  OBVIOUS
<1> USE SupervisionAssumption DEF ManagerLoop
<1>1. manager' \in 0..MANAGER_PERIOD /\ thermald' = thermald
  OBVIOUS
<1>2. CASE thermald.started
  <2>1. handler' = TRUE
    BY <1>2 DEF StartControlsd
  <2>2. controlsd' \in ControlsSteps /\ controlsd' # "off"
    BY <1>2 DEF StartControlsd, SupervisionInv, SupervisionTypes, ControlsSteps
  <2>3. drive' \in [now : 0..1, controlsd : 0..1]
    BY <1>2 DEF StartControlsd, SupervisionInv, SupervisionTypes
  <2>4. drive'.controlsd = drive'.now
    <3>1. CASE handler
      BY <1>2, <3>1 DEF StartControlsd, SupervisionInv, PhaseInv
    <3>2. CASE ~handler
      BY <1>2, <3>2 DEF StartControlsd, SupervisionInv, SupervisionTypes
    <3> QED BY <3>1, <3>2
  <2>5. SupervisionTypes'
    BY <1>1, <2>1, <2>2, <2>3 DEF SupervisionInv, SupervisionTypes
  <2>6. thermald.seen
    BY <1>2 DEF SupervisionInv, PhaseInv
  <2> QED BY <1>1, <1>2, <2>4, <2>5, <2>6 DEF SupervisionInv, PhaseInv
<1>3. CASE ~thermald.started
  <2>1. handler' = FALSE /\ controlsd' = "off"
    BY <1>3 DEF StopControlsd
  <2>2. drive' = drive
    BY <1>3 DEF StopControlsd
  <2> QED BY <1>1, <2>1, <2>2 DEF SupervisionInv, SupervisionTypes, PhaseInv, ControlsSteps
<1> QED BY <1>2, <1>3

LEMMA ControlsdKeeps == SupervisionInv /\ (Controlsd \/ ControlsdDies \/ ConditionFails \/ ConditionReturns) => SupervisionInv'
<1> SUFFICES ASSUME SupervisionInv, Controlsd \/ ControlsdDies \/ ConditionFails \/ ConditionReturns PROVE SupervisionInv'
  OBVIOUS
<1>1. UNCHANGED <<thermald, manager, handler, drive>>
  BY DEF Controlsd, PutVin, PutParams, BecomeReady, Publish, ControlsdDies, ConditionFails, ConditionReturns, ControlsOnly,
     supervisionVars
<1>2. /\ controlsd' \in ControlsSteps
      /\ controlsd' # "off" <=> controlsd # "off"
  BY DEF Controlsd, PutVin, PutParams, BecomeReady, Publish, ControlsdDies, ConditionFails, ConditionReturns,
     supervisionVars, SupervisionInv, SupervisionTypes, ControlsSteps
<1> QED BY <1>1, <1>2 DEF SupervisionInv, SupervisionTypes, PhaseInv

LEMMA TimeKeeps == SupervisionInv /\ SupervisionOnTime /\ SupervisionPasses => SupervisionInv'
<1> SUFFICES ASSUME SupervisionInv, SupervisionOnTime, SupervisionPasses PROVE SupervisionInv'
  OBVIOUS
<1> USE SupervisionAssumption
<1>1. manager' = manager + 1 /\ manager \in Nat /\ manager < MANAGER_PERIOD
  BY DEF SupervisionPasses, SupervisionOnTime, SupervisionInv, SupervisionTypes
<1>2. UNCHANGED <<handler, drive>>
  BY DEF SupervisionPasses
<1>3. /\ controlsd' \in ControlsSteps
      /\ controlsd' # "off" <=> controlsd # "off"
  BY DEF SupervisionPasses, SupervisionInv, SupervisionTypes, ControlsSteps
<1>4. /\ thermald'.started = thermald.started /\ thermald'.ignition = thermald.ignition
      /\ thermald'.seen = thermald.seen
      /\ thermald'.off = IF thermald.off = Never THEN Never ELSE Counted(thermald.off, OFFROAD_MIN + 1)
      /\ thermald'.since = Counted(thermald.since, DISCONNECT_TIMEOUT + 1)
  BY DEF SupervisionPasses, SupervisionInv, SupervisionTypes
<1>5. thermald.off # Never =>
        /\ thermald.off \in 0..(OFFROAD_MIN + 1)
        /\ thermald'.off \in 0..(OFFROAD_MIN + 1) /\ thermald'.off # Never
        /\ thermald'.off <= thermald.off + 1
  BY <1>4 DEF Counted, SupervisionInv, SupervisionTypes
<1>6. Counted(thermald.since, DISCONNECT_TIMEOUT + 1) \in Nat
  BY DEF Counted, SupervisionInv, SupervisionTypes
<1>7. thermald' \in [ignition : BOOLEAN, started : BOOLEAN, seen : BOOLEAN,
                     off : 0..(OFFROAD_MIN + 1) \cup {Never}, since : Nat, ran : BOOLEAN]
  BY <1>4, <1>5, <1>6 DEF SupervisionPasses, SupervisionInv, SupervisionTypes
<1>8. SupervisionTypes'
  BY <1>1, <1>2, <1>3, <1>4, <1>7 DEF SupervisionInv, SupervisionTypes
<1>9. PhaseInv'
  BY <1>1, <1>2, <1>4, <1>5 DEF SupervisionInv, PhaseInv
<1> QED BY <1>8, <1>9 DEF SupervisionInv

LEMMA StutterKeepsSupervision == SupervisionInv /\ UNCHANGED supervisionVars => SupervisionInv'
  BY DEF SupervisionInv, SupervisionTypes, PhaseInv, supervisionVars

-----------------------------------------------------------------------------
(* Together                                                                *)

LEMMA BoarddKept == BoarddInv /\ BoarddStep => BoarddInv'
  BY TypesKept, FlagKept, SetterKept, FreshKept, QuietKept, BeatKept DEF BoarddInv

\* A step of the whole is one of boardd, one of the others, or time that passes for all.
LEMMA StepsAre ==
  Next => \/ BoarddStep /\ UNCHANGED supervisionVars
          \/ OthersStep
          \/ BoarddStep /\ SupervisionOnTime /\ SupervisionPasses
  BY DEF Next, ProgramStep, Supervised, Turn, Crash, Disturbance, Repair, Tick, BoarddStep, OthersStep

LEMMA StepKeepsInv == IInv /\ [Next]_vars => IInv'
<1> SUFFICES ASSUME IInv, [Next]_vars PROVE BoarddInv' /\ SupervisionInv'
  BY DEF IInv
<1>0. BoarddInv /\ SupervisionInv
  BY DEF IInv
<1>1. CASE BoarddStep /\ UNCHANGED supervisionVars
  BY <1>0, <1>1, BoarddKept, StutterKeepsSupervision
<1>2. CASE OthersStep
  BY <1>0, <1>2, OthersKeepBoardd, ThermaldKeeps, ManagerKeeps, ControlsdKeeps DEF OthersStep
<1>3. CASE BoarddStep /\ SupervisionOnTime /\ SupervisionPasses
  BY <1>0, <1>3, BoarddKept, TimeKeeps
<1>4. CASE UNCHANGED vars
  BY <1>0, <1>4, StutterKeepsBoardd, StutterKeepsSupervision DEF vars, boarddVars, topics
<1> QED BY <1>1, <1>2, <1>3, <1>4, StepsAre

LEMMA Invariant == Spec => []IInv
  BY InitInv, StepKeepsInv, PTL DEF Spec

\* Types, and the processes of the drive fit together.
THEOREM TypeCorrect == Spec => []TypeOK
<1>1. IInv => TypeOK
  BY DEF IInv, BoarddInv, BoarddTypes, StateRecords, SetterRecords, SupervisionInv, SupervisionTypes, TypeOK
<1> QED BY <1>1, Invariant, PTL

\* Two loops without ignition leave the panda without output, for every order of the
\* threads, the setter past its check included.
THEOREM OffIsQuiet == Spec => []OffWithinTwoLoops
<1>1. IInv => OffWithinTwoLoops
  BY DEF IInv, BoarddInv, QuietInv, OffWithinTwoLoops, Quiet
<1> QED BY <1>1, Invariant, PTL

\* A silent controlsd gets two engaged heartbeats at most, and the second only out of a
\* slow loop, for any stalls at any transfers.
THEOREM HeartbeatsEnd == Spec => []EngagedHeartbeatsEnd
<1>1. IInv => EngagedHeartbeatsEnd
  BY DEF IInv, BoarddInv, BeatInv, EngagedHeartbeatsEnd
<1> QED BY <1>1, Invariant, PTL

\* The car's mode is set by this drive's parameters only, but for a setter that loops
\* without a pause have carried over.
THEOREM FreshParams == Spec => ParamsOfThisDrive
<1>1. IInv => (setter.pc = "car" => setter.params = "fresh" \/ setter.hurried)
  BY DEF IInv, BoarddInv, FreshInv
<1> QED BY <1>1, Invariant, PTL DEF ParamsOfThisDrive

\* A controlsd never runs on from one onroad phase into the next unseen by flowinitd.
THEOREM OneDrive == Spec => OneControlsdPerDrive
<1> DEFINE Same == manager' = 0 /\ thermald.started /\ controlsd' # "off" => drive'.controlsd = drive'.now
<1>1. IInv /\ [Next]_vars => [Same]_vars
  <2> SUFFICES ASSUME IInv, [Next]_vars PROVE Same
    OBVIOUS
  <2>1. /\ handler /\ thermald.started => drive.controlsd = drive.now
        /\ handler <=> controlsd # "off"
        /\ manager \in Nat /\ drive \in [now : 0..1, controlsd : 0..1]
    BY SupervisionAssumption DEF IInv, SupervisionInv, PhaseInv, SupervisionTypes
  <2>2. CASE UNCHANGED supervisionVars \/ UNCHANGED vars
    BY <2>1, <2>2 DEF supervisionVars, vars
  <2>3. CASE ThermaldLoop
    BY <2>1, <2>3 DEF ThermaldLoop
  <2>4. CASE ManagerLoop
    <3>1. CASE handler
      BY <2>1, <2>4, <3>1 DEF ManagerLoop, StartControlsd
    <3>2. CASE ~handler
      BY <2>1, <2>4, <3>2 DEF ManagerLoop, StartControlsd
    <3> QED BY <3>1, <3>2
  <2>5. CASE Controlsd \/ ControlsdDies \/ ConditionFails \/ ConditionReturns
    BY <2>1, <2>5 DEF Controlsd, PutVin, PutParams, BecomeReady, Publish, ControlsdDies, ConditionFails, ConditionReturns,
       ControlsOnly, supervisionVars
  <2>6. CASE SupervisionPasses
    BY <2>1, <2>6 DEF SupervisionPasses
  <2> QED BY <2>2, <2>3, <2>4, <2>5, <2>6, StepsAre DEF OthersStep
<1> QED BY <1>1, Invariant, PTL DEF Spec, OneControlsdPerDrive
=============================================================================
