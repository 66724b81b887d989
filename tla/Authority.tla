------------------------------ MODULE Authority ------------------------------
(***************************************************************************)
(* What both layers of the system promise the driver about control         *)
(* authority.  Authority is granted at most on the moment stock cruise is  *)
(* seen to engage, may be withdrawn at any time, ends with stock cruise,   *)
(* and once withdrawn does not return before stock cruise was seen off.    *)
(*                                                                         *)
(* The panda implements it with controls_allowed and cruise_engaged_prev   *)
(* (module PandaSafety), controlsd with enabled and CS_prev (module        *)
(* ControlsState), each on its own reading of the car.                     *)
(***************************************************************************)

VARIABLES
  cruise,      \* stock cruise, as last seen
  authority    \* the layer would let its host move the car

Init == cruise = FALSE /\ authority = FALSE

\* Stock cruise engages: the layer grants authority or refuses it.
CruiseOn  == ~cruise /\ cruise' /\ authority' \in BOOLEAN

\* The layer takes authority back while stock cruise stays engaged.
Withdraw  == cruise /\ cruise' /\ authority /\ ~authority'

CruiseOff == cruise /\ ~cruise' /\ ~authority'

Next == CruiseOn \/ Withdraw \/ CruiseOff

Spec == Init /\ [][Next]_<<cruise, authority>>
=============================================================================
