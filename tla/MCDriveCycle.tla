---------------------------- MODULE MCDriveCycle ----------------------------
(***************************************************************************)
(* Instance of DriveCycle.                                                 *)
(***************************************************************************)
EXTENDS DriveCycle
=============================================================================
