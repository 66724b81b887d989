--------------------------- MODULE MCSteerTorque ---------------------------
(***************************************************************************)
(* Torques for model checking SteerTorque.  Limits keep the proportions of *)
(* TOYOTA_STEERING_LIMITS: rate up < rate down < real time delta < limit.  *)
(***************************************************************************)
EXTENDS SteerTorque

SmallTorques == -1..4
EpsReports   == {-3, 5}
=============================================================================
