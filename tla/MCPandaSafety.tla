--------------------------- MODULE MCPandaSafety ---------------------------
(***************************************************************************)
(* Inputs for model checking PandaSafety, one group per run.               *)
(***************************************************************************)
EXTENDS PandaSafety

Rx(addr, data) == [bus |-> 0, addr |-> addr, data |-> data]
Tx(bus, addr, data) == [bus |-> bus, addr |-> addr, data |-> data]
Req(m, p) == [mode |-> m, param |-> p]

\* Pedals: every signal the Toyota hook samples, a corrupted cruise frame, the
\* stock steering ECU; the EPS message stays away, so ticks take controls too.
PedalFrames ==
  {Rx("WHEEL", {}), Rx("WHEEL", {"MOVING"}), Rx("PCM", {}), Rx("PCM", {"CRUISE"}),
   Rx("PCM", {"CRUISE", "GAS"}), Rx("PCM", {"CRUISE", "BADSUM"}),
   Rx("BRAKE226", {}), Rx("BRAKE226", {"BRAKE"}), Rx("BRAKE224", {"BRAKE"}),
   Rx("INTERCEPTOR", {"GAS"}), Rx("INTERCEPTOR", {}), Rx("STEER", {}),
   [bus |-> 1, addr |-> "OTHER", data |-> {}]}

\* Heartbeat: the four monitored messages and the two values of stock cruise.
HeartbeatFrames ==
  {Rx("WHEEL", {}), Rx("EPS", {}), Rx("BRAKE226", {}), Rx("PCM", {}), Rx("PCM", {"CRUISE"})}

ActuatingFrames ==
  {Tx(0, "STEER", {"NONZERO"}), Tx(0, "ACCEL", {"NONZERO"}), Tx(0, "GAS", {"NONZERO"}),
   Tx(0, "AEB", {"NONZERO"}), Tx(0, "LTA", {"NONZERO"}), Tx(0, "STEER", {}), Tx(0, "OBD", {}),
   Tx(1, "DSU1", {}), Tx(2, "STEER", {"NONZERO"})}

CarRequests   == {Req("TOYOTA", {}), Req("TOYOTA", {"ALT_BRAKE"}), Req("NOOUTPUT", {})}
ModeRequests  == {Req("TOYOTA", {}), Req("ELM327", {}), Req("NOOUTPUT", {}), Req("ALLOUTPUT", {})}
NoDisengage   == {{}, {"NO_DISENGAGE_ON_GAS"}}
NoAlternative == {}
AlwaysOn      == {TRUE}   \* pyboard_check_ignition
LineOrNot     == BOOLEAN
=============================================================================
