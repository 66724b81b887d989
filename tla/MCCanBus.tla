------------------------------ MODULE MCCanBus ------------------------------
(* A host that writes to bus 0 while camera and car forward to each other.  *)
EXTENDS CanBus, TLC

CONSTANTS h, c, lkas

MCCarFrames == (0 :> {c}) @@ (1 :> {}) @@ (2 :> {c, lkas})
MCBusOf == (h :> 0)
=============================================================================
