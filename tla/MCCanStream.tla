---------------------------- MODULE MCCanStream ----------------------------
(***************************************************************************)
(* Instance of CanStream: the lengths of the packets.                      *)
(***************************************************************************)
EXTENDS CanStream

CONSTANTS p, q

\* Shorter than a chunk, and as long.
Lengths == (p :> 2) @@ (q :> 3)
=============================================================================
