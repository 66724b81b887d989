------------------------------- MODULE MCMsgq -------------------------------
(***************************************************************************)
(* Instance of Msgq: the sizes of the messages that are sent.              *)
(***************************************************************************)
EXTENDS Msgq

\* The third message wraps around and ends inside the second.
Sizes == <<1, 2, 2>>
=============================================================================
