------------------------------ MODULE BusOrder ------------------------------
(***************************************************************************)
(* What the panda promises for the frames it accepts for a bus: they leave *)
(* in the order they were accepted, each once, none that was not accepted; *)
(* only clearing a bus forgets frames, and never the one on the wire.      *)
(***************************************************************************)
EXTENDS Sequences

CONSTANTS Buses, Frames

VARIABLE queue     \* per bus, the frames that still have to leave, oldest first

Init == queue = [b \in Buses |-> <<>>]

Accept(b, f) == queue' = [queue EXCEPT ![b] = Append(@, f)]

Leave(b) == queue[b] # <<>> /\ queue' = [queue EXCEPT ![b] = Tail(@)]

\* A clear of buses B forgets everything, or everything but the oldest frame.
Clear(B) ==
  /\ DOMAIN queue' = Buses
  /\ \A b \in Buses \ B : queue'[b] = queue[b]
  /\ \A b \in B : \/ queue'[b] = <<>>
                  \/ queue[b] # <<>> /\ queue'[b] = <<Head(queue[b])>>

Next ==
  \/ \E b \in Buses : (\E f \in Frames : Accept(b, f)) \/ Leave(b)
  \/ \E B \in SUBSET Buses : Clear(B)

Spec == Init /\ [][Next]_queue
=============================================================================
