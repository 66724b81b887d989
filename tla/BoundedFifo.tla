---------------------------- MODULE BoundedFifo ----------------------------
(***************************************************************************)
(* What a can_ring promises the interrupt handlers that share it: a first  *)
(* in, first out queue that refuses a packet only when it is full, and     *)
(* forgets everything when it is cleared.                                  *)
(***************************************************************************)
EXTENDS Integers, Sequences

CONSTANTS Capacity, Packets, NoPacket

VARIABLES
  queue,     \* the packets that wait, oldest first
  answer     \* the last call and what it returned: [call, ok, packet]

vars == <<queue, answer>>

Answer(call, ok, packet) == [call |-> call, ok |-> ok, packet |-> packet]

Init == queue = <<>> /\ answer = Answer("clear", TRUE, NoPacket)

Push(x) ==
  IF Len(queue) < Capacity
  THEN queue' = Append(queue, x) /\ answer' = Answer("push", TRUE, NoPacket)
  ELSE queue' = queue /\ answer' = Answer("push", FALSE, NoPacket)

Pop ==
  IF queue # <<>>
  THEN queue' = Tail(queue) /\ answer' = Answer("pop", TRUE, Head(queue))
  ELSE queue' = queue /\ answer' = Answer("pop", FALSE, NoPacket)

Clear == queue' = <<>> /\ answer' = Answer("clear", TRUE, NoPacket)

Next == (\E x \in Packets : Push(x)) \/ Pop \/ Clear

Spec == Init /\ [][Next]_vars
=============================================================================
