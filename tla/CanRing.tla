------------------------------ MODULE CanRing ------------------------------
(***************************************************************************)
(* The rings between the panda's interrupt handlers (can_ring of           *)
(* panda/board/drivers/can_common.h).  Each call runs in a critical        *)
(* section, so it is one action.  One slot stays empty to tell a full ring *)
(* from an empty one.                                                      *)
(***************************************************************************)
EXTENDS Integers, Sequences

CONSTANTS
  fifo_size,     \* 0x1A0 for a transmit queue, 0x1000 for the receive queue
  Packets,
  NoPacket       \* what an element holds before it is written

ASSUME RingAssumption == fifo_size \in Nat \ {0} /\ NoPacket \notin Packets

VARIABLES
  w_ptr, r_ptr, elems,
  answer         \* history: the last call and what it returned, [call, ok, packet]

ringVars == <<w_ptr, r_ptr, elems>>
vars == <<ringVars, answer>>

Slots == 0..(fifo_size - 1)

Init ==
  /\ w_ptr = 0 /\ r_ptr = 0
  /\ elems = [i \in Slots |-> NoPacket]
  /\ answer = [call |-> "clear", ok |-> TRUE, packet |-> NoPacket]

\* Mutant: the pointer wraps one slot late.
NextPtrLate(p) == IF p = fifo_size THEN 0 ELSE p + 1
\* The slot after p, wrapping at fifo_size.
NextPtr(p) == IF p + 1 = fifo_size THEN 0 ELSE p + 1

\* Mutant: the last slot is used as well.
HasRoomToTheLast == TRUE
HasRoom == NextPtr(w_ptr) # r_ptr

can_push(elem) ==
  /\ IF HasRoom
     THEN elems' = [elems EXCEPT ![w_ptr] = elem] /\ w_ptr' = NextPtr(w_ptr)
     ELSE UNCHANGED <<elems, w_ptr>>
  /\ answer' = [call |-> "push", ok |-> HasRoom, packet |-> NoPacket]
  /\ UNCHANGED r_ptr

can_pop ==
  /\ r_ptr' = IF w_ptr # r_ptr THEN NextPtr(r_ptr) ELSE r_ptr
  /\ answer' = [call |-> "pop", ok |-> w_ptr # r_ptr,
                packet |-> IF w_ptr # r_ptr THEN elems[r_ptr] ELSE NoPacket]
  /\ UNCHANGED <<w_ptr, elems>>

\* The ring's part of can_clear (CanBus has the rest of it).
can_clear ==
  /\ w_ptr' = 0 /\ r_ptr' = 0
  /\ answer' = [call |-> "clear", ok |-> TRUE, packet |-> NoPacket]
  /\ UNCHANGED elems

\* Mutant: forgets the slot that stays empty.
SlotsEmptyAll ==
  IF w_ptr >= r_ptr THEN fifo_size - w_ptr + r_ptr ELSE r_ptr - w_ptr

can_slots_empty ==
  IF w_ptr >= r_ptr THEN fifo_size - 1 - w_ptr + r_ptr ELSE r_ptr - w_ptr - 1

Next == (\E x \in Packets : can_push(x)) \/ can_pop \/ can_clear

Spec == Init /\ [][Next]_vars

-----------------------------------------------------------------------------
(* Properties                                                              *)

\* Pointers stay inside the ring, whose elements were written by can_push.
TypeOK ==
  /\ w_ptr \in Slots /\ r_ptr \in Slots
  /\ elems \in [Slots -> Packets \cup {NoPacket}]
  /\ answer \in [call : {"push", "pop", "clear"}, ok : BOOLEAN, packet : Packets \cup {NoPacket}]

\* The packets between the pointers, oldest first.
Waiting == IF w_ptr >= r_ptr THEN w_ptr - r_ptr ELSE fifo_size - r_ptr + w_ptr
Slot(i) == IF r_ptr + i - 1 < fifo_size THEN r_ptr + i - 1 ELSE r_ptr + i - 1 - fifo_size
Contents == [i \in 1..Waiting |-> elems[Slot(i)]]

\* The free slots the USB back pressure counts on are those can_push can fill:
\* a ring never has fewer or more, wherever its pointers have wrapped to.
SlotsAreExact == can_slots_empty + Len(Contents) = fifo_size - 1

\* The ring is a first in, first out queue of fifo_size - 1 packets: none is lost,
\* repeated, overwritten or delivered twice across any number of wraps.
Fifo == INSTANCE BoundedFifo WITH queue <- Contents, Capacity <- fifo_size - 1
ImplementsFifo == Fifo!Spec
=============================================================================
