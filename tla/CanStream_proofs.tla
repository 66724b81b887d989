-------------------------- MODULE CanStream_proofs --------------------------
(***************************************************************************)
(* Proofs about CanRing and CanStream, for every ring size, every set of   *)
(* packets and lengths no longer than a chunk, every size of the chunks and*)
(* of the transfers.  In turn: the ring; induction over numbers and        *)
(* sequences, from the least element of a set, as the recursion of Split   *)
(* and of the community modules' FlattenSeq needs it; what Split makes of a*)
(* run of bytes; the chunks of a transfer; the invariant and its steps.    *)
(***************************************************************************)
EXTENDS CanStream, SequenceTheorems, WellFoundedInduction, TLAPS

-----------------------------------------------------------------------------
(* The contents of a ring as a sequence                                    *)

Elements == Packets \cup {NoPacket}

\* The successor of a slot is a slot.
LEMMA NextPtrType == ASSUME NEW p \in Slots PROVE NextPtr(p) \in Slots
BY RingAssumption DEF Slots, NextPtr

\* Fewer packets wait than the ring has slots.
LEMMA WaitingType == ASSUME TypeOK PROVE Waiting \in 0..(fifo_size - 1)
BY RingAssumption DEF TypeOK, Waiting, Slots

\* Every place of the contents is a slot of the ring.
LEMMA SlotType ==
  ASSUME TypeOK, NEW i \in 1..fifo_size
  PROVE  Slot(i) \in Slots
BY RingAssumption DEF TypeOK, Slot, Slots

\* The contents are a sequence of elements, read slot by slot.
ContentsOK ==
  /\ Waiting \in 0..(fifo_size - 1)
  /\ Contents \in Seq(Elements)
  /\ Len(Contents) = Waiting
  /\ \A i \in 1..Waiting : Contents[i] = elems[Slot(i)]

\* The sequence type of the contents, their length and their places.
LEMMA ContentsType == TypeOK => ContentsOK
<1> SUFFICES ASSUME TypeOK PROVE ContentsOK
  OBVIOUS
<1>1. Waiting \in 0..(fifo_size - 1) /\ Waiting \in Nat
  BY WaitingType, RingAssumption
<1>2. \A i \in 1..Waiting : elems[Slot(i)] \in Elements
  <2> TAKE i \in 1..Waiting
  <2>1. Slot(i) \in Slots
    BY <1>1, SlotType, RingAssumption
  <2> QED BY <2>1 DEF TypeOK, Elements
<1>3. Contents \in [1..Waiting -> Elements]
  BY <1>2 DEF Contents
<1>4. Contents \in Seq(Elements)
  BY <1>1, <1>3, SeqDef
<1>5. Len(Contents) = Waiting
  BY <1>1, <1>3, <1>4, LenProperties
<1> QED BY <1>1, <1>4, <1>5 DEF Contents, ContentsOK

-----------------------------------------------------------------------------
(* Type correctness and the free slots                                     *)

\* The empty ring satisfies the type invariant.
LEMMA InitTypeOK == Init => TypeOK
BY RingAssumption DEF Init, TypeOK, Slots

\* Every operation of the ring keeps the type invariant.
LEMMA NextTypeOK == TypeOK /\ [Next]_vars => TypeOK'
<1> SUFFICES ASSUME TypeOK, [Next]_vars PROVE TypeOK'
  OBVIOUS
<1>1. ASSUME NEW x \in Packets, can_push(x) PROVE TypeOK'
  BY <1>1, NextPtrType DEF TypeOK, can_push, HasRoom
<1>2. CASE can_pop
  BY <1>2, NextPtrType DEF TypeOK, can_pop
<1>3. CASE can_clear
  BY <1>3, RingAssumption DEF TypeOK, can_clear, Slots
<1>4. CASE UNCHANGED vars
  BY <1>4 DEF TypeOK, vars, ringVars
<1> QED BY <1>1, <1>2, <1>3, <1>4 DEF Next

\* Pointers stay inside every ring.
THEOREM TypeCorrect == Spec => []TypeOK
<1> QED BY InitTypeOK, NextTypeOK, PTL DEF Spec

\* can_slots_empty and the waiting packets add up to the usable slots.
LEMMA SlotsCount == TypeOK => SlotsAreExact
<1> SUFFICES ASSUME TypeOK PROVE SlotsAreExact
  OBVIOUS
<1>1. Len(Contents) = Waiting
  BY ContentsType DEF ContentsOK
<1>2. can_slots_empty + Waiting = fifo_size - 1
  BY RingAssumption DEF TypeOK, can_slots_empty, Waiting, Slots
<1> QED BY <1>1, <1>2 DEF SlotsAreExact

\* can_slots_empty answers exactly how many packets can still be pushed, for every
\* ring size.
THEOREM SlotsExact == Spec => []SlotsAreExact
<1> QED BY TypeCorrect, SlotsCount, PTL

-----------------------------------------------------------------------------
(* The ring implements the queue                                           *)

\* Pushing into a ring with room appends to its contents: the slot that is written
\* is none of the slots that wait.
LEMMA PushAppends ==
  ASSUME TypeOK, TypeOK', NEW x \in Packets, can_push(x), HasRoom
  PROVE  Waiting < fifo_size - 1 /\ Contents' = Append(Contents, x)
<1>1. ContentsOK /\ ContentsOK'
  BY ContentsType, PTL
<1>2. /\ w_ptr \in 0..(fifo_size - 1) /\ r_ptr \in 0..(fifo_size - 1)
      /\ fifo_size \in Nat \ {0}
  BY RingAssumption DEF TypeOK, Slots
<1>3. w_ptr' = NextPtr(w_ptr) /\ r_ptr' = r_ptr /\ elems' = [elems EXCEPT ![w_ptr] = x]
  BY DEF can_push
<1>4. Waiting < fifo_size - 1 /\ Waiting' = Waiting + 1
  BY <1>2, <1>3 DEF HasRoom, NextPtr, Waiting
<1>5. \A i \in 1..Waiting : Slot(i) # w_ptr
  BY <1>2 DEF Slot, Waiting
<1>6. Slot(Waiting + 1) = w_ptr
  BY <1>2, <1>4 DEF Slot, Waiting
<1>7. \A i \in 1..Waiting' : Contents'[i] = elems'[Slot(i)]
  <2>1. \A i \in 1..Waiting' : Slot(i)' = Slot(i)
    BY <1>3 DEF Slot
  <2> QED BY <1>1, <2>1 DEF ContentsOK
<1>8. Waiting \in Nat /\ x \in Elements
  BY <1>1, <1>2 DEF ContentsOK, Elements
<1>9. /\ Append(Contents, x) \in Seq(Elements) /\ Len(Append(Contents, x)) = Waiting + 1
      /\ \A i \in 1..Waiting : Append(Contents, x)[i] = Contents[i]
      /\ Append(Contents, x)[Waiting + 1] = x
  <2>1. Contents \in Seq(Elements) /\ Len(Contents) = Waiting
    BY <1>1 DEF ContentsOK
  <2> QED BY <2>1, <1>8, AppendProperties
<1>10. \A i \in 1..(Waiting + 1) : Contents'[i] = Append(Contents, x)[i]
  <2> TAKE i \in 1..(Waiting + 1)
  <2>1. CASE i = Waiting + 1
    <3>1. elems'[w_ptr] = x
      BY <1>3 DEF TypeOK
    <3> QED BY <2>1, <3>1, <1>4, <1>6, <1>7, <1>9
  <2>2. CASE i # Waiting + 1
    <3>1. i \in 1..Waiting
      BY <2>2, <1>8
    <3>2. Slot(i) \in Slots
      BY <3>1, <1>1, <1>2, SlotType DEF ContentsOK
    <3>3. elems'[Slot(i)] = elems[Slot(i)]
      BY <3>1, <3>2, <1>3, <1>5 DEF TypeOK
    <3> QED BY <3>1, <3>3, <1>1, <1>4, <1>7, <1>9 DEF ContentsOK
  <2> QED BY <2>1, <2>2
<1>11. Contents' \in Seq(Elements) /\ Len(Contents') = Waiting + 1
  BY <1>1, <1>4 DEF ContentsOK
<1>12. Contents' = Append(Contents, x)
  BY <1>9, <1>10, <1>11, SeqEqual
<1> QED BY <1>4, <1>12

\* A ring without room holds as many packets as it may.
LEMMA FullRing == ASSUME TypeOK, ~HasRoom PROVE Waiting = fifo_size - 1
BY RingAssumption DEF TypeOK, Slots, HasRoom, NextPtr, Waiting

\* A call that moves no pointer and writes no slot leaves the contents alone.
LEMMA SameContents == ASSUME UNCHANGED ringVars PROVE Contents' = Contents
BY DEF ringVars, Contents, Waiting, Slot

\* A push is a push of the bounded queue, refused exactly when it is full.
LEMMA PushStep ==
  ASSUME TypeOK, TypeOK', NEW x \in Packets, can_push(x)
  PROVE  Fifo!Push(x)
<1>1. Len(Contents) = Waiting /\ fifo_size \in Nat
  BY ContentsType, RingAssumption DEF ContentsOK
<1>2. CASE HasRoom
  <2>1. Len(Contents) < fifo_size - 1 /\ Contents' = Append(Contents, x)
    BY <1>1, <1>2, PushAppends
  <2>2. answer' = Fifo!Answer("push", TRUE, NoPacket)
    BY <1>2 DEF can_push, Fifo!Answer
  <2> QED BY <2>1, <2>2 DEF Fifo!Push
<1>3. CASE ~HasRoom
  <2>1. ~(Len(Contents) < fifo_size - 1)
    BY <1>1, <1>3, FullRing
  <2>2. Contents' = Contents
    BY <1>3, SameContents DEF can_push, ringVars
  <2>3. HasRoom = FALSE
    BY <1>3 DEF HasRoom
  <2>4. answer' = Fifo!Answer("push", FALSE, NoPacket)
    BY <2>3 DEF can_push, Fifo!Answer
  <2> QED BY <2>1, <2>2, <2>4 DEF Fifo!Push
<1> QED BY <1>2, <1>3

\* Popping takes the oldest packet and moves the others up by one place.
LEMMA PopTakesHead ==
  ASSUME TypeOK, TypeOK', can_pop, w_ptr # r_ptr
  PROVE  /\ Contents # <<>> /\ Head(Contents) = elems[r_ptr]
         /\ Contents' = Tail(Contents)
<1>1. ContentsOK /\ ContentsOK'
  BY ContentsType, PTL
<1>2. /\ w_ptr \in 0..(fifo_size - 1) /\ r_ptr \in 0..(fifo_size - 1)
      /\ fifo_size \in Nat \ {0}
  BY RingAssumption DEF TypeOK, Slots
<1>3. w_ptr' = w_ptr /\ r_ptr' = NextPtr(r_ptr) /\ elems' = elems
  BY DEF can_pop
<1>4. Waiting > 0 /\ Waiting' = Waiting - 1 /\ Waiting < fifo_size
  BY <1>2, <1>3 DEF NextPtr, Waiting
<1>5. Slot(1) = r_ptr
  BY <1>2 DEF Slot
<1>6. \A i \in 1..(Waiting - 1) : Slot(i)' = Slot(i + 1)
  <2> TAKE i \in 1..(Waiting - 1)
  <2>1. i \in Nat /\ i < Waiting /\ i > 0 /\ Waiting \in 0..(fifo_size - 1)
    BY <1>1 DEF ContentsOK
  <2>2. i + 1 < fifo_size + 1
    BY <2>1, <1>2
  <2>3. CASE r_ptr + 1 = fifo_size
    BY <2>1, <2>2, <2>3, <1>2, <1>3 DEF Slot, NextPtr
  <2>4. CASE r_ptr + 1 # fifo_size
    BY <2>1, <2>2, <2>4, <1>2, <1>3 DEF Slot, NextPtr
  <2> QED BY <2>3, <2>4
<1>7. Contents \in Seq(Elements) /\ Len(Contents) = Waiting /\ Waiting \in Nat
  BY <1>1, <1>2 DEF ContentsOK
<1>8. Contents # <<>>
  BY <1>4, <1>7, EmptySeq
<1>9. Head(Contents) = Contents[1]
  BY <1>7, <1>8
<1>10. /\ Tail(Contents) \in Seq(Elements) /\ Len(Tail(Contents)) = Waiting - 1
       /\ \A i \in 1..(Waiting - 1) : Tail(Contents)[i] = Contents[i + 1]
  BY <1>7, <1>8, HeadTailProperties
<1>11. \A i \in 1..(Waiting - 1) : Contents'[i] = Tail(Contents)[i]
  <2> TAKE i \in 1..(Waiting - 1)
  <2>1. i \in 1..Waiting' /\ i + 1 \in 1..Waiting
    BY <1>4, <1>7
  <2>2. Contents'[i] = elems'[Slot(i)'] /\ Contents[i + 1] = elems[Slot(i + 1)]
    BY <2>1, <1>1 DEF ContentsOK
  <2> QED BY <2>2, <1>3, <1>6, <1>10
<1>12. Contents' \in Seq(Elements) /\ Len(Contents') = Waiting - 1
  BY <1>1, <1>4 DEF ContentsOK
<1>13. Contents' = Tail(Contents)
  BY <1>10, <1>11, <1>12, SeqEqual
<1>14. Contents[1] = elems[r_ptr]
  BY <1>1, <1>4, <1>5, <1>7 DEF ContentsOK
<1> QED BY <1>8, <1>9, <1>13, <1>14

\* A pop takes the head of the bounded queue, and fails exactly when it is empty.
LEMMA PopStep ==
  ASSUME TypeOK, TypeOK', can_pop
  PROVE  Fifo!Pop
<1>1. CASE w_ptr # r_ptr
  <2>1. /\ Contents # <<>> /\ Head(Contents) = elems[r_ptr]
        /\ Contents' = Tail(Contents)
    BY <1>1, PopTakesHead
  <2>2. answer' = Fifo!Answer("pop", TRUE, Head(Contents))
    BY <1>1, <2>1 DEF can_pop, Fifo!Answer
  <2> QED BY <2>1, <2>2 DEF Fifo!Pop
<1>2. CASE w_ptr = r_ptr
  <2>1. Contents = <<>>
    <3>1. Waiting = 0
      BY <1>2, RingAssumption DEF TypeOK, Slots, Waiting
    <3> QED BY <3>1, ContentsType, EmptySeq DEF ContentsOK
  <2>2. Contents' = Contents
    BY <1>2, SameContents DEF can_pop, ringVars
  <2>3. answer' = Fifo!Answer("pop", FALSE, NoPacket)
    BY <1>2 DEF can_pop, Fifo!Answer
  <2> QED BY <2>1, <2>2, <2>3 DEF Fifo!Pop
<1> QED BY <1>1, <1>2

\* Both pointers at 0: nothing waits.
LEMMA NothingWaits == TypeOK /\ w_ptr = 0 /\ r_ptr = 0 => Contents = <<>>
<1> SUFFICES ASSUME TypeOK, w_ptr = 0, r_ptr = 0 PROVE Contents = <<>>
  OBVIOUS
<1>1. Waiting = 0
  BY DEF Waiting
<1> QED BY <1>1, ContentsType, EmptySeq DEF ContentsOK

\* A clear empties the bounded queue.
LEMMA ClearStep ==
  ASSUME TypeOK', can_clear
  PROVE  Fifo!Clear
<1>1. (TypeOK /\ w_ptr = 0 /\ r_ptr = 0)' => (Contents = <<>>)'
  BY NothingWaits, PTL
<1>2. answer' = Fifo!Answer("clear", TRUE, NoPacket)
  BY DEF can_clear, Fifo!Answer
<1> QED BY <1>1, <1>2 DEF can_clear, Fifo!Clear

\* Every ring, whatever its size, implements the bounded queue: no packet is lost,
\* repeated or overwritten, and one is refused only when fifo_size - 1 wait.
THEOREM Implements == Spec => ImplementsFifo
<1>1. Init => Fifo!Init
  <2> SUFFICES ASSUME Init PROVE Fifo!Init
    OBVIOUS
  <2>1. Contents = <<>>
    BY InitTypeOK, NothingWaits DEF Init
  <2> QED BY <2>1 DEF Init, Fifo!Init, Fifo!Answer
<1>2. TypeOK /\ TypeOK' /\ [Next]_vars => [Fifo!Next]_Fifo!vars
  <2> SUFFICES ASSUME TypeOK, TypeOK', [Next]_vars PROVE [Fifo!Next]_Fifo!vars
    OBVIOUS
  <2>1. ASSUME NEW x \in Packets, can_push(x) PROVE Fifo!Next
    BY <2>1, PushStep DEF Fifo!Next
  <2>2. CASE can_pop
    BY <2>2, PopStep DEF Fifo!Next
  <2>3. CASE can_clear
    BY <2>3, ClearStep DEF Fifo!Next
  <2>4. CASE UNCHANGED vars
    BY <2>4, SameContents DEF vars, ringVars, Fifo!vars
  <2> QED BY <2>1, <2>2, <2>3, <2>4 DEF Next
<1> QED BY <1>1, <1>2, TypeCorrect, PTL DEF Spec, ImplementsFifo, Fifo!Spec

-----------------------------------------------------------------------------
(* The ring under the stream                                               *)

\* A step of the stream is a step of the ring, or leaves it alone.
LEMMA StreamStepsRing == StreamNext => [Next]_vars
<1> SUFFICES ASSUME StreamNext PROVE [Next]_vars
  OBVIOUS
<1>1. ASSUME NEW x \in Packets, Arrive(x) PROVE Next
  BY <1>1 DEF Arrive, Next
<1>2. CASE ClearQueue
  BY <1>2 DEF ClearQueue, Next
<1>3. CASE StartRead
  BY <1>3 DEF StartRead
<1>4. CASE InToken
  BY <1>4 DEF InToken
<1>5. CASE Fill
  BY <1>5 DEF Fill, Next
<1>6. CASE Fetch
  BY <1>6 DEF Fetch
<1>7. ASSUME NEW flush \in BOOLEAN, Reconnect(flush) PROVE UNCHANGED vars
  BY <1>7 DEF Reconnect
<1>8. ASSUME NEW list \in Lists, Write(list) PROVE UNCHANGED vars
  BY <1>8 DEF Write
<1>9. CASE SendChunk
  BY <1>9 DEF SendChunk
<1>10. CASE EndWrite
  BY <1>10 DEF EndWrite
<1>11. CASE Resend
  BY <1>11 DEF Resend
<1>12. ASSUME NEW overflow \in BOOLEAN, NEW atHand \in BOOLEAN, ReadFails(overflow, atHand)
       PROVE  UNCHANGED vars
  BY <1>12 DEF ReadFails
<1>13. CASE ReadLost
  BY <1>13 DEF ReadLost
<1> QED BY <1>1, <1>2, <1>3, <1>4, <1>5, <1>6, <1>7, <1>8, <1>9, <1>10, <1>11, <1>12, <1>13 DEF StreamNext

\* The receive queue of the stream is the ring of CanRing.
THEOREM StreamIsRing == StreamSpec => Spec
<1>1. StreamInit => Init
  BY DEF StreamInit
<1>2. [StreamNext]_streamVars => [Next]_vars
  BY StreamStepsRing DEF streamVars
<1> QED BY <1>1, <1>2, PTL DEF StreamSpec, Spec

\* The stream's receive queue is well typed, counts its free slots exactly and is a
\* bounded first in, first out queue.
THEOREM StreamRing == StreamSpec => []TypeOK /\ []SlotsAreExact /\ ImplementsFifo
<1> QED BY StreamIsRing, TypeCorrect, SlotsExact, Implements, PTL

\* What waits in the ring are packets: no slot that was never written is read.
RingInv == TypeOK /\ Contents \in Seq(Packets)

\* Pushing, popping and clearing leave only packets between the pointers.
LEMMA RingInvStep == RingInv /\ [Next]_vars => RingInv'
<1> SUFFICES ASSUME RingInv, [Next]_vars PROVE RingInv'
  OBVIOUS
<1>1. TypeOK /\ TypeOK' /\ Contents \in Seq(Packets)
  BY NextTypeOK DEF RingInv
<1>2. ASSUME NEW x \in Packets, can_push(x) PROVE Contents' \in Seq(Packets)
  <2>1. CASE HasRoom
    <3>1. Contents' = Append(Contents, x)
      BY <1>1, <1>2, <2>1, PushAppends
    <3> QED BY <1>1, <3>1
  <2>2. CASE ~HasRoom
    <3>1. Contents' = Contents
      BY <1>2, <2>2, SameContents DEF can_push, ringVars
    <3> QED BY <1>1, <3>1
  <2> QED BY <2>1, <2>2
<1>3. ASSUME can_pop PROVE Contents' \in Seq(Packets)
  <2>1. CASE w_ptr # r_ptr
    <3>1. Contents # <<>> /\ Contents' = Tail(Contents)
      BY <1>1, <1>3, <2>1, PopTakesHead
    <3> QED BY <1>1, <3>1
  <2>2. CASE w_ptr = r_ptr
    <3>1. Contents' = Contents
      BY <1>3, <2>2, SameContents DEF can_pop, ringVars
    <3> QED BY <1>1, <3>1
  <2> QED BY <2>1, <2>2
<1>4. ASSUME can_clear PROVE Contents' \in Seq(Packets)
  <2>1. (TypeOK /\ w_ptr = 0 /\ r_ptr = 0)' => (Contents = <<>>)'
    BY NothingWaits, PTL
  <2>2. Contents' = <<>>
    BY <1>1, <1>4, <2>1 DEF can_clear
  <2> QED BY <2>2
<1>5. ASSUME UNCHANGED vars PROVE Contents' \in Seq(Packets)
  BY <1>1, <1>5, SameContents DEF vars
<1> QED BY <1>1, <1>2, <1>3, <1>4, <1>5 DEF Next, RingInv

\* The empty ring holds packets only, for it holds none.
LEMMA RingInvInit == Init => RingInv
<1> SUFFICES ASSUME Init PROVE RingInv
  OBVIOUS
<1>1. Contents = <<>>
  BY InitTypeOK, NothingWaits DEF Init
<1> QED BY <1>1, InitTypeOK DEF RingInv

\* The packet that can_pop takes was pushed.
LEMMA PopsPacket ==
  ASSUME RingInv, w_ptr # r_ptr
  PROVE  elems[r_ptr] \in Packets
<1>1. TypeOK /\ ContentsOK /\ Contents \in Seq(Packets)
  BY ContentsType DEF RingInv
<1>2. Waiting > 0 /\ Waiting \in Nat /\ Slot(1) = r_ptr
  BY <1>1, RingAssumption DEF TypeOK, Slots, Waiting, Slot
<1>3. Contents[1] = elems[Slot(1)] /\ Len(Contents) = Waiting
  BY <1>1, <1>2 DEF ContentsOK
<1> QED BY <1>1, <1>2, <1>3

-----------------------------------------------------------------------------
(* Induction and recursion                                                 *)

\* Every non-empty set of naturals has a least element.
LEMMA LeastNatural ==
  ASSUME NEW S, S \subseteq Nat, S # {}
  PROVE  \E m \in S : \A k \in S : m =< k
<1>1. IsWellFoundedOn(OpToRel(<, Nat), Nat)
  BY NatLessThanWellFounded
<1>2. PICK m \in S : \A k \in S : ~(<<k, m>> \in OpToRel(<, Nat))
  BY <1>1, WFMin
<1>3. \A k \in S : ~(k < m)
  BY <1>2 DEF OpToRel
<1> QED BY <1>3

\* Induction up to n, for the members of a set.
LEMMA Induction ==
  ASSUME NEW n \in Nat, NEW S, 0 \in S, \A k \in 0..(n - 1) : k \in S => k + 1 \in S
  PROVE  0..n \subseteq S
<1> DEFINE Bad == (0..n) \ S
<1>1. ASSUME Bad # {} PROVE FALSE
  <2>1. PICK m \in Bad : \A k \in Bad : m =< k
    <3>1. Bad \subseteq Nat
      OBVIOUS
    <3> QED BY <1>1, <3>1, LeastNatural
  <2>2. m \in 1..n /\ m - 1 \in 0..(n - 1)
    BY <2>1
  <2>3. m - 1 \in S
    BY <2>1, <2>2
  <2> QED BY <2>1, <2>2, <2>3
<1> QED BY <1>1

\* f holds what the first 0, 1, ..., n steps make of start.
IsRun(f, start, step, n) == f[0] = start /\ \A k \in 1..n : f[k] = step[k][f[k - 1]]

\* Every start and every n steps have a run: recursion over 0..n has a solution.
LEMMA RunExists ==
  ASSUME NEW A, NEW start \in A, NEW n \in Nat, NEW step \in [1..n -> [A -> A]]
  PROVE  \E f \in [0..n -> A] : IsRun(f, start, step, n)
<1> DEFINE Run(m, f) == IsRun(f, start, step, m)
           HasRun(m) == \E f \in [0..m -> A] : Run(m, f)
           S == {m \in 0..n : HasRun(m)}
<1>1. 0 \in S
  <2> DEFINE f == [k \in 0..0 |-> start]
  <2>1. f \in [0..0 -> A]
    OBVIOUS
  <2>2. Run(0, f)
    BY DEF IsRun
  <2>3. HasRun(0)
    <3> HIDE DEF Run, f
    <3> QED BY <2>1, <2>2
  <2> HIDE DEF HasRun
  <2> QED BY <2>3
<1>2. ASSUME NEW m \in 0..(n - 1), m \in S PROVE m + 1 \in S
  <2>1. PICK f \in [0..m -> A] : Run(m, f)
    <3>1. HasRun(m)
      <4> HIDE DEF HasRun
      <4> QED BY <1>2
    <3> QED BY <3>1
  <2> DEFINE last == step[m + 1][f[m]]
             g == [k \in 0..(m + 1) |-> IF k = m + 1 THEN last ELSE f[k]]
  <2>2. last \in A
    OBVIOUS
  <2>3. g \in [0..(m + 1) -> A]
    <3> HIDE DEF last
    <3> QED BY <2>2
  <2>4. g[0] = start
    <3> HIDE DEF last
    <3> QED BY <2>1 DEF IsRun
  <2>5. ASSUME NEW k \in 1..(m + 1) PROVE g[k] = step[k][g[k - 1]]
    <3>1. CASE k = m + 1
      <4>1. g[k] = last /\ g[k - 1] = f[m]
        <5> HIDE DEF last
        <5> QED BY <3>1
      <4> QED BY <3>1, <4>1
    <3>2. CASE k \in 1..m
      <4>1. g[k] = f[k] /\ g[k - 1] = f[k - 1]
        <5> HIDE DEF last
        <5> QED BY <3>2
      <4> QED BY <3>2, <2>1, <4>1 DEF IsRun
    <3> QED BY <3>1, <3>2
  <2>6. HasRun(m + 1)
    <3> HIDE DEF g
    <3> QED BY <2>3, <2>4, <2>5 DEF IsRun
  <2> HIDE DEF HasRun
  <2> QED BY <2>6
<1>3. n \in S
  <2>1. \A m \in 0..(n - 1) : m \in S => m + 1 \in S
    BY <1>2
  <2> HIDE DEF S
  <2>2. 0..n \subseteq S
    BY <1>1, <2>1, Induction
  <2> QED BY <2>2
<1>4. HasRun(n)
  <2> HIDE DEF HasRun
  <2> QED BY <1>3
<1> QED BY <1>4

\* Two functions that agree at 0, and wherever they agree one before, agree.
LEMMA RunsAgree ==
  ASSUME NEW n \in Nat, NEW f, NEW g, f[0] = g[0],
         \A k \in 1..n : f[k - 1] = g[k - 1] => f[k] = g[k]
  PROVE  f[n] = g[n]
<1> DEFINE S == {k \in 0..n : f[k] = g[k]}
<1>1. 0 \in S
  OBVIOUS
<1>2. \A k \in 0..(n - 1) : k \in S => k + 1 \in S
  OBVIOUS
<1>3. n \in S
  <2> HIDE DEF S
  <2> QED BY <1>1, <1>2, Induction
<1> QED BY <1>3

\* f holds the concatenations of the first 1, 2, ..., n lists of s.
Starts(f, s, n) == f[1] = s[1] /\ \A i \in 2..n : f[i] = f[i - 1] \o s[i]
ClosedUnderConcat(A) == \A a, b \in A : a \o b \in A

\* Every list of lists has the concatenations of its prefixes.
LEMMA PrefixesExist ==
  ASSUME NEW A, NEW n \in Nat \ {0}, NEW s \in [1..n -> A], ClosedUnderConcat(A)
  PROVE  \E f \in [1..n -> A] : Starts(f, s, n)
<1> DEFINE m == n - 1
           start == s[1]
           step == [k \in 1..m |-> [t \in A |-> t \o s[k + 1]]]
<1>1. m \in Nat /\ start \in A /\ n = m + 1
  OBVIOUS
<1>2. step \in [1..m -> [A -> A]]
  <2>1. \A k \in 1..m : s[k + 1] \in A
    OBVIOUS
  <2>2. \A k \in 1..m : \A t \in A : t \o s[k + 1] \in A
    BY <2>1 DEF ClosedUnderConcat
  <2> HIDE DEF m
  <2> QED BY <2>2
<1>3. PICK g \in [0..m -> A] : IsRun(g, start, step, m)
  <2> HIDE DEF m, start, step
  <2> QED BY <1>1, <1>2, RunExists
<1> HIDE DEF m
<1>4. ASSUME NEW k \in 1..m PROVE g[k] = g[k - 1] \o s[k + 1]
  <2>1. g[k - 1] \in A
    BY <1>1
  <2> QED BY <1>3, <2>1 DEF IsRun
<1> DEFINE f == [i \in 1..n |-> g[i - 1]]
<1>5. f \in [1..n -> A]
  BY <1>1
<1>6. f[1] = s[1]
  BY <1>1, <1>3 DEF IsRun
<1>7. ASSUME NEW i \in 2..n PROVE f[i] = f[i - 1] \o s[i]
  <2>1. i - 1 \in 1..m /\ (i - 1) + 1 = i /\ i \in 1..n /\ i - 1 \in 1..n
    BY <1>1
  <2>2. g[i - 1] = g[(i - 1) - 1] \o s[(i - 1) + 1]
    BY <2>1, <1>4
  <2>3. f[i] = g[i - 1] /\ f[i - 1] = g[(i - 1) - 1]
    BY <2>1
  <2> QED BY <2>1, <2>2, <2>3
<1> HIDE DEF f
<1> QED BY <1>5, <1>6, <1>7 DEF Starts

\* The community module's concatenation of a list of lists is what its recursion says.
LEMMA FlattenEquation ==
  ASSUME NEW T, NEW s \in Seq(Seq(T)), s # <<>>
  PROVE  \E f \in [1..Len(s) -> Seq(T)] :
           Starts(f, s, Len(s)) /\ FlattenSeq(s) = f[Len(s)]
<1> DEFINE n == Len(s)
           Eq(f) == f = [i \in 1..n |-> IF i = 1 THEN s[i] ELSE f[i - 1] \o s[i]]
           flat == CHOOSE f : Eq(f)
<1>0. n \in Nat \ {0} /\ s \in [1..n -> Seq(T)]
  OBVIOUS
<1>1. PICK f \in [1..n -> Seq(T)] : Starts(f, s, n)
  <2>1. ClosedUnderConcat(Seq(T))
    BY DEF ClosedUnderConcat
  <2> HIDE DEF n
  <2> QED BY <1>0, <2>1, PrefixesExist
<1>2. Eq(f)
  <2>1. f = [i \in 1..n |-> f[i]]
    OBVIOUS
  <2>2. \A i \in 1..n : f[i] = IF i = 1 THEN s[i] ELSE f[i - 1] \o s[i]
    <3> HIDE DEF n
    <3> TAKE i \in 1..n
    <3>1. i = 1 \/ i \in 2..n
      BY <1>0
    <3> QED BY <1>1, <3>1 DEF Starts
  <2> HIDE DEF n
  <2> QED BY <2>1, <2>2
<1>3. Eq(flat)
  <2> HIDE DEF Eq
  <2> QED BY <1>2
<1>4. FlattenSeq(s) = flat[n]
  <2>1. Len(s) # 0
    BY <1>0
  <2> QED BY <2>1, Zenon DEF FlattenSeq
<1>5. \A i \in 1..n : flat[i] = IF i = 1 THEN s[i] ELSE flat[i - 1] \o s[i]
  <2> HIDE DEF n, flat
  <2> QED BY <1>3
<1> HIDE DEF flat, Eq
<1>6. flat[n] = f[n]
  <2> DEFINE a == [i \in 0..(n - 1) |-> flat[i + 1]]
             b == [i \in 0..(n - 1) |-> f[i + 1]]
  <2> HIDE DEF n
  <2>1. a[0] = b[0] /\ n - 1 \in Nat
    BY <1>0, <1>1, <1>5 DEF Starts
  <2>2. \A k \in 1..(n - 1) : a[k - 1] = b[k - 1] => a[k] = b[k]
    <3> TAKE k \in 1..(n - 1)
    <3> HAVE a[k - 1] = b[k - 1]
    <3>1. k + 1 \in 2..n /\ k + 1 \in 1..n /\ k + 1 # 1 /\ (k + 1) - 1 = k /\ (k - 1) + 1 = k
      BY <1>0
    <3>2. flat[k + 1] = flat[k] \o s[k + 1] /\ f[k + 1] = f[k] \o s[k + 1]
      BY <1>1, <1>5, <3>1 DEF Starts
    <3>3. a[k - 1] = flat[k] /\ b[k - 1] = f[k] /\ a[k] = flat[k + 1] /\ b[k] = f[k + 1]
      BY <1>0, <3>1
    <3> QED BY <3>2, <3>3
  <2>3. a[n - 1] = b[n - 1]
    <3> HIDE DEF a, b
    <3> QED BY <2>1, <2>2, RunsAgree
  <2> QED BY <1>0, <2>3
<1> HIDE DEF n
<1>7. FlattenSeq(s) = f[n]
  BY <1>4, <1>6
<1> QED BY <1>1, <1>7 DEF n

\* No list at all concatenates to the empty list.
LEMMA FlattenEmpty == FlattenSeq(<<>>) = <<>>
BY DEF FlattenSeq

\* Concatenating one more list.
LEMMA FlattenAppend ==
  ASSUME NEW T, NEW s \in Seq(Seq(T)), NEW e \in Seq(T)
  PROVE  /\ FlattenSeq(s) \in Seq(T)
         /\ FlattenSeq(Append(s, e)) = FlattenSeq(s) \o e
<1> DEFINE n == Len(s)
           t == Append(s, e)
<1>1. /\ n \in Nat /\ t \in Seq(Seq(T)) /\ t # <<>> /\ Len(t) = n + 1
      /\ \A i \in 1..n : t[i] = s[i]
      /\ t[n + 1] = e
  BY AppendProperties
<1>2. PICK g \in [1..(n + 1) -> Seq(T)] :
        Starts(g, t, n + 1) /\ FlattenSeq(t) = g[n + 1]
  <2> HIDE DEF n, t
  <2> QED BY <1>1, FlattenEquation
<1>3. CASE n = 0
  <2>1. s = <<>> /\ FlattenSeq(s) = <<>>
    BY <1>3, FlattenEmpty
  <2>2. FlattenSeq(t) = e
    BY <1>1, <1>2, <1>3 DEF Starts
  <2>3. <<>> \in Seq(T) /\ <<>> \o e = e
    OBVIOUS
  <2> QED BY <2>1, <2>2, <2>3
<1>4. CASE n # 0
  <2>0. n \in Nat \ {0}
    BY <1>1, <1>4
  <2>1. PICK f \in [1..n -> Seq(T)] : Starts(f, s, n) /\ FlattenSeq(s) = f[n]
    <3>1. s # <<>>
      BY <1>4
    <3> QED BY <3>1, FlattenEquation
  <2> HIDE DEF n, t
  <2> DEFINE a == [k \in 0..(n - 1) |-> f[k + 1]]
             b == [k \in 0..(n - 1) |-> g[k + 1]]
  <2>2. n - 1 \in Nat /\ a[0] = b[0]
    BY <1>1, <1>2, <2>0, <2>1 DEF Starts
  <2>3. \A k \in 1..(n - 1) : a[k - 1] = b[k - 1] => a[k] = b[k]
    <3> TAKE k \in 1..(n - 1)
    <3> HAVE a[k - 1] = b[k - 1]
    <3>1. k + 1 \in 2..n /\ k + 1 \in 2..(n + 1) /\ k + 1 \in 1..n /\ (k + 1) - 1 = k /\ (k - 1) + 1 = k
      BY <2>0
    <3>2. f[k + 1] = f[k] \o s[k + 1] /\ g[k + 1] = g[k] \o t[k + 1]
      BY <1>2, <2>1, <3>1 DEF Starts
    <3>3. a[k - 1] = f[k] /\ b[k - 1] = g[k] /\ a[k] = f[k + 1] /\ b[k] = g[k + 1]
      BY <2>0, <3>1
    <3>4. t[k + 1] = s[k + 1]
      BY <1>1, <3>1
    <3> QED BY <3>2, <3>3, <3>4
  <2>4. f[n] = g[n]
    <3>1. a[n - 1] = b[n - 1]
      <4> HIDE DEF a, b
      <4> QED BY <2>2, <2>3, RunsAgree
    <3> QED BY <2>0, <3>1
  <2>5. g[n + 1] = g[n] \o t[n + 1]
    <3>1. n + 1 \in 2..(n + 1) /\ (n + 1) - 1 = n
      BY <2>0
    <3> QED BY <1>2, <3>1 DEF Starts
  <2>6. f[n] \in Seq(T)
    BY <2>0
  <2> QED BY <1>1, <1>2, <2>1, <2>4, <2>5, <2>6 DEF t
<1> QED BY <1>3, <1>4

\* What holds of the empty sequence and of every extension holds of every sequence.
LEMMA SeqInduction ==
  ASSUME NEW T, NEW S, <<>> \in S, \A s \in Seq(T) : \A e \in T : s \in S => Append(s, e) \in S
  PROVE  Seq(T) \subseteq S
<1> SUFFICES ASSUME NEW s \in Seq(T) PROVE s \in S
  OBVIOUS
<1> DEFINE N == Len(s)
           Good(n) == \A t \in Seq(T) : Len(t) = n => t \in S
           Lengths == {n \in 0..N : Good(n)}
<1>1. N \in Nat
  OBVIOUS
<1>2. Good(0)
  <2> TAKE t \in Seq(T)
  <2> HAVE Len(t) = 0
  <2>1. t = <<>>
    OBVIOUS
  <2> QED BY <2>1
<1>3. ASSUME NEW n \in 0..(N - 1), Good(n) PROVE Good(n + 1)
  <2> TAKE t \in Seq(T)
  <2> HAVE Len(t) = n + 1
  <2>1. PICK u \in Seq(T), e \in T : t = Append(u, e)
    <3>1. t # <<>>
      BY <1>1
    <3> QED BY <3>1, SequenceEmptyOrAppend
  <2>2. Len(u) = n
    <3>1. Len(Append(u, e)) = Len(u) + 1 /\ Len(u) \in Nat
      OBVIOUS
    <3> QED BY <1>1, <2>1, <3>1
  <2>3. u \in S
    BY <1>3, <2>2
  <2> QED BY <2>1, <2>3
<1>4. N \in Lengths
  <2> HIDE DEF Good, N
  <2>1. 0 \in Lengths /\ \A n \in 0..(N - 1) : n \in Lengths => n + 1 \in Lengths
    BY <1>1, <1>2, <1>3
  <2> HIDE DEF Lengths
  <2>2. 0..N \subseteq Lengths
    BY <1>1, <2>1, Induction
  <2> QED BY <1>1, <2>2
<1>5. Good(N)
  <2> HIDE DEF Good, N
  <2> QED BY <1>4
<1> QED BY <1>5

-----------------------------------------------------------------------------
(* Reading bytes as packets                                                *)

Unit == Packets \X Nat
Splits == [packets : Seq(Elements), rest : Seq(Unit)]
NothingYet == [packets |-> <<>>, rest |-> <<>>]

\* A packet is as many units as its length, the k-th of which says so.
LEMMA UnitsType ==
  ASSUME NEW x \in Packets
  PROVE  /\ Units(x) \in Seq(Unit) /\ Len(Units(x)) = Length[x]
         /\ Length[x] \in Nat \ {0} /\ Length[x] <= Payload
         /\ \A k \in 1..Length[x] : Units(x)[k] = <<x, k>>
<1>1. Length[x] \in Nat \ {0} /\ Length[x] <= Payload
  BY StreamAssumption
<1>2. Units(x) \in [1..Length[x] -> Unit]
  BY <1>1 DEF Units, Unit
<1>3. Units(x) \in Seq(Unit) /\ Len(Units(x)) = Length[x]
  BY <1>1, <1>2
<1> QED BY <1>1, <1>3 DEF Units

\* A step of the parse keeps packets and a rest of units.
LEMMA ParseType ==
  ASSUME NEW split \in Splits, NEW unit \in Unit
  PROVE  Parse(split, unit) \in Splits
<1> DEFINE units == Append(split.rest, unit)
           x == units[1][1]
<1>1. split.packets \in Seq(Elements) /\ split.rest \in Seq(Unit)
  BY DEF Splits
<1>2. units \in Seq(Unit) /\ Len(units) > 0
  BY <1>1
<1>3. x \in Packets
  <2>1. units[1] \in Unit
    BY <1>2
  <2> QED BY <2>1 DEF Unit
<1>4. \A e \in Elements : Append(split.packets, e) \in Seq(Elements)
  BY <1>1
<1>5. x \in Elements /\ NoPacket \in Elements /\ <<>> \in Seq(Unit)
  BY <1>3 DEF Elements
<1> HIDE DEF x
<1>6. [split EXCEPT !.rest = units] \in Splits
  BY <1>1, <1>2 DEF Splits
<1> HIDE DEF units
<1>7. [packets |-> Append(split.packets, IF units = Units(x) THEN x ELSE NoPacket),
       rest |-> <<>>] \in Splits
  BY <1>4, <1>5 DEF Splits
<1> QED BY <1>6, <1>7 DEF Parse, units, x

\* f holds what the first 0, 1, ... units read as.
Parses(f, units) ==
  f[0] = NothingYet /\ \A k \in 1..Len(units) : f[k] = Parse(f[k - 1], units[k])

\* The recursion that Split is defined by has a solution, and only one.
LEMMA SplitEquation ==
  ASSUME NEW units \in Seq(Unit)
  PROVE  \E f \in [0..Len(units) -> Splits] :
           Parses(f, units) /\ Split(units) = f[Len(units)]
<1> DEFINE n == Len(units)
           Eq(f) == f = [k \in 0..n |-> IF k = 0 THEN [packets |-> <<>>, rest |-> <<>>]
                                        ELSE Parse(f[k - 1], units[k])]
           upTo == CHOOSE f : Eq(f)
<1>0. n \in Nat /\ \A k \in 1..n : units[k] \in Unit
  OBVIOUS
<1>1. PICK f \in [0..n -> Splits] : Parses(f, units)
  <2> DEFINE step == [k \in 1..n |-> [a \in Splits |-> Parse(a, units[k])]]
  <2>1. step \in [1..n -> [Splits -> Splits]]
    BY <1>0, ParseType
  <2>2. NothingYet \in Splits
    BY DEF NothingYet, Splits
  <2>3. PICK f \in [0..n -> Splits] : IsRun(f, NothingYet, step, n)
    <3> HIDE DEF n, step
    <3> QED BY <1>0, <2>1, <2>2, RunExists
  <2>4. ASSUME NEW k \in 1..n PROVE f[k] = Parse(f[k - 1], units[k])
    <3>1. f[k - 1] \in Splits
      BY <1>0
    <3>2. f[k] = step[k][f[k - 1]]
      BY <2>3 DEF IsRun
    <3> QED BY <3>1, <3>2
  <2> QED BY <2>3, <2>4 DEF IsRun, Parses
<1>2. Eq(f)
  <2>1. \A k \in 0..n : f[k] = IF k = 0 THEN [packets |-> <<>>, rest |-> <<>>]
                               ELSE Parse(f[k - 1], units[k])
    <3> TAKE k \in 0..n
    <3>1. k = 0 \/ k \in 1..n
      BY <1>0
    <3> QED BY <1>1, <3>1 DEF Parses, NothingYet
  <2> QED BY <2>1
<1>3. Eq(upTo)
  <2> HIDE DEF Eq
  <2> QED BY <1>2
<1>4. Split(units) = upTo[n]
  BY Zenon DEF Split
<1>5. \A k \in 0..n : upTo[k] = IF k = 0 THEN [packets |-> <<>>, rest |-> <<>>]
                                ELSE Parse(upTo[k - 1], units[k])
  <2> HIDE DEF n, upTo
  <2> QED BY <1>3
<1> HIDE DEF upTo, Eq
<1>6. upTo[n] = f[n]
  <2>1. upTo[0] = f[0]
    BY <1>0, <1>1, <1>5 DEF Parses, NothingYet
  <2>2. \A k \in 1..n : upTo[k - 1] = f[k - 1] => upTo[k] = f[k]
    BY <1>0, <1>1, <1>5 DEF Parses
  <2> HIDE DEF n
  <2> QED BY <1>0, <2>1, <2>2, RunsAgree
<1> QED BY <1>1, <1>4, <1>6

\* No bytes read as no packet, and nothing is left over.
LEMMA SplitEmpty == Split(<<>>) = NothingYet
<1>1. <<>> \in Seq(Unit) /\ Len(<<>>) = 0
  OBVIOUS
<1> QED BY <1>1, SplitEquation DEF Parses

\* One more unit is one more step of the parse.
LEMMA SplitAppend ==
  ASSUME NEW units \in Seq(Unit), NEW unit \in Unit
  PROVE  Split(units) \in Splits /\ Split(Append(units, unit)) = Parse(Split(units), unit)
<1> DEFINE n == Len(units)
           more == Append(units, unit)
<1>1. /\ n \in Nat /\ more \in Seq(Unit) /\ Len(more) = n + 1
      /\ \A k \in 1..n : more[k] = units[k]
      /\ more[n + 1] = unit
  BY AppendProperties
<1>2. PICK f \in [0..n -> Splits] : Parses(f, units) /\ Split(units) = f[n]
  BY SplitEquation
<1>3. PICK g \in [0..(n + 1) -> Splits] : Parses(g, more) /\ Split(more) = g[n + 1]
  <2> HIDE DEF more
  <2> QED BY <1>1, SplitEquation
<1> HIDE DEF more
<1>4. f[n] = g[n]
  <2>1. f[0] = g[0]
    BY <1>2, <1>3 DEF Parses
  <2>2. \A k \in 1..n : f[k - 1] = g[k - 1] => f[k] = g[k]
    BY <1>1, <1>2, <1>3 DEF Parses
  <2> HIDE DEF n
  <2> QED BY <1>1, <2>1, <2>2, RunsAgree
<1>5. g[n + 1] = Parse(g[n], unit)
  <2>1. n + 1 \in 1..(n + 1) /\ (n + 1) - 1 = n
    BY <1>1
  <2> QED BY <1>1, <1>3, <2>1 DEF Parses
<1>6. f[n] \in Splits
  BY <1>1
<1> QED BY <1>2, <1>3, <1>4, <1>5, <1>6 DEF more

\* Split returns packets, NoPacket among them, and a rest of units.
LEMMA SplitType == ASSUME NEW units \in Seq(Unit) PROVE Split(units) \in Splits
<1>1. Len(units) \in 0..Len(units)
  OBVIOUS
<1> QED BY <1>1, SplitEquation

\* A unit that does not complete its packet stays in the rest.
LEMMA ParseShort ==
  ASSUME NEW p, NEW r, NEW e, Len(Append(r, e)) < Length[Append(r, e)[1][1]]
  PROVE  Parse([packets |-> p, rest |-> r], e) = [packets |-> p, rest |-> Append(r, e)]
<1> DEFINE split == [packets |-> p, rest |-> r]
<1>1. split.rest = r
  OBVIOUS
<1>2. \A v : [split EXCEPT !.rest = v] = [packets |-> p, rest |-> v]
  OBVIOUS
<1> HIDE DEF split
<1>3. Parse(split, e) = [split EXCEPT !.rest = Append(split.rest, e)]
  BY <1>1, Zenon DEF Parse
<1> QED BY <1>1, <1>2, <1>3 DEF split

\* A unit that completes its packet ends it, as NoPacket if it is spliced.
LEMMA ParseWhole ==
  ASSUME NEW p, NEW r, NEW e, ~(Len(Append(r, e)) < Length[Append(r, e)[1][1]])
  PROVE  Parse([packets |-> p, rest |-> r], e) =
           [packets |-> Append(p, IF Append(r, e) = Units(Append(r, e)[1][1])
                                  THEN Append(r, e)[1][1] ELSE NoPacket),
            rest |-> <<>>]
<1> DEFINE split == [packets |-> p, rest |-> r]
<1>1. split.rest = r /\ split.packets = p
  OBVIOUS
<1> HIDE DEF split
<1> QED BY <1>1, Zenon DEF Parse, split

\* A record of Splits is what its fields make it.
LEMMA SplitFields ==
  ASSUME NEW split \in Splits
  PROVE  /\ split = [packets |-> split.packets, rest |-> split.rest]
         /\ split.packets \in Seq(Elements) /\ split.rest \in Seq(Unit)
BY DEF Splits

\* What is left over is the start of one packet: read again, it is left over again.
LEMMA SplitRest ==
  ASSUME NEW units \in Seq(Unit)
  PROVE  Split(Split(units).rest) = [packets |-> <<>>, rest |-> Split(units).rest]
<1> DEFINE Again(u) == Split(Split(u).rest) = [packets |-> <<>>, rest |-> Split(u).rest]
           S == {u \in Seq(Unit) : Again(u)}
<1>1. Again(<<>>)
  BY SplitEmpty DEF NothingYet
<1>2. ASSUME NEW u \in Seq(Unit), NEW e \in Unit, Again(u) PROVE Again(Append(u, e))
  <2> DEFINE r == Split(u).rest
             more == Append(r, e)
             x == more[1][1]
  <2>1. Split(u) \in Splits /\ r \in Seq(Unit) /\ more \in Seq(Unit)
    BY SplitAppend DEF Splits
  <2>2. Split(Append(u, e)) = Parse(Split(u), e)
    BY SplitAppend
  <2>3. Split(more) = Parse(Split(r), e)
    BY <2>1, SplitAppend
  <2>4. Split(r) = [packets |-> <<>>, rest |-> r]
    BY <1>2
  <2> HIDE DEF r
  <2>5. CASE Len(more) < Length[x]
    <3>1. Parse(Split(u), e).rest = more
      BY <2>1, <2>5 DEF Parse, Splits, r
    <3>2. Parse(Split(r), e) = [packets |-> <<>>, rest |-> more]
      BY <2>4, <2>5, ParseShort
    <3> QED BY <2>2, <2>3, <3>1, <3>2
  <2>6. CASE ~(Len(more) < Length[x])
    <3>1. Parse(Split(u), e).rest = <<>>
      BY <2>6 DEF Parse, r
    <3> QED BY <2>2, <3>1, SplitEmpty DEF NothingYet
  <2> QED BY <2>5, <2>6
<1>3. units \in S
  <2> HIDE DEF Again
  <2>1. <<>> \in S /\ \A u \in Seq(Unit) : \A e \in Unit : u \in S => Append(u, e) \in S
    BY <1>1, <1>2
  <2> HIDE DEF S
  <2>2. Seq(Unit) \subseteq S
    BY <2>1, SeqInduction
  <2> QED BY <2>2
<1> QED BY <1>3

\* Reading may stop anywhere and resume with what was left over.
LEMMA SplitResume ==
  ASSUME NEW u \in Seq(Unit), NEW v \in Seq(Unit)
  PROVE  Split(u \o v) =
           [packets |-> Split(u).packets \o Split(Split(u).rest \o v).packets,
            rest |-> Split(Split(u).rest \o v).rest]
<1> DEFINE p == Split(u).packets
           r == Split(u).rest
           Resumes(w) == Split(u \o w) = [packets |-> p \o Split(r \o w).packets,
                                          rest |-> Split(r \o w).rest]
           S == {w \in Seq(Unit) : Resumes(w)}
<1>1. Split(u) \in Splits /\ p \in Seq(Elements) /\ r \in Seq(Unit) /\ Split(u) = [packets |-> p, rest |-> r]
  <2>1. Split(u) \in Splits
    BY SplitType
  <2> QED BY <2>1, SplitFields
<1>2. Split(r) = [packets |-> <<>>, rest |-> r]
  BY SplitRest
<1> HIDE DEF p, r
<1>3. Resumes(<<>>)
  <2>1. u \o <<>> = u /\ r \o <<>> = r /\ p \o <<>> = p
    BY <1>1
  <2> QED BY <1>1, <1>2, <2>1
<1>4. ASSUME NEW w \in Seq(Unit), NEW e \in Unit, Resumes(w) PROVE Resumes(Append(w, e))
  <2>1. u \o Append(w, e) = Append(u \o w, e) /\ r \o Append(w, e) = Append(r \o w, e)
    BY <1>1
  <2>2. u \o w \in Seq(Unit) /\ r \o w \in Seq(Unit)
    BY <1>1
  <2>3. Split(u \o Append(w, e)) = Parse(Split(u \o w), e)
    BY <2>1, <2>2, SplitAppend
  <2>4. /\ Split(r \o Append(w, e)) = Parse(Split(r \o w), e)
        /\ Split(r \o w) \in Splits
    BY <2>1, <2>2, SplitAppend
  <2> DEFINE q == Split(r \o w).packets
             t == Split(r \o w).rest
  <2>5. q \in Seq(Elements) /\ t \in Seq(Unit) /\ Split(r \o w) = [packets |-> q, rest |-> t]
    BY <2>4 DEF Splits
  <2>6. Split(u \o w) = [packets |-> p \o q, rest |-> t]
    BY <1>4
  <2> HIDE DEF q, t
  <2> DEFINE more == Append(t, e)
             x == more[1][1]
             last == IF more = Units(x) THEN x ELSE NoPacket
  <2>7. last \in Elements
    <3>1. more \in Seq(Unit) /\ Len(more) > 0
      BY <2>5
    <3>2. more[1] \in Unit
      BY <3>1
    <3> QED BY <3>2 DEF Unit, Elements
  <2>8. CASE Len(more) < Length[x]
    <3>1. Parse(Split(u \o w), e) = [packets |-> p \o q, rest |-> more]
      BY <2>6, <2>8, ParseShort
    <3>2. Parse(Split(r \o w), e) = [packets |-> q, rest |-> more]
      BY <2>5, <2>8, ParseShort
    <3> QED BY <2>3, <2>4, <3>1, <3>2
  <2>9. CASE ~(Len(more) < Length[x])
    <3>1. Parse(Split(u \o w), e) = [packets |-> Append(p \o q, last), rest |-> <<>>]
      BY <2>6, <2>9, ParseWhole
    <3>2. Parse(Split(r \o w), e) = [packets |-> Append(q, last), rest |-> <<>>]
      BY <2>5, <2>9, ParseWhole
    <3> HIDE DEF last
    <3>3. Append(p \o q, last) = p \o Append(q, last)
      <4>0. p \in Seq(Elements) /\ q \in Seq(Elements) /\ last \in Elements
        BY <1>1, <2>5, <2>7
      <4>1. /\ Append(q, last) \in Seq(Elements) /\ Len(Append(q, last)) = Len(q) + 1
            /\ \A i \in 1..Len(q) : Append(q, last)[i] = q[i]
            /\ Append(q, last)[Len(q) + 1] = last
        BY <4>0, AppendProperties
      <4>2. /\ p \o q \in Seq(Elements) /\ Len(p \o q) = Len(p) + Len(q)
            /\ Len(p) \in Nat /\ Len(q) \in Nat
        BY <4>0
      <4>3. /\ Append(p \o q, last) \in Seq(Elements)
            /\ Len(Append(p \o q, last)) = Len(p) + Len(q) + 1
            /\ p \o Append(q, last) \in Seq(Elements)
            /\ Len(p \o Append(q, last)) = Len(p) + Len(q) + 1
        BY <4>0, <4>1, <4>2
      <4>4. \A i \in 1..(Len(p) + Len(q) + 1) : Append(p \o q, last)[i] = (p \o Append(q, last))[i]
        BY <4>0, <4>1, <4>2
      <4> QED BY <4>3, <4>4, SeqEqual
    <3> QED BY <2>3, <2>4, <3>1, <3>2, <3>3
  <2> QED BY <2>8, <2>9
<1>5. v \in S
  <2> HIDE DEF Resumes
  <2>1. <<>> \in S /\ \A w \in Seq(Unit) : \A e \in Unit : w \in S => Append(w, e) \in S
    BY <1>3, <1>4
  <2> HIDE DEF S
  <2>2. Seq(Unit) \subseteq S
    BY <2>1, SeqInduction
  <2> QED BY <2>2
<1> QED BY <1>5 DEF p, r

\* The units of one packet read as that packet.
LEMMA SplitUnits ==
  ASSUME NEW x \in Packets
  PROVE  Split(Units(x)) = [packets |-> <<x>>, rest |-> <<>>]
<1> DEFINE u == Units(x)
           n == Length[x]
           Part(k) == SubSeq(u, 1, k)
           Waits(k) == Split(Part(k)) = [packets |-> <<>>, rest |-> Part(k)]
           S == {k \in 0..(n - 1) : Waits(k)}
<1>1. /\ u \in Seq(Unit) /\ Len(u) = n /\ n \in Nat \ {0}
      /\ \A k \in 1..n : u[k] = <<x, k>>
  BY UnitsType
<1> HIDE DEF u, n
<1>2. ASSUME NEW k \in 0..(n - 1)
      PROVE  /\ Part(k) \in Seq(Unit) /\ Part(k + 1) = Append(Part(k), <<x, k + 1>>)
             /\ Len(Part(k + 1)) = k + 1 /\ Part(k + 1)[1][1] = x
             /\ <<x, k + 1>> \in Unit
  <2>1. k + 1 \in 1..n
    BY <1>1
  <2>2. u[k + 1] = <<x, k + 1>> /\ u[1] = <<x, 1>>
    BY <1>1, <2>1
  <2>3. Part(k) \in Seq(Unit) /\ Len(Part(k)) = k /\ Len(Part(k + 1)) = k + 1
    BY <1>1, <2>1
  <2>4. Part(k + 1) = Append(Part(k), <<x, k + 1>>)
    <3>1. Part(k + 1) \in Seq(Unit) /\ u[k + 1] \in Unit
      BY <1>1, <2>1
    <3>2. Append(Part(k), u[k + 1]) \in Seq(Unit) /\ Len(Append(Part(k), u[k + 1])) = k + 1
      BY <2>3, <3>1
    <3>3. \A i \in 1..(k + 1) : Part(k + 1)[i] = Append(Part(k), u[k + 1])[i]
      BY <1>1, <2>1, <2>3
    <3> QED BY <2>2, <2>3, <3>1, <3>2, <3>3, SeqEqual
  <2>5. Part(k + 1)[1] = u[1]
    BY <1>1, <2>1
  <2>6. <<x, k + 1>> \in Unit
    BY DEF Unit
  <2> QED BY <2>2, <2>3, <2>4, <2>5, <2>6
<1>3. Waits(0)
  <2>1. Part(0) = <<>>
    BY <1>1
  <2> QED BY <2>1, SplitEmpty DEF NothingYet
<1>4. ASSUME NEW k \in 0..(n - 1), Waits(k), k + 1 < n PROVE Waits(k + 1)
  <2>1. Split(Part(k + 1)) = Parse(Split(Part(k)), <<x, k + 1>>)
    BY <1>2, SplitAppend
  <2>2. Parse([packets |-> <<>>, rest |-> Part(k)], <<x, k + 1>>) = [packets |-> <<>>, rest |-> Part(k + 1)]
    BY <1>2, <1>4 DEF Parse, n
  <2> QED BY <1>4, <2>1, <2>2
<1>5. n - 1 \in S
  <2>1. n - 1 \in Nat /\ 0 \in S /\ \A k \in 0..((n - 1) - 1) : k \in S => k + 1 \in S
    <3> HIDE DEF Waits
    <3> QED BY <1>1, <1>3, <1>4
  <2> HIDE DEF S
  <2>2. 0..(n - 1) \subseteq S
    BY <2>1, Induction
  <2> QED BY <2>1, <2>2
<1>6. Split(Part(n)) = [packets |-> <<x>>, rest |-> <<>>]
  <2>1. n - 1 \in 0..(n - 1) /\ (n - 1) + 1 = n
    BY <1>1
  <2>2. Split(Part(n - 1)) = [packets |-> <<>>, rest |-> Part(n - 1)]
    BY <1>5
  <2>3. Part(n) = u
    BY <1>1
  <2>4. /\ Split(Part(n)) = Parse(Split(Part(n - 1)), <<x, n>>)
        /\ Part(n) = Append(Part(n - 1), <<x, n>>) /\ Len(Part(n)) = n /\ Part(n)[1][1] = x
    BY <1>2, <2>1, SplitAppend
  <2> HIDE DEF Part
  <2>5. Parse([packets |-> <<>>, rest |-> Part(n - 1)], <<x, n>>) =
          [packets |-> Append(<<>>, x), rest |-> <<>>]
    <3>1. Append(Part(n - 1), <<x, n>>) = Units(x) /\ ~(n < Length[x])
      BY <1>1, <2>3, <2>4 DEF n, u
    <3>2. Append(Part(n - 1), <<x, n>>)[1][1] = x /\ Len(Append(Part(n - 1), <<x, n>>)) = n
      BY <2>4
    <3> QED BY <3>1, <3>2, ParseWhole
  <2>6. Append(<<>>, x) = <<x>>
    OBVIOUS
  <2> QED BY <2>2, <2>4, <2>5, <2>6
<1>7. Part(n) = u
  BY <1>1
<1> QED BY <1>6, <1>7 DEF u

\* No packet has no units.
LEMMA UnitsOfEmpty == UnitsOf(<<>>) = <<>>
<1>1. [i \in DOMAIN <<>> |-> Units(<<>>[i])] = <<>>
  OBVIOUS
<1> QED BY <1>1, FlattenEmpty DEF UnitsOf

\* One more packet adds its units.
LEMMA UnitsOfAppend ==
  ASSUME NEW list \in Seq(Packets), NEW x \in Packets
  PROVE  /\ UnitsOf(list) \in Seq(Unit)
         /\ UnitsOf(Append(list, x)) = UnitsOf(list) \o Units(x)
<1> DEFINE parts == [i \in DOMAIN list |-> Units(list[i])]
           more == Append(list, x)
           moreParts == [i \in DOMAIN more |-> Units(more[i])]
           n == Len(list)
<1>1. /\ n \in Nat /\ DOMAIN list = 1..n /\ DOMAIN more = 1..(n + 1)
      /\ \A i \in 1..n : list[i] \in Packets /\ more[i] = list[i]
      /\ more[n + 1] = x
  BY AppendProperties
<1>2. \A y \in Packets : Units(y) \in Seq(Unit)
  BY UnitsType
<1> HIDE DEF n, more
<1>3. parts \in Seq(Seq(Unit)) /\ Len(parts) = n
  <2>1. parts \in [1..n -> Seq(Unit)]
    BY <1>1, <1>2
  <2> QED BY <1>1, <2>1
<1>4. moreParts = Append(parts, Units(x))
  <2>1. moreParts \in [1..(n + 1) -> Seq(Unit)]
    <3>1. \A i \in 1..(n + 1) : more[i] \in Packets
      <4> TAKE i \in 1..(n + 1)
      <4>1. i \in 1..n \/ i = n + 1
        BY <1>1
      <4> QED BY <1>1, <4>1
    <3> QED BY <1>1, <1>2, <3>1
  <2>2. moreParts \in Seq(Seq(Unit)) /\ Len(moreParts) = n + 1
    BY <1>1, <2>1
  <2>3. \A i \in 1..n : parts[i] = Units(list[i])
    BY <1>1
  <2>4. \A i \in 1..(n + 1) : moreParts[i] = Units(more[i])
    BY <1>1
  <2>5. /\ Append(parts, Units(x)) \in Seq(Seq(Unit)) /\ Len(Append(parts, Units(x))) = n + 1
        /\ \A i \in 1..n : Append(parts, Units(x))[i] = parts[i]
        /\ Append(parts, Units(x))[n + 1] = Units(x)
    <3> HIDE DEF parts
    <3> QED BY <1>2, <1>3, AppendProperties
  <2> HIDE DEF parts, moreParts
  <2>6. \A i \in 1..(n + 1) : moreParts[i] = Append(parts, Units(x))[i]
    <3> TAKE i \in 1..(n + 1)
    <3>1. i \in 1..n \/ i = n + 1
      BY <1>1
    <3> QED BY <1>1, <2>3, <2>4, <2>5, <3>1
  <2> QED BY <2>2, <2>5, <2>6, SeqEqual
<1> HIDE DEF parts, moreParts
<1>5. FlattenSeq(parts) \in Seq(Unit) /\ FlattenSeq(Append(parts, Units(x))) = FlattenSeq(parts) \o Units(x)
  BY <1>2, <1>3, FlattenAppend
<1> QED BY <1>4, <1>5 DEF UnitsOf, parts, moreParts, more

\* What is packed is what is read: the units of a list of packets read as that list.
THEOREM SplitUnitsOf ==
  ASSUME NEW list \in Seq(Packets)
  PROVE  Split(UnitsOf(list)) = [packets |-> list, rest |-> <<>>]
<1> DEFINE Back(l) == Split(UnitsOf(l)) = [packets |-> l, rest |-> <<>>]
           S == {l \in Seq(Packets) : Back(l)}
<1>1. Back(<<>>)
  BY UnitsOfEmpty, SplitEmpty DEF NothingYet
<1>2. ASSUME NEW l \in Seq(Packets), NEW x \in Packets, Back(l) PROVE Back(Append(l, x))
  <2>1. UnitsOf(l) \in Seq(Unit) /\ UnitsOf(Append(l, x)) = UnitsOf(l) \o Units(x) /\ Units(x) \in Seq(Unit)
    BY UnitsOfAppend, UnitsType
  <2>2. <<>> \o Units(x) = Units(x)
    BY <2>1
  <2>3. Split(UnitsOf(l)).packets = l /\ Split(UnitsOf(l)).rest = <<>>
    BY <1>2
  <2>4. Split(UnitsOf(l) \o Units(x)) =
          [packets |-> l \o Split(Units(x)).packets, rest |-> Split(Units(x)).rest]
    BY <2>1, <2>2, <2>3, SplitResume
  <2>5. l \o <<x>> = Append(l, x)
    OBVIOUS
  <2>6. Split(Units(x)).packets = <<x>> /\ Split(Units(x)).rest = <<>>
    BY SplitUnits
  <2> QED BY <2>1, <2>4, <2>5, <2>6
<1>3. list \in S
  <2> HIDE DEF Back
  <2>1. <<>> \in S /\ \A l \in Seq(Packets) : \A x \in Packets : l \in S => Append(l, x) \in S
    BY <1>1, <1>2
  <2> HIDE DEF S
  <2>2. Seq(Packets) \subseteq S
    BY <2>1, SeqInduction
  <2> QED BY <2>2
<1> QED BY <1>3

-----------------------------------------------------------------------------
(* Chunks on their way                                                     *)

ChunkSet == [number : 0..(ChunksPerTransfer - 1), units : Seq(Unit)]
Fifos == {<<>>} \cup {<<c>> : c \in {c \in ChunkSet : Len(c.units) <= Payload}}
UnitsIn(fifo) == IF fifo = <<>> THEN <<>> ELSE fifo[1].units

IsConcat(s, a, b) == s = a \o b
\* What has been fetched, what waits in the fifo, the chunk being filled, the rest.
Flow(a, b, c, d) == a \o b \o c \o d

\* A run of units that moves from one place of the flow to another leaves it the same.
LEMMA FlowMoves ==
  ASSUME NEW a \in Seq(Unit), NEW r \in Seq(Unit)
  PROVE  /\ Flow(a, <<>>, <<>>, r) = Flow(a, <<>>, r, <<>>)
         /\ Flow(a, <<>>, <<>>, r) = Flow(a, r, <<>>, <<>>)
         /\ IsConcat(Flow(a, r, <<>>, <<>>), a, r)
         /\ Flow(a, <<>>, <<>>, <<>>) = a
         /\ Flow(a, <<>>, <<>>, r) \in Seq(Unit)
<1>1. a \o <<>> = a /\ r \o <<>> = r /\ a \o r \in Seq(Unit)
  OBVIOUS
<1>2. (a \o r) \o <<>> = a \o r
  BY <1>1
<1> QED BY <1>1, <1>2 DEF Flow, IsConcat

\* Units added to the chunk that is being filled are added to the flow.
LEMMA FlowTakes ==
  ASSUME NEW a \in Seq(Unit), NEW c \in Seq(Unit), NEW u \in Seq(Unit), NEW v, IsConcat(v, c, u)
  PROVE  /\ v \in Seq(Unit)
         /\ IsConcat(Flow(a, <<>>, v, <<>>), Flow(a, <<>>, c, <<>>), u)
<1>1. v \in Seq(Unit) /\ v = c \o u
  BY DEF IsConcat
<1>2. Flow(a, <<>>, v, <<>>) = a \o v
  <2>1. a \o <<>> = a /\ a \o v \in Seq(Unit)
    BY <1>1
  <2>2. (a \o v) \o <<>> = a \o v
    BY <2>1
  <2> QED BY <2>1, <2>2 DEF Flow
<1>3. Flow(a, <<>>, c, <<>>) = a \o c
  <2>1. a \o <<>> = a /\ a \o c \in Seq(Unit)
    OBVIOUS
  <2>2. (a \o c) \o <<>> = a \o c
    BY <2>1
  <2> QED BY <2>1, <2>2 DEF Flow
<1>4. a \o (c \o u) = (a \o c) \o u
  BY ConcatAssociative
<1> QED BY <1>1, <1>2, <1>3, <1>4 DEF IsConcat

\* Cutting what was filled into a chunk and a rest leaves the flow the same.
LEMMA FlowCuts ==
  ASSUME NEW a \in Seq(Unit), NEW t \in Seq(Unit), NEW r \in Seq(Unit), NEW v, IsConcat(v, t, r)
  PROVE  Flow(a, t, <<>>, r) = Flow(a, <<>>, v, <<>>)
<1>1. v \in Seq(Unit) /\ v = t \o r
  BY DEF IsConcat
<1>2. Flow(a, <<>>, v, <<>>) = a \o v
  <2>1. a \o <<>> = a /\ a \o v \in Seq(Unit)
    BY <1>1
  <2>2. (a \o v) \o <<>> = a \o v
    BY <2>1
  <2> QED BY <2>1, <2>2 DEF Flow
<1>3. Flow(a, t, <<>>, r) = (a \o t) \o r
  <2>1. a \o t \in Seq(Unit)
    OBVIOUS
  <2>2. (a \o t) \o <<>> = a \o t
    BY <2>1
  <2> QED BY <2>2 DEF Flow
<1>4. a \o (t \o r) = (a \o t) \o r
  BY ConcatAssociative
<1> QED BY <1>1, <1>2, <1>3, <1>4

\* So does fetching the chunk that waits.
LEMMA FlowFetched ==
  ASSUME NEW a \in Seq(Unit), NEW t \in Seq(Unit), NEW r \in Seq(Unit), NEW w, IsConcat(w, a, t)
  PROVE  Flow(w, <<>>, <<>>, r) = Flow(a, t, <<>>, r)
<1>1. w \in Seq(Unit) /\ w = a \o t
  BY DEF IsConcat
<1>2. w \o <<>> = w
  BY <1>1
<1> QED BY <1>1, <1>2 DEF Flow

\* UnitsOfAppend, for the name of the concatenation.
LEMMA UnitsOfMore ==
  ASSUME NEW list \in Seq(Packets), NEW x \in Packets, NEW v, IsConcat(v, UnitsOf(list), Units(x))
  PROVE  v = UnitsOf(Append(list, x))
BY UnitsOfAppend DEF IsConcat

\* No chunk holds no bytes.
LEMMA BytesEmpty == Bytes(<<>>) = <<>>
<1>1. [i \in DOMAIN <<>> |-> <<>>[i].units] = <<>>
  OBVIOUS
<1> QED BY <1>1, FlattenEmpty DEF Bytes

\* One more chunk adds its units.
LEMMA BytesAppend ==
  ASSUME NEW chunks \in Seq(ChunkSet), NEW c \in ChunkSet
  PROVE  /\ Bytes(chunks) \in Seq(Unit)
         /\ IsConcat(Bytes(Append(chunks, c)), Bytes(chunks), c.units)
<1> DEFINE parts == [i \in DOMAIN chunks |-> chunks[i].units]
           more == Append(chunks, c)
           moreParts == [i \in DOMAIN more |-> more[i].units]
           n == Len(chunks)
           u == c.units
<1>1. /\ n \in Nat /\ DOMAIN chunks = 1..n /\ DOMAIN more = 1..(n + 1)
      /\ \A i \in 1..n : chunks[i] \in ChunkSet /\ more[i] = chunks[i]
      /\ more[n + 1] = c
  BY AppendProperties
<1>2. \A y \in ChunkSet : y.units \in Seq(Unit)
  BY DEF ChunkSet
<1> HIDE DEF n, more
<1>3. parts \in Seq(Seq(Unit)) /\ Len(parts) = n
  <2>1. parts \in [1..n -> Seq(Unit)]
    BY <1>1, <1>2
  <2> QED BY <1>1, <2>1
<1>3a. u \in Seq(Unit)
  BY <1>2
<1>4. moreParts = Append(parts, u)
  <2>1. moreParts \in [1..(n + 1) -> Seq(Unit)]
    <3>1. \A i \in 1..(n + 1) : more[i] \in ChunkSet
      <4> TAKE i \in 1..(n + 1)
      <4>1. i \in 1..n \/ i = n + 1
        BY <1>1
      <4> QED BY <1>1, <4>1
    <3> QED BY <1>1, <1>2, <3>1
  <2>2. moreParts \in Seq(Seq(Unit)) /\ Len(moreParts) = n + 1
    BY <1>1, <2>1
  <2>3. \A i \in 1..n : parts[i] = chunks[i].units
    BY <1>1
  <2>4. \A i \in 1..(n + 1) : moreParts[i] = more[i].units
    BY <1>1
  <2>5. /\ Append(parts, u) \in Seq(Seq(Unit)) /\ Len(Append(parts, u)) = n + 1
        /\ \A i \in 1..n : Append(parts, u)[i] = parts[i]
        /\ Append(parts, u)[n + 1] = u
    <3> HIDE DEF parts, u
    <3> QED BY <1>3a, <1>3, AppendProperties
  <2> HIDE DEF parts, moreParts
  <2>6. \A i \in 1..(n + 1) : moreParts[i] = Append(parts, u)[i]
    <3> TAKE i \in 1..(n + 1)
    <3>1. i \in 1..n \/ i = n + 1
      BY <1>1
    <3> QED BY <1>1, <2>3, <2>4, <2>5, <3>1
  <2> QED BY <2>2, <2>5, <2>6, SeqEqual
<1> HIDE DEF parts, moreParts, u
<1>5. FlattenSeq(parts) \in Seq(Unit) /\ FlattenSeq(Append(parts, u)) = FlattenSeq(parts) \o u
  BY <1>3, <1>3a, FlattenAppend
<1> QED BY <1>4, <1>5 DEF Bytes, parts, moreParts, more, IsConcat, u

\* Taking a chunk's worth from a run of units leaves the rest of it.
LEMMA TakeDrop ==
  ASSUME NEW units \in Seq(Unit)
  PROVE  /\ Take(units) \in Seq(Unit) /\ Drop(units) \in Seq(Unit)
         /\ Len(units) < Payload => Take(units) = units /\ Drop(units) = <<>>
         /\ Len(units) >= Payload => /\ Len(Take(units)) = Payload
                                     /\ Len(Drop(units)) = Len(units) - Payload
                                     /\ IsConcat(units, Take(units), Drop(units))
<1>0. Payload \in Nat \ {0}
  BY StreamAssumption
<1>1. Take(units) \in Seq(Unit) /\ Drop(units) \in Seq(Unit)
  BY <1>0 DEF Take, Drop
<1>2. ASSUME Len(units) < Payload PROVE Take(units) = units /\ Drop(units) = <<>>
  <2>1. Take(units) = SubSeq(units, 1, Len(units))
    BY <1>2 DEF Take
  <2>2. SubSeq(units, 1, Len(units)) = units
    OBVIOUS
  <2>3. Len(Drop(units)) = 0
    BY <1>0, <1>2 DEF Drop
  <2> QED BY <1>1, <2>1, <2>2, <2>3
<1>3. ASSUME Len(units) >= Payload
      PROVE  /\ Len(Take(units)) = Payload /\ Len(Drop(units)) = Len(units) - Payload
             /\ IsConcat(units, Take(units), Drop(units))
  <2> DEFINE a == SubSeq(units, 1, Payload)
             b == SubSeq(units, Payload + 1, Len(units))
  <2>1. Take(units) = a /\ Drop(units) = b
    <3>1. ~(Len(units) < Payload)
      BY <1>0, <1>3
    <3> QED BY <3>1 DEF Take, Drop
  <2>2. /\ a \in Seq(Unit) /\ Len(a) = Payload /\ \A i \in 1..Payload : a[i] = units[i]
        /\ b \in Seq(Unit) /\ Len(b) = Len(units) - Payload
        /\ \A i \in 1..(Len(units) - Payload) : b[i] = units[i + Payload]
    BY <1>0, <1>3
  <2> HIDE DEF a, b
  <2> DEFINE m == Len(units) - Payload
  <2>3. Len(units) = Payload + m /\ m \in Nat
    BY <1>0, <1>3
  <2> HIDE DEF m
  <2>4. a \o b \in Seq(Unit) /\ Len(a \o b) = Payload + m
    <3>1. Len(b) = m /\ a \in Seq(Unit) /\ b \in Seq(Unit) /\ Len(a) = Payload
      BY <2>2 DEF m
    <3> QED BY <3>1, ConcatProperties
  <2>4a. \A i \in 1..(Payload + m) : (a \o b)[i] = units[i]
    <3> TAKE i \in 1..(Payload + m)
    <3>1. Len(b) = m /\ \A k \in 1..m : b[k] = units[k + Payload]
      BY <2>2 DEF m
    <3>2. CASE i \in 1..Payload
      <4>1. (a \o b)[i] = a[i]
        BY <1>0, <2>2, <2>3, <3>1, <3>2
      <4> QED BY <2>2, <3>2, <4>1
    <3>3. CASE i \notin 1..Payload
      <4>1. i - Payload \in 1..m /\ (i - Payload) + Payload = i
        BY <1>0, <2>3, <3>3
      <4>2. (a \o b)[i] = b[i - Payload]
        BY <1>0, <2>2, <2>3, <3>1, <3>3
      <4> QED BY <3>1, <4>1, <4>2
    <3> QED BY <3>2, <3>3
  <2>5. units = a \o b
    BY <2>3, <2>4, <2>4a, SeqEqual
  <2> QED BY <2>1, <2>2, <2>5 DEF IsConcat
<1> QED BY <1>1, <1>2, <1>3

-----------------------------------------------------------------------------
(* The chunks of a write                                                   *)

\* What division by a positive number returns.
LEMMA Quotient ==
  ASSUME NEW a \in Nat, NEW b \in Nat \ {0}
  PROVE  a \div b \in Nat /\ (a \div b) * b <= a /\ a < (a \div b) * b + b
OBVIOUS

\* Multiplying by a positive number keeps the order.
LEMMA TimesOrder ==
  ASSUME NEW a \in Int, NEW b \in Int, NEW c \in Nat \ {0}
  PROVE  (a * c < b * c => a < b) /\ (a <= b => a * c <= b * c)
OBVIOUS

\* The units of a list of packets are units.
LEMMA UnitsOfType == ASSUME NEW list \in Seq(Packets) PROVE UnitsOf(list) \in Seq(Unit)
<1>1. CASE list = <<>>
  <2>1. <<>> \in Seq(Unit)
    OBVIOUS
  <2> QED BY <1>1, <2>1, UnitsOfEmpty, Zenon
<1>2. CASE list # <<>>
  <2>1. PICK l \in Seq(Packets), x \in Packets : list = Append(l, x)
    BY <1>2, SequenceEmptyOrAppend
  <2>2. UnitsOf(l) \in Seq(Unit) /\ UnitsOf(Append(l, x)) = UnitsOf(l) \o Units(x) /\ Units(x) \in Seq(Unit)
    BY UnitsOfAppend, UnitsType
  <2> QED BY <2>1, <2>2
<1> QED BY <1>1, <1>2

\* A list of packets has at least a unit and at most a chunk's worth for each.
LEMMA UnitsOfLength ==
  ASSUME NEW list \in Seq(Packets)
  PROVE  /\ UnitsOf(list) \in Seq(Unit)
         /\ Len(list) <= Len(UnitsOf(list)) /\ Len(UnitsOf(list)) <= Len(list) * Payload
<1> DEFINE Fits(l) == Len(l) <= Len(UnitsOf(l)) /\ Len(UnitsOf(l)) <= Len(l) * Payload
           S == {l \in Seq(Packets) : Fits(l)}
<1>0. Payload \in Nat \ {0}
  BY StreamAssumption
<1>1. Fits(<<>>)
  <2>1. Len(UnitsOf(<<>>)) = 0 /\ Len(<<>>) = 0
    BY UnitsOfEmpty
  <2> QED BY <1>0, <2>1
<1>2. ASSUME NEW l \in Seq(Packets), NEW x \in Packets, Fits(l) PROVE Fits(Append(l, x))
  <2>1. UnitsOf(l) \in Seq(Unit) /\ UnitsOf(Append(l, x)) = UnitsOf(l) \o Units(x)
    BY UnitsOfAppend
  <2>2. Units(x) \in Seq(Unit) /\ Len(Units(x)) = Length[x] /\ Length[x] \in Nat \ {0} /\ Length[x] <= Payload
    BY UnitsType
  <2>3. Len(UnitsOf(Append(l, x))) = Len(UnitsOf(l)) + Length[x]
    <3>1. Len(UnitsOf(l) \o Units(x)) = Len(UnitsOf(l)) + Len(Units(x))
      BY <2>1, <2>2, ConcatProperties
    <3> QED BY <2>1, <2>2, <3>1
  <2>4. Len(Append(l, x)) = Len(l) + 1 /\ Len(l) \in Nat /\ Len(UnitsOf(l)) \in Nat
    BY <2>1
  <2>5. (Len(l) + 1) * Payload = Len(l) * Payload + Payload
    BY <1>0, <2>4
  <2>6. Len(l) * Payload \in Nat
    BY <1>0, <2>4
  <2> QED BY <1>0, <1>2, <2>2, <2>3, <2>4, <2>5, <2>6
<1>3. list \in S
  <2> HIDE DEF Fits
  <2>1. <<>> \in S /\ \A l \in Seq(Packets) : \A x \in Packets : l \in S => Append(l, x) \in S
    BY <1>1, <1>2
  <2> HIDE DEF S
  <2>2. Seq(Packets) \subseteq S
    BY <2>1, SeqInduction
  <2> QED BY <2>2
<1>4. UnitsOf(list) \in Seq(Unit)
  BY UnitsOfType
<1> QED BY <1>3, <1>4

\* How many units the first j chunks of a transfer hold, and which.
Cut(list, j) == IF j = Len(Pack(list)) THEN Len(UnitsOf(list)) ELSE j * Payload
Before(list, j) == SubSeq(UnitsOf(list), 1, Cut(list, j))

\* The lists of a write are sequences of packets, short but not empty.
LEMMA ListsType ==
  ASSUME NEW list \in Lists
  PROVE  list \in Seq(Packets) /\ Len(list) \in 1..MaxList
<1>1. PICK n \in 1..MaxList : list \in [1..n -> Packets]
  BY DEF Lists
<1>2. n \in Nat
  BY StreamAssumption
<1> QED BY <1>1, <1>2

\* The chunks are numbered from 0, cut the units of the list one after the other, and
\* are no more than the counter can tell apart.
LEMMA PackFacts ==
  ASSUME NEW list \in Lists
  PROVE  /\ Len(Pack(list)) \in 1..ChunksPerTransfer
         /\ Pack(list) \in Seq(ChunkSet)
         /\ \A i \in 1..Len(Pack(list)) :
              Pack(list)[i] = Chunk(i - 1, SubSeq(UnitsOf(list), Cut(list, i - 1) + 1, Cut(list, i)))
         /\ Cut(list, 0) = 0 /\ Cut(list, Len(Pack(list))) = Len(UnitsOf(list))
         /\ \A j \in 0..(Len(Pack(list)) - 1) :
              /\ Cut(list, j) \in Nat /\ Cut(list, j + 1) \in Nat
              /\ Cut(list, j) <= Cut(list, j + 1) /\ Cut(list, j + 1) <= Len(UnitsOf(list))
<1> DEFINE u == UnitsOf(list)
           L == Len(u)
           count == (L + Payload - 1) \div Payload
           chunk(i) == Chunk(i - 1, SubSeq(u, (i - 1) * Payload + 1, IF i = count THEN L ELSE i * Payload))
<1>1. Payload \in Nat \ {0} /\ ChunksPerTransfer \in Nat /\ MaxList \in Nat /\ MaxList <= ChunksPerTransfer
  BY StreamAssumption
<1>2. list \in Seq(Packets) /\ Len(list) \in 1..MaxList
  BY ListsType
<1>3. u \in Seq(Unit) /\ L \in Nat /\ Len(list) <= L /\ L <= Len(list) * Payload
  <2>1. u \in Seq(Unit) /\ Len(list) <= L /\ L <= Len(list) * Payload
    <3> HIDE DEF u
    <3>1. u \in Seq(Unit) /\ Len(list) <= Len(u) /\ Len(u) <= Len(list) * Payload
      BY <1>2, UnitsOfLength DEF u
    <3> QED BY <3>1
  <2> QED BY <2>1
<1>4. Pack(list) = [i \in 1..count |-> chunk(i)]
  BY Zenon DEF Pack
<1> HIDE DEF u, L
<1>5. L > 0 /\ L + Payload - 1 \in Nat
  BY <1>1, <1>2, <1>3
<1>6. count \in Nat /\ count * Payload <= L + Payload - 1 /\ L + Payload - 1 < count * Payload + Payload
  BY <1>1, <1>5, Quotient
<1> HIDE DEF count
<1>7. count * Payload \in Nat /\ (count - 1) * Payload = count * Payload - Payload
  BY <1>1, <1>6
<1>8. L <= count * Payload /\ (count - 1) * Payload < L
  BY <1>1, <1>3, <1>6, <1>7
<1>9. count \in 1..ChunksPerTransfer
  <2>1. count > 0
    <3>1. count = 0 => count * Payload = 0
      BY <1>1
    <3> QED BY <1>3, <1>5, <1>6, <1>8, <3>1
  <2>2. Len(list) <= ChunksPerTransfer /\ Len(list) \in Nat
    BY <1>1, <1>2
  <2>3. Len(list) * Payload <= ChunksPerTransfer * Payload
    BY <1>1, <2>2, TimesOrder
  <2>4. Len(list) * Payload \in Nat /\ ChunksPerTransfer * Payload \in Nat /\ (count - 1) * Payload \in Int
    BY <1>1, <1>6, <2>2
  <2>5. (count - 1) * Payload < ChunksPerTransfer * Payload
    BY <1>3, <1>8, <2>3, <2>4
  <2>6. count - 1 < ChunksPerTransfer
    BY <1>1, <1>6, <2>5, TimesOrder
  <2> QED BY <1>1, <1>6, <2>1, <2>6
<1>10. ASSUME NEW i \in 1..count
       PROVE  /\ (i - 1) * Payload \in Nat /\ i * Payload \in Nat
              /\ i * Payload = (i - 1) * Payload + Payload
              /\ (i - 1) * Payload < L
              /\ i # count => i * Payload < L
  <2>1. (i - 1) * Payload \in Nat /\ i * Payload \in Nat /\ i * Payload = (i - 1) * Payload + Payload
    BY <1>1
  <2>2. i - 1 <= count - 1 /\ i - 1 \in Int /\ count - 1 \in Int /\ i \in Int
    BY <1>6
  <2>3. (i - 1) * Payload <= (count - 1) * Payload
    BY <1>1, <2>2, TimesOrder
  <2>4. (i - 1) * Payload < L
    BY <1>3, <1>7, <1>8, <2>1, <2>3, <1>1
  <2>5. ASSUME i # count PROVE i * Payload < L
    <3>1. i <= count - 1
      BY <1>6, <2>5
    <3>2. i * Payload <= (count - 1) * Payload
      BY <1>1, <2>2, <3>1, TimesOrder
    <3> QED BY <1>1, <1>3, <1>7, <1>8, <2>1, <3>2
  <2> QED BY <2>1, <2>4, <2>5
<1>11. ASSUME NEW i \in 1..count PROVE chunk(i) \in ChunkSet
  <2>1. i - 1 \in 0..(ChunksPerTransfer - 1)
    BY <1>1, <1>9
  <2>2. SubSeq(u, (i - 1) * Payload + 1, IF i = count THEN L ELSE i * Payload) \in Seq(Unit)
    BY <1>3, <1>10, <1>1 DEF L
  <2> QED BY <2>1, <2>2 DEF ChunkSet, Chunk
<1> HIDE DEF chunk
<1>12. /\ Pack(list) \in Seq(ChunkSet) /\ Len(Pack(list)) = count
       /\ \A i \in 1..count : Pack(list)[i] = chunk(i)
  <2>1. Pack(list) \in [1..count -> ChunkSet]
    BY <1>4, <1>11
  <2> QED BY <1>4, <1>6, <2>1
<1>13. \A j \in 0..count : Cut(list, j) = IF j = count THEN L ELSE j * Payload
  BY <1>12 DEF Cut, L, u
<1>14. Cut(list, 0) = 0 /\ Cut(list, count) = L
  BY <1>1, <1>9, <1>13
<1>15. ASSUME NEW i \in 1..count
       PROVE  Pack(list)[i] = Chunk(i - 1, SubSeq(u, Cut(list, i - 1) + 1, Cut(list, i)))
  <2>1. i - 1 \in 0..count /\ i - 1 # count /\ i \in 0..count
    BY <1>9
  <2>2. Cut(list, i - 1) = (i - 1) * Payload /\ Cut(list, i) = IF i = count THEN L ELSE i * Payload
    BY <1>13, <2>1
  <2> QED BY <1>12, <2>2 DEF chunk
<1>16. ASSUME NEW j \in 0..(count - 1)
       PROVE  /\ Cut(list, j) \in Nat /\ Cut(list, j + 1) \in Nat
              /\ Cut(list, j) <= Cut(list, j + 1) /\ Cut(list, j + 1) <= L
  <2>1. j + 1 \in 1..count /\ (j + 1) - 1 = j /\ j \in 0..count /\ j # count /\ j + 1 \in 0..count
    BY <1>9
  <2>2. Cut(list, j) = j * Payload /\ Cut(list, j + 1) = IF j + 1 = count THEN L ELSE (j + 1) * Payload
    BY <1>13, <2>1
  <2>3. /\ j * Payload \in Nat /\ (j + 1) * Payload \in Nat
        /\ (j + 1) * Payload = j * Payload + Payload
        /\ j * Payload < L
        /\ j + 1 # count => (j + 1) * Payload < L
    BY <1>10, <2>1
  <2> DEFINE a == j * Payload
             b == (j + 1) * Payload
  <2>4. a \in Nat /\ b \in Nat /\ b = a + Payload /\ a < L /\ (j + 1 # count => b < L)
    BY <2>3
  <2>5. Cut(list, j) = a /\ Cut(list, j + 1) = IF j + 1 = count THEN L ELSE b
    BY <2>2
  <2> HIDE DEF a, b
  <2>6. CASE j + 1 = count
    BY <1>1, <1>3, <2>4, <2>5, <2>6
  <2>7. CASE j + 1 # count
    BY <1>1, <1>3, <2>4, <2>5, <2>7
  <2> QED BY <2>6, <2>7
<1> QED BY <1>9, <1>12, <1>14, <1>15, <1>16 DEF L, u

\* A prefix is a shorter one and what follows it.
LEMMA SubSeqJoin ==
  ASSUME NEW u \in Seq(Unit), NEW a \in Nat, NEW b \in Nat, a <= b, b <= Len(u)
  PROVE  IsConcat(SubSeq(u, 1, b), SubSeq(u, 1, a), SubSeq(u, a + 1, b))
<1> DEFINE s == SubSeq(u, 1, b)
           t == SubSeq(u, 1, a)
           v == SubSeq(u, a + 1, b)
           m == b - a
<1>1. b = a + m /\ m \in Nat
  OBVIOUS
<1>2. /\ s \in Seq(Unit) /\ Len(s) = b /\ \A i \in 1..b : s[i] = u[i]
      /\ t \in Seq(Unit) /\ Len(t) = a /\ \A i \in 1..a : t[i] = u[i]
  OBVIOUS
<1>3. v \in Seq(Unit) /\ Len(v) = m /\ \A i \in 1..m : v[i] = u[i + a]
  OBVIOUS
<1> HIDE DEF s, t, v, m
<1>4. t \o v \in Seq(Unit) /\ Len(t \o v) = b
  <2>1. t \in Seq(Unit) /\ v \in Seq(Unit)
    BY <1>2, <1>3
  <2>2. t \o v \in Seq(Unit) /\ Len(t \o v) = Len(t) + Len(v)
    BY <2>1, ConcatProperties
  <2> QED BY <1>1, <1>2, <1>3, <2>2
<1>5. \A i \in 1..b : s[i] = (t \o v)[i]
  <2> TAKE i \in 1..b
  <2>1. CASE i \in 1..a
    <3>1. (t \o v)[i] = t[i]
      BY <1>1, <1>2, <1>3, <2>1
    <3> QED BY <1>2, <2>1, <3>1
  <2>2. CASE i \notin 1..a
    <3>1. i - a \in 1..m /\ (i - a) + a = i
      BY <1>1, <2>2
    <3>2. (t \o v)[i] = v[i - a]
      BY <1>1, <1>2, <1>3, <2>2
    <3> QED BY <1>2, <1>3, <3>1, <3>2
  <2> QED BY <2>1, <2>2
<1>6. s = t \o v
  BY <1>2, <1>4, <1>5, SeqEqual
<1> QED BY <1>6 DEF IsConcat, s, t, v

\* SplitResume, for names of the concatenations.
LEMMA SplitJoin ==
  ASSUME NEW u \in Seq(Unit), NEW v \in Seq(Unit), NEW w, IsConcat(w, u, v),
         NEW m, IsConcat(m, Split(u).rest, v)
  PROVE  /\ w \in Seq(Unit) /\ m \in Seq(Unit)
         /\ IsConcat(Split(w).packets, Split(u).packets, Split(m).packets)
         /\ Split(w).rest = Split(m).rest
<1> DEFINE r == Split(u).rest
<1>1. r \in Seq(Unit)
  BY SplitType, SplitFields
<1>2. w = u \o v /\ m = r \o v
  BY DEF IsConcat
<1> DEFINE pp == Split(u).packets \o Split(m).packets
<1>3. Split(w) = [packets |-> pp, rest |-> Split(m).rest]
  BY <1>2, SplitResume
<1>4. w \in Seq(Unit) /\ m \in Seq(Unit)
  <2> HIDE DEF r
  <2> QED BY <1>1, <1>2
<1>5. IsConcat(pp, Split(u).packets, Split(m).packets)
  BY DEF IsConcat
<1> HIDE DEF r, pp
<1>6. Split(w).packets = pp /\ Split(w).rest = Split(m).rest
  BY <1>3
<1> QED BY <1>4, <1>5, <1>6

\* The next chunk holds the units that follow those of the chunks before it.
LEMMA BeforeStep ==
  ASSUME NEW list \in Lists, NEW j \in 0..(Len(Pack(list)) - 1)
  PROVE  /\ Before(list, j) \in Seq(Unit) /\ Pack(list)[j + 1].units \in Seq(Unit)
         /\ Pack(list)[j + 1].number = j /\ j < ChunksPerTransfer
         /\ IsConcat(Before(list, j + 1), Before(list, j), Pack(list)[j + 1].units)
<1> DEFINE u == UnitsOf(list)
           count == Len(Pack(list))
           a == Cut(list, j)
           b == Cut(list, j + 1)
<1>1. u \in Seq(Unit) /\ Len(u) \in Nat
  BY ListsType, UnitsOfType
<1>2. a \in Nat /\ b \in Nat /\ a <= b /\ b <= Len(u) /\ count \in 1..ChunksPerTransfer
  BY PackFacts
<1>3. j + 1 \in 1..count /\ (j + 1) - 1 = j
  BY <1>2
<1>4. Pack(list)[j + 1] = Chunk(j, SubSeq(u, a + 1, b))
  <2>1. Pack(list)[j + 1] = Chunk((j + 1) - 1, SubSeq(u, Cut(list, (j + 1) - 1) + 1, b))
    BY <1>3, PackFacts
  <2> QED BY <1>3, <2>1
<1>5. Before(list, j) = SubSeq(u, 1, a) /\ Before(list, j + 1) = SubSeq(u, 1, b)
  BY DEF Before
<1> HIDE DEF u, a, b
<1>6. IsConcat(SubSeq(u, 1, b), SubSeq(u, 1, a), SubSeq(u, a + 1, b))
  BY <1>1, <1>2, SubSeqJoin
<1>7. SubSeq(u, 1, a) \in Seq(Unit) /\ SubSeq(u, a + 1, b) \in Seq(Unit)
  BY <1>1, <1>2
<1>8. j < ChunksPerTransfer
  BY <1>2, StreamAssumption
<1> DEFINE v == SubSeq(u, a + 1, b)
<1>9. Pack(list)[j + 1] = [number |-> j, units |-> v] /\ v \in Seq(Unit)
  BY <1>4, <1>7 DEF Chunk
<1> HIDE DEF v
<1>10. Pack(list)[j + 1].number = j /\ Pack(list)[j + 1].units = v
  BY <1>9
<1> QED BY <1>5, <1>6, <1>7, <1>8, <1>9, <1>10 DEF v

\* What the first chunks read as is a prefix of the list, and all of it in the end.
LEMMA BeforeReads ==
  ASSUME NEW list \in Lists, NEW j \in 0..Len(Pack(list))
  PROVE  /\ Before(list, j) \in Seq(Unit)
         /\ j = 0 => Split(Before(list, j)) = NothingYet
         /\ IsPrefix(Split(Before(list, j)).packets, list)
         /\ j = Len(Pack(list)) => Split(Before(list, j)).packets = list
<1> DEFINE u == UnitsOf(list)
           count == Len(Pack(list))
           a == Cut(list, j)
<1>1. list \in Seq(Packets) /\ u \in Seq(Unit) /\ Len(u) \in Nat /\ count \in Nat
  BY ListsType, UnitsOfType, PackFacts
<1>2. a \in Nat /\ a <= Len(u) /\ (j = count => a = Len(u)) /\ (j = 0 => a = 0)
  <2>1. CASE j = count
    BY <1>1, <2>1, PackFacts
  <2>2. CASE j # count
    <3>1. j \in 0..(count - 1)
      BY <1>1, <2>2
    <3>2. a \in Nat /\ Cut(list, j + 1) \in Nat /\ a <= Cut(list, j + 1) /\ Cut(list, j + 1) <= Len(u)
      BY <3>1, PackFacts
    <3>3. a <= Len(u)
      BY <1>1, <3>2
    <3> QED BY <2>2, <3>2, <3>3, PackFacts
  <2> QED BY <2>1, <2>2
<1>3. Before(list, j) = SubSeq(u, 1, a)
  BY DEF Before
<1>4. Split(u) = [packets |-> list, rest |-> <<>>]
  BY <1>1, SplitUnitsOf
<1> HIDE DEF u, a, count
<1>5. /\ SubSeq(u, 1, a) \in Seq(Unit) /\ SubSeq(u, a + 1, Len(u)) \in Seq(Unit)
      /\ SubSeq(u, 1, Len(u)) = u
  BY <1>1, <1>2
<1>6. ASSUME j = 0 PROVE Split(Before(list, j)) = NothingYet
  <2>1. SubSeq(u, 1, a) = <<>>
    BY <1>1, <1>2, <1>6
  <2> QED BY <1>3, <2>1, SplitEmpty
<1>7. ASSUME j = count PROVE Split(Before(list, j)).packets = list
  <2>1. Before(list, j) = u
    BY <1>2, <1>3, <1>5, <1>7
  <2> QED BY <1>4, <2>1
<1>8. IsPrefix(Split(Before(list, j)).packets, list)
  <2> DEFINE b == SubSeq(u, 1, a)
             v == SubSeq(u, a + 1, Len(u))
             m == Split(b).rest \o v
             p == Split(b).packets
             q == Split(m).packets
  <2>1. IsConcat(u, b, v)
    <3>1. IsConcat(SubSeq(u, 1, Len(u)), b, v)
      BY <1>1, <1>2, SubSeqJoin
    <3> QED BY <1>5, <3>1
  <2>2. IsConcat(m, Split(b).rest, v)
    BY DEF IsConcat
  <2> HIDE DEF m
  <2>3. m \in Seq(Unit) /\ IsConcat(Split(u).packets, p, q)
    <3> HIDE DEF b, v
    <3> QED BY <1>5, <2>1, <2>2, SplitJoin DEF b, v
  <2>4. p \in Seq(Elements) /\ q \in Seq(Elements)
    BY <1>5, <2>3, SplitType, SplitFields
  <2>5. list = p \o q
    <3>1. Split(u).packets = list
      BY <1>4
    <3>2. Split(u).packets = p \o q
      BY <2>3, Zenon DEF IsConcat
    <3> HIDE DEF p, q
    <3> QED BY <3>1, <3>2
  <2> HIDE DEF p, q
  <2>6. IsPrefix(p, list)
    <3>1. Len(p) \in Nat /\ Len(q) \in Nat /\ Len(p \o q) = Len(p) + Len(q)
      BY <2>4, ConcatProperties
    <3>2. SubSeq(p, 1, Len(p)) = p
      BY <2>4
    <3>3. SubSeq(p \o q, 1, Len(p)) = p
      <4>1. /\ p \o q \in Seq(Elements) /\ SubSeq(p \o q, 1, Len(p)) \in Seq(Elements)
            /\ Len(SubSeq(p \o q, 1, Len(p))) = Len(p)
        BY <2>4, <3>1
      <4>2. \A i \in 1..Len(p) : SubSeq(p \o q, 1, Len(p))[i] = p[i]
        BY <2>4, <3>1
      <4> QED BY <2>4, <4>1, <4>2, SeqEqual
    <3> QED BY <2>5, <3>1, <3>2, <3>3 DEF IsPrefix
  <2> QED BY <1>3, <2>6 DEF p
<1> QED BY <1>3, <1>5, <1>6, <1>7, <1>8 DEF count

-----------------------------------------------------------------------------
(* The invariant                                                           *)

Transfers ==
  [pc : {"idle", "reading", "writing", "gone"}, chunks : Seq(ChunkSet), list : Seq(Packets), todo : Seq(ChunkSet)]

\* Numbers fit the counter, the units sent in a transfer are those of whole chunks, a
\* chunk never overflows, and what is left of a packet is shorter than a chunk.
StreamTypeOK ==
  /\ can_read_buffer \in ChunkSet /\ Len(can_read_buffer.units) < Payload
  /\ total_rx_size = can_read_buffer.number * (Payload + 1)
  /\ filling \in Fifos /\ txfifo \in Fifos
  /\ host \in Transfers
  /\ comms_healthy \in BOOLEAN /\ broken \in BOOLEAN
  /\ can_write_buffer \in ChunkSet /\ sent \in Seq(Elements) /\ owed \in Seq(Packets)

\* After j chunks of a write: those that follow are to be sent, the packets queued are
\* the whole ones so far, and the buffer holds the start of the next.
WriteAt(list, todo, buffer, done, j) ==
  /\ todo = SubSeq(Pack(list), j + 1, Len(Pack(list)))
  /\ done = Split(Before(list, j)).packets
  /\ j > 0 => buffer = Chunk(Number(j), Split(Before(list, j)).rest)

WriteInv ==
  host.pc = "writing" =>
    /\ host.list \in Lists
    /\ \E j \in 0..Len(Pack(host.list)) : WriteAt(host.list, host.todo, can_write_buffer, sent, j)

\* The counter of one byte holds the numbers of a transfer.
LEMMA NumberType ==
  ASSUME NEW n \in Nat
  PROVE  Number(n) \in 0..(ChunksPerTransfer - 1) /\ (n < ChunksPerTransfer => Number(n) = n)
<1>1. ChunksPerTransfer \in Nat \ {0}
  BY StreamAssumption
<1> QED BY <1>1 DEF Number

\* A write begins before its first chunk, whatever the panda has in its buffer.
LEMMA BeginsWrite ==
  ASSUME NEW list \in Lists, NEW buffer
  PROVE  /\ 0 \in 0..Len(Pack(list)) /\ Pack(list) \in Seq(ChunkSet)
         /\ WriteAt(list, Pack(list), buffer, <<>>, 0)
<1> DEFINE pack == Pack(list)
           count == Len(pack)
<1>1. count \in 1..ChunksPerTransfer /\ pack \in Seq(ChunkSet)
  BY PackFacts
<1>2. 0 \in 0..count
  BY <1>1, StreamAssumption
<1>3. Split(Before(list, 0)) = NothingYet
  BY <1>2, BeforeReads
<1> HIDE DEF pack
<1>4. SubSeq(pack, 1, Len(pack)) = pack
  BY <1>1
<1> QED BY <1>1, <1>2, <1>3, <1>4 DEF WriteAt, NothingYet, pack

IsBegun(begun, chunk, buffer) == begun = IF chunk.number = 0 THEN Chunk(0, <<>>) ELSE buffer
IsSplit(split, begun, chunk) == split = Split(begun.units \o chunk.units)
IsNext(next, chunk, split) == next = Chunk(Number(chunk.number + 1), split.rest)

\* The panda takes the next chunk of a write: its number is the one expected, and the
\* packets and the rest are those of one chunk more.
LEMMA SendsChunk ==
  ASSUME NEW list \in Lists, NEW todo, NEW buffer, NEW done, NEW j \in 0..Len(Pack(list)),
         WriteAt(list, todo, buffer, done, j), todo # <<>>,
         NEW begun, IsBegun(begun, todo[1], buffer),
         NEW split, IsSplit(split, begun, todo[1]),
         NEW next, IsNext(next, todo[1], split), NEW all, IsConcat(all, done, split.packets)
  PROVE  /\ todo[1].number = begun.number /\ j + 1 \in 0..Len(Pack(list))
         /\ next \in ChunkSet /\ all \in Seq(Elements)
         /\ WriteAt(list, Tail(todo), next, all, j + 1)
<1> DEFINE pack == Pack(list)
           count == Len(pack)
           rest == Split(Before(list, j)).rest
           units == todo[1].units
           m == rest \o units
<1>1. count \in Nat /\ j \in 0..count /\ pack \in Seq(ChunkSet)
  BY PackFacts, StreamAssumption
<1>2. todo = SubSeq(pack, j + 1, count) /\ done = Split(Before(list, j)).packets
  BY DEF WriteAt
<1>3. j < count /\ todo[1] = pack[j + 1] /\ Tail(todo) = SubSeq(pack, j + 2, count)
  <2> HIDE DEF pack
  <2>1. j < count
    <3>1. ASSUME j = count PROVE FALSE
      <4>1. todo \in Seq(ChunkSet) /\ Len(todo) = 0
        BY <1>1, <1>2, <3>1
      <4> QED BY <4>1
    <3> QED BY <1>1, <3>1
  <2>2. /\ todo \in Seq(ChunkSet) /\ Len(todo) = count - j
        /\ \A i \in 1..(count - j) : todo[i] = pack[j + i]
    BY <1>1, <1>2, <2>1
  <2>3. todo[1] = pack[j + 1]
    BY <1>1, <2>1, <2>2
  <2>4. Tail(todo) = SubSeq(pack, j + 2, count)
    <3> DEFINE s == Tail(todo)
               t == SubSeq(pack, j + 2, count)
               n == count - j - 1
    <3>1. n \in Nat /\ count - j = n + 1
      BY <1>1, <2>1
    <3>2. s \in Seq(ChunkSet) /\ Len(s) = n /\ \A i \in 1..n : s[i] = todo[i + 1]
      BY <2>2, <3>1, HeadTailProperties
    <3>3. t \in Seq(ChunkSet) /\ Len(t) = n /\ \A i \in 1..n : t[i] = pack[j + 1 + i]
      BY <1>1, <2>1
    <3> HIDE DEF s, t, n
    <3>4. \A i \in 1..n : s[i] = t[i]
      <4> TAKE i \in 1..n
      <4>1. i + 1 \in 1..(count - j) /\ j + (i + 1) = j + 1 + i
        BY <1>1, <3>1
      <4> QED BY <2>2, <3>2, <3>3, <4>1
    <3> QED BY <3>2, <3>3, <3>4, SeqEqual DEF s, t
  <2> QED BY <2>1, <2>3, <2>4
<1>4. j \in 0..(count - 1) /\ j + 1 \in 0..count
  BY <1>1, <1>3
<1>5. /\ Before(list, j) \in Seq(Unit) /\ units \in Seq(Unit)
      /\ todo[1].number = j /\ j < ChunksPerTransfer
      /\ IsConcat(Before(list, j + 1), Before(list, j), units)
  BY <1>3, <1>4, BeforeStep
<1>6. begun = Chunk(j, rest)
  <2>1. CASE j = 0
    <3>1. Split(Before(list, j)) = NothingYet
      BY <2>1, BeforeReads
    <3>2. rest = <<>>
      BY <3>1 DEF NothingYet
    <3> QED BY <1>5, <2>1, <3>2 DEF IsBegun
  <2>2. CASE j # 0
    <3>1. Number(j) = j
      BY <1>5, NumberType
    <3>2. buffer = Chunk(j, rest)
      BY <2>2, <3>1 DEF WriteAt
    <3> QED BY <1>5, <2>2, <3>2 DEF IsBegun
  <2> QED BY <2>1, <2>2
<1>7. begun.number = j /\ begun.units = rest
  <2> HIDE DEF rest
  <2> QED BY <1>6 DEF Chunk
<1>8. split = Split(m)
  <2> HIDE DEF rest, units
  <2>1. begun.units \o units = m
    BY <1>7
  <2> QED BY <2>1 DEF units, IsSplit
<1>9. IsConcat(m, rest, units)
  BY DEF IsConcat
<1> HIDE DEF m
<1>10. /\ m \in Seq(Unit)
       /\ IsConcat(Split(Before(list, j + 1)).packets, done, split.packets)
       /\ Split(Before(list, j + 1)).rest = split.rest
  BY <1>2, <1>5, <1>8, <1>9, SplitJoin
<1>11. split \in Splits
  BY <1>8, <1>10, SplitType
<1>12. split.rest \in Seq(Unit) /\ split.packets \in Seq(Elements) /\ done \in Seq(Elements)
  <2>1. Split(Before(list, j)) \in Splits
    BY <1>5, SplitType
  <2> QED BY <1>2, <1>11, <2>1, SplitFields
<1>13. Number(j + 1) \in 0..(ChunksPerTransfer - 1)
  BY NumberType
<1>14. next = Chunk(Number(j + 1), split.rest) /\ next \in ChunkSet
  BY <1>5, <1>12, <1>13 DEF Chunk, ChunkSet, IsNext
<1>15. all \in Seq(Elements) /\ Split(Before(list, j + 1)).packets = all
  <2>1. Split(Before(list, j + 1)).packets = all
    BY <1>10, Zenon DEF IsConcat
  <2>2. all = done \o split.packets
    BY Zenon DEF IsConcat
  <2>3. done \o split.packets \in Seq(Elements)
    BY <1>12
  <2> QED BY <2>1, <2>2, <2>3, Zenon
<1>16. WriteAt(list, Tail(todo), next, all, j + 1)
  <2>1. j + 1 + 1 = j + 2
    OBVIOUS
  <2> HIDE DEF units, rest
  <2> QED BY <1>3, <1>10, <1>14, <1>15, <2>1, Zenon DEF WriteAt, pack, count
<1> QED BY <1>4, <1>5, <1>7, <1>14, <1>15, <1>16

\* The number of the chunk after the last that was sent.
NumberAfter(n, fifo) == IF n = 0 /\ fifo # <<>> THEN fifo[1].number + 1 ELSE n
Underway(chunks, fifo) == Len(chunks) + Len(fifo)

\* The chunks fetched and the one that waits are numbered without a gap up to the one
\* the panda sends next; only the last of a transfer is not full.
InSequence(n, chunks, fifo) ==
  /\ \A i \in 1..Len(chunks) :
       IsFull(chunks[i]) /\ chunks[i].number = NumberAfter(n, fifo) - Underway(chunks, fifo) + i - 1
  /\ fifo # <<>> => fifo[1].number = NumberAfter(n, fifo) - 1 /\ (IsFull(fifo[1]) <=> n > 0)
  /\ fifo = <<>> /\ n = 0 => chunks = <<>>
  /\ Underway(chunks, fifo) <= NumberAfter(n, fifo)

\* They begin with the first chunk of a transfer.
FromStart(n, chunks, fifo) == NumberAfter(n, fifo) = Underway(chunks, fifo)

\* A chunk in the fifo.
LEMMA FifoType ==
  ASSUME NEW c \in ChunkSet, Len(c.units) <= Payload
  PROVE  /\ <<c>> \in Fifos /\ <<c>> # <<>> /\ <<c>>[1] = c /\ Len(<<c>>) = 1
         /\ UnitsIn(<<c>>) = c.units
<1>1. <<c>> # <<>> /\ <<c>>[1] = c /\ Len(<<c>>) = 1
  OBVIOUS
<1>2. <<c>> \in Fifos
  BY DEF Fifos
<1> QED BY <1>1, <1>2 DEF UnitsIn

\* The fifo is empty or holds one chunk, no longer than it may be.
LEMMA FifoCases ==
  ASSUME NEW fifo \in Fifos
  PROVE  \/ fifo = <<>> /\ UnitsIn(fifo) = <<>> /\ Len(fifo) = 0
         \/ /\ fifo # <<>> /\ fifo[1] \in ChunkSet /\ Len(fifo[1].units) <= Payload
            /\ fifo = <<fifo[1]>> /\ Len(fifo) = 1 /\ UnitsIn(fifo) = fifo[1].units
<1>1. CASE fifo = <<>>
  BY <1>1 DEF UnitsIn
<1>2. CASE fifo # <<>>
  <2>1. PICK c \in ChunkSet : Len(c.units) <= Payload /\ fifo = <<c>>
    BY <1>2 DEF Fifos
  <2>2. <<c>>[1] = c /\ Len(<<c>>) = 1
    OBVIOUS
  <2>3. UnitsIn(fifo) = fifo[1].units
    BY <1>2 DEF UnitsIn
  <2> QED BY <1>2, <2>1, <2>2, <2>3
<1> QED BY <1>1, <1>2

\* A chunk that leaves with the next number goes on with the sequence: full, it is followed by
\* another; not full, it is the last.
LEMMA SequenceSends ==
  ASSUME NEW n \in Nat, NEW chunks \in Seq(ChunkSet), InSequence(n, chunks, <<>>),
         NEW c \in ChunkSet, c.number = n, NEW m, m = IF IsFull(c) THEN n + 1 ELSE 0
  PROVE  /\ InSequence(m, chunks, <<c>>)
         /\ FromStart(m, chunks, <<c>>) <=> FromStart(n, chunks, <<>>)
<1>1. <<c>> # <<>> /\ <<c>>[1] = c /\ Len(<<c>>) = 1 /\ Len(<<>>) = 0
  OBVIOUS
<1>2. NumberAfter(n, <<>>) = n /\ NumberAfter(m, <<c>>) = n + 1
  BY <1>1 DEF NumberAfter
<1>3. /\ Len(chunks) \in Nat
      /\ Underway(chunks, <<>>) = Len(chunks) /\ Underway(chunks, <<c>>) = Len(chunks) + 1
  BY <1>1 DEF Underway
<1>4. m > 0 <=> IsFull(c)
  OBVIOUS
<1>5. \A i \in 1..Len(chunks) : IsFull(chunks[i]) /\ chunks[i].number = n - Len(chunks) + i - 1
  BY <1>2, <1>3 DEF InSequence
<1>6. Len(chunks) <= n
  BY <1>2, <1>3 DEF InSequence
<1> DEFINE k == Len(chunks)
<1>7. \A i \in 1..k : IsFull(chunks[i]) /\ chunks[i].number = (n + 1) - (k + 1) + i - 1
  <2>1. n - k = (n + 1) - (k + 1)
    BY <1>3
  <2> QED BY <1>5, <2>1
<1>8. k + 1 <= n + 1 /\ c.number = (n + 1) - 1
  BY <1>3, <1>6
<1>9. (n + 1 = k + 1) <=> (n = k)
  BY <1>3
<1> HIDE DEF k
<1>10. InSequence(m, chunks, <<c>>)
  BY <1>1, <1>2, <1>3, <1>4, <1>7, <1>8 DEF InSequence, k
<1>11. FromStart(m, chunks, <<c>>) <=> FromStart(n, chunks, <<>>)
  BY <1>2, <1>3, <1>9 DEF FromStart, k
<1> QED BY <1>10, <1>11

\* Fetching the chunk that waits keeps the sequence.
LEMMA SequenceFetches ==
  ASSUME NEW n \in Nat \ {0}, NEW chunks \in Seq(ChunkSet), NEW c \in ChunkSet,
         InSequence(n, chunks, <<c>>)
  PROVE  /\ InSequence(n, Append(chunks, c), <<>>)
         /\ FromStart(n, Append(chunks, c), <<>>) <=> FromStart(n, chunks, <<c>>)
<1>1. <<c>> # <<>> /\ <<c>>[1] = c /\ Len(<<c>>) = 1 /\ Len(<<>>) = 0
  OBVIOUS
<1> DEFINE k == Len(chunks)
           more == Append(chunks, c)
<1>2. NumberAfter(n, <<>>) = n /\ NumberAfter(n, <<c>>) = n
  BY DEF NumberAfter
<1>3. /\ k \in Nat /\ Len(more) = k + 1
      /\ \A i \in 1..k : more[i] = chunks[i]
      /\ more[k + 1] = c
  BY AppendProperties
<1>4. Underway(more, <<>>) = k + 1 /\ Underway(chunks, <<c>>) = k + 1
  BY <1>1, <1>3 DEF Underway
<1> HIDE DEF more
<1>5. /\ \A i \in 1..k : IsFull(chunks[i]) /\ chunks[i].number = n - (k + 1) + i - 1
      /\ c.number = n - 1 /\ IsFull(c) /\ k + 1 <= n
  BY <1>1, <1>2, <1>4 DEF InSequence
<1> HIDE DEF k
<1>6. \A i \in 1..(k + 1) : IsFull(more[i]) /\ more[i].number = n - (k + 1) + i - 1
  <2> TAKE i \in 1..(k + 1)
  <2>1. CASE i \in 1..k
    BY <1>3, <1>5, <2>1
  <2>2. CASE i = k + 1
    BY <1>3, <1>5, <2>2
  <2> QED BY <1>3, <2>1, <2>2
<1>7. InSequence(n, more, <<>>)
  BY <1>2, <1>3, <1>4, <1>5, <1>6 DEF InSequence
<1>8. FromStart(n, more, <<>>) <=> FromStart(n, chunks, <<c>>)
  BY <1>2, <1>4 DEF FromStart
<1> QED BY <1>7, <1>8 DEF more

\* Between two transfers there is nothing, and the next starts one.
LEMMA SequenceEmpty == InSequence(0, <<>>, <<>>) /\ FromStart(0, <<>>, <<>>)
BY DEF InSequence, FromStart, NumberAfter, Underway

\* A new connection has fetched nothing.
LEMMA SequenceRestarts ==
  ASSUME NEW n \in Nat, NEW chunks \in Seq(ChunkSet), NEW fifo \in Fifos, InSequence(n, chunks, fifo)
  PROVE  /\ InSequence(n, <<>>, fifo) /\ InSequence(n, <<>>, <<>>)
         /\ FromStart(n, <<>>, <<>>) => n = 0
         /\ fifo # <<>> /\ FromStart(n, <<>>, fifo) => chunks = <<>>
<1>1. Len(chunks) \in Nat /\ Len(<<>>) = 0
  OBVIOUS
<1>2. /\ Underway(<<>>, <<>>) = 0 /\ Underway(<<>>, fifo) = Len(fifo)
      /\ Underway(chunks, fifo) = Len(chunks) + Len(fifo) /\ Len(fifo) \in 0..1
  BY <1>1, FifoCases DEF Underway
<1>3. NumberAfter(n, <<>>) = n
  BY DEF NumberAfter
<1>4. NumberAfter(n, fifo) \in Nat
  <2>1. fifo # <<>> => fifo[1].number \in Nat
    BY FifoCases, StreamAssumption DEF ChunkSet
  <2> QED BY <2>1 DEF NumberAfter
<1>5. InSequence(n, <<>>, <<>>)
  BY <1>1, <1>2, <1>3 DEF InSequence
<1>6. InSequence(n, <<>>, fifo)
  BY <1>1, <1>2, <1>4 DEF InSequence
<1>7. FromStart(n, <<>>, <<>>) => n = 0
  BY <1>2, <1>3 DEF FromStart
<1>8. ASSUME fifo # <<>>, FromStart(n, <<>>, fifo) PROVE chunks = <<>>
  <2>1. Len(fifo) = 1
    BY <1>8, FifoCases
  <2>2. NumberAfter(n, fifo) = 1
    BY <1>2, <1>8, <2>1 DEF FromStart
  <2>3. Len(chunks) + 1 <= 1
    BY <1>2, <2>1, <2>2 DEF InSequence
  <2>4. Len(chunks) = 0
    BY <1>1, <2>3
  <2> QED BY <2>4, EmptySeq
<1> QED BY <1>5, <1>6, <1>7, <1>8

-----------------------------------------------------------------------------

\* While the panda fills a chunk nothing waits, the next number is that of the chunk and
\* is below the last two; it keeps the rest of a packet only in the middle of a transfer.
PandaInv ==
  /\ filling # <<>> =>
       /\ can_read_buffer.number <= ChunksPerTransfer - 2
       /\ filling[1].number = can_read_buffer.number /\ can_read_buffer.units = <<>>
       /\ txfifo = <<>> /\ host.pc = "reading"
  /\ can_read_buffer.number = 0 => can_read_buffer.units = <<>>

TransferInv ==
  /\ InSequence(can_read_buffer.number, host.chunks, txfifo)
  /\ host.pc # "reading" => host.chunks = <<>>

Started == FromStart(can_read_buffer.number, host.chunks, txfifo)

\* From the start of a transfer what is in flight is whole packets; those owed to a
\* connection that was never cut.
ContentInv ==
  /\ Started => \E list \in Seq(Packets) : InFlight = UnitsOf(list)
  /\ ~broken => comms_healthy /\ Started /\ InFlight = UnitsOf(owed)

StreamInv == RingInv /\ StreamTypeOK /\ PandaInv /\ TransferInv /\ ContentInv /\ WriteInv

ReadFlow ==
  /\ Bytes(host.chunks) \in Seq(Unit) /\ UnitsIn(txfifo) \in Seq(Unit)
  /\ UnitsIn(filling) \in Seq(Unit) /\ can_read_buffer.units \in Seq(Unit)
  /\ InFlight = Flow(Bytes(host.chunks), UnitsIn(txfifo), UnitsIn(filling), can_read_buffer.units)
  /\ IsConcat(Bytes(Chunks), Bytes(host.chunks), UnitsIn(txfifo))
  /\ Chunks \in Seq(ChunkSet)
  /\ IF txfifo # <<>> /\ txfifo[1].units # <<>> THEN Chunks = Append(host.chunks, txfifo[1])
     ELSE Chunks = host.chunks

\* The bytes of chunks are units.
LEMMA BytesType == ASSUME NEW chunks \in Seq(ChunkSet) PROVE Bytes(chunks) \in Seq(Unit)
<1>1. CASE chunks = <<>>
  <2>1. <<>> \in Seq(Unit)
    OBVIOUS
  <2> QED BY <1>1, <2>1, BytesEmpty, Zenon
<1>2. CASE chunks # <<>>
  <2>1. PICK front \in Seq(ChunkSet), c \in ChunkSet : chunks = Append(front, c)
    BY <1>2, SequenceEmptyOrAppend
  <2> QED BY BytesAppend, <2>1, <1>2
<1> QED BY <1>1, <1>2

\* What is in flight is the flow of the four places it may be in.
LEMMA FlowInFlight == StreamTypeOK => ReadFlow
<1> SUFFICES ASSUME StreamTypeOK PROVE ReadFlow
  OBVIOUS
<1>1. host.chunks \in Seq(ChunkSet) /\ can_read_buffer.units \in Seq(Unit)
  BY DEF StreamTypeOK, Transfers, ChunkSet
<1>2. ASSUME NEW f \in Fifos PROVE UnitsIn(f) \in Seq(Unit)
  <2>1. <<>> \in Seq(Unit)
    OBVIOUS
  <2>2. \A c \in ChunkSet : c.units \in Seq(Unit)
    BY DEF ChunkSet
  <2> QED BY <2>1, <2>2, FifoCases
<1>3. Bytes(host.chunks) \in Seq(Unit)
  BY <1>1, BytesType
<1>4. UnitsIn(txfifo) \in Seq(Unit) /\ UnitsIn(filling) \in Seq(Unit)
  BY <1>2 DEF StreamTypeOK
<1>5. /\ Chunks \in Seq(ChunkSet)
      /\ IF txfifo # <<>> /\ txfifo[1].units # <<>> THEN Chunks = Append(host.chunks, txfifo[1])
         ELSE Chunks = host.chunks
  <2>1. CASE txfifo # <<>> /\ txfifo[1].units # <<>>
    <3>1. txfifo = <<txfifo[1]>> /\ txfifo[1] \in ChunkSet
      BY <2>1, FifoCases DEF StreamTypeOK
    <3>2. Chunks = host.chunks \o <<txfifo[1]>>
      BY <2>1, <3>1 DEF Chunks
    <3>3. Chunks = Append(host.chunks, txfifo[1])
      BY <1>1, <3>1, <3>2, AppendIsConcat
    <3> QED BY <1>1, <2>1, <3>1, <3>3
  <2>2. CASE ~(txfifo # <<>> /\ txfifo[1].units # <<>>)
    <3>1. Chunks = host.chunks \o <<>>
      BY <2>2, Zenon DEF Chunks
    <3>2. host.chunks \o <<>> = host.chunks
      BY <1>1
    <3> QED BY <1>1, <2>2, <3>1, <3>2
  <2> QED BY <2>1, <2>2
<1>6. IsConcat(Bytes(Chunks), Bytes(host.chunks), UnitsIn(txfifo))
  <2>1. CASE txfifo # <<>> /\ txfifo[1].units # <<>>
    <3>1. txfifo[1] \in ChunkSet /\ UnitsIn(txfifo) = txfifo[1].units
      BY <2>1, FifoCases DEF StreamTypeOK
    <3>2. Chunks = Append(host.chunks, txfifo[1])
      BY <1>5, <2>1
    <3> QED BY <1>1, <3>1, <3>2, BytesAppend
  <2>2. CASE ~(txfifo # <<>> /\ txfifo[1].units # <<>>)
    <3>1. UnitsIn(txfifo) = <<>>
      BY <2>2 DEF UnitsIn
    <3>2. Bytes(host.chunks) \o <<>> = Bytes(host.chunks)
      BY <1>3
    <3>3. Chunks = host.chunks
      BY <1>5, <2>2
    <3> QED BY <3>1, <3>2, <3>3, Zenon DEF IsConcat
  <2> QED BY <2>1, <2>2
<1>7. InFlight = Flow(Bytes(host.chunks), UnitsIn(txfifo), UnitsIn(filling), can_read_buffer.units)
  <2> DEFINE a == Bytes(host.chunks)
             t == UnitsIn(txfifo)
             f == IF filling = NotFilling THEN <<>> ELSE filling[1].units
             b == can_read_buffer.units
  <2>1. Bytes(Chunks) = a \o t
    BY <1>6, Zenon DEF IsConcat
  <2>2. f = UnitsIn(filling)
    BY DEF UnitsIn, NotFilling
  <2>3. InFlight = Bytes(Chunks) \o f \o b
    BY Zenon DEF InFlight
  <2> HIDE DEF f
  <2>4. Flow(a, t, f, b) = a \o t \o f \o b
    BY Zenon DEF Flow
  <2> QED BY <2>1, <2>2, <2>3, <2>4, Zenon
<1> QED BY <1>1, <1>3, <1>4, <1>5, <1>6, <1>7 DEF ReadFlow

-----------------------------------------------------------------------------
(* The invariant holds initially and after every step                      *)

TransfersInv == StreamTypeOK /\ PandaInv /\ TransferInv /\ ContentInv /\ WriteInv

\* A step that leaves what is in flight alone, and whether it starts a transfer.
LEMMA ContentKept ==
  ASSUME ContentInv, InFlight' = InFlight, Started' <=> Started, UNCHANGED <<owed, broken, comms_healthy>>
  PROVE  ContentInv'
<1>1. Started' => \E list \in Seq(Packets) : InFlight' = UnitsOf(list)
  BY DEF ContentInv
<1>2. ~broken' => comms_healthy' /\ Started' /\ InFlight' = UnitsOf(owed')
  BY DEF ContentInv
<1> QED BY <1>1, <1>2 DEF ContentInv

\* A step of the ring alone.
LEMMA IdleStep ==
  ASSUME TransfersInv, UNCHANGED <<readVars, hostVars, writeVars, owed>>
  PROVE  TransfersInv'
<1>1. /\ UNCHANGED <<can_read_buffer, total_rx_size, filling, txfifo>>
      /\ UNCHANGED <<host, comms_healthy, broken, can_write_buffer, sent, owed>>
  BY DEF readVars, hostVars, writeVars
<1>2. InFlight' = InFlight /\ (Started' <=> Started)
  BY <1>1 DEF InFlight, Chunks, Started
<1>3. ContentInv'
  BY <1>1, <1>2, ContentKept DEF TransfersInv
<1>4. StreamTypeOK'
  BY <1>1 DEF TransfersInv, StreamTypeOK
<1>5. PandaInv' /\ TransferInv'
  BY <1>1 DEF TransfersInv, PandaInv, TransferInv
<1>6. WriteInv'
  BY <1>1 DEF TransfersInv, WriteInv
<1> QED BY <1>3, <1>4, <1>5, <1>6 DEF TransfersInv

\* The host takes a step that leaves the chunks it has fetched alone.
LEMMA HostStep ==
  ASSUME TransfersInv, host' \in Transfers, host'.chunks = host.chunks,
         host'.pc = "reading" \/ filling = <<>>,
         host'.pc = "reading" \/ host.chunks = <<>>,
         can_write_buffer' \in ChunkSet, sent' \in Seq(Elements),
         UNCHANGED <<readVars, comms_healthy, broken, owed>>
  PROVE  StreamTypeOK' /\ PandaInv' /\ TransferInv' /\ ContentInv'
<1>1. /\ UNCHANGED <<can_read_buffer, total_rx_size, filling, txfifo>>
      /\ UNCHANGED <<comms_healthy, broken, owed>>
  BY DEF readVars
<1>2. InFlight' = InFlight /\ (Started' <=> Started)
  <2>1. Chunks' = Chunks
    BY <1>1 DEF Chunks
  <2> QED BY <1>1, <2>1 DEF InFlight, Started
<1>3. ContentInv'
  BY <1>1, <1>2, ContentKept DEF TransfersInv
<1>4. StreamTypeOK'
  BY <1>1 DEF TransfersInv, StreamTypeOK
<1>5. PandaInv'
  BY <1>1 DEF TransfersInv, PandaInv
<1>6. TransferInv'
  BY <1>1 DEF TransfersInv, TransferInv
<1> QED BY <1>3, <1>4, <1>5, <1>6

\* Between two transfers the host holds nothing.
LEMMA HostIdleType == HostIdle \in Transfers /\ HostIdle.pc = "idle" /\ HostIdle.chunks = <<>>
<1>1. <<>> \in Seq(ChunkSet) /\ <<>> \in Seq(Packets)
  OBVIOUS
<1> QED BY <1>1 DEF HostIdle, Transfers

\* The host begins to read.
LEMMA StartReadStep == ASSUME TransfersInv, StartRead PROVE TransfersInv'
<1>1. /\ host.pc = "idle" /\ host \in Transfers /\ host' = [host EXCEPT !.pc = "reading"]
      /\ can_write_buffer \in ChunkSet /\ sent \in Seq(Elements)
  BY DEF StartRead, TransfersInv, StreamTypeOK
<1>2. host' \in Transfers /\ host'.chunks = host.chunks /\ host'.pc = "reading"
  BY <1>1 DEF Transfers
<1>3. UNCHANGED <<readVars, comms_healthy, broken, owed, can_write_buffer, sent>>
  BY DEF StartRead, writeVars
<1>4. StreamTypeOK' /\ PandaInv' /\ TransferInv' /\ ContentInv'
  BY <1>1, <1>2, <1>3, HostStep
<1> QED BY <1>2, <1>4 DEF TransfersInv, WriteInv

\* Nothing is read while the host writes, or does nothing.
LEMMA NotReading ==
  ASSUME TransfersInv, host.pc # "reading"
  PROVE  filling = <<>> /\ host.chunks = <<>>
BY DEF TransfersInv, PandaInv, TransferInv

\* The host begins to write: nothing is queued, all is to be sent.
LEMMA WriteStep == ASSUME TransfersInv, NEW list \in Lists, Write(list) PROVE TransfersInv'
<1>1. /\ host.pc = "idle"
      /\ host' = [pc |-> "writing", chunks |-> <<>>, list |-> list, todo |-> Pack(list)]
      /\ sent' = <<>> /\ can_write_buffer' = can_write_buffer
  BY DEF Write
<1>2. 0 \in 0..Len(Pack(list)) /\ Pack(list) \in Seq(ChunkSet)
       /\ WriteAt(list, Pack(list), can_write_buffer, <<>>, 0)
  BY BeginsWrite
<1>3. list \in Seq(Packets) /\ <<>> \in Seq(ChunkSet) /\ <<>> \in Seq(Elements)
  BY ListsType
<1> DEFINE pack == Pack(list)
<1> HIDE DEF pack
<1>4. /\ host' \in Transfers /\ host'.chunks = <<>> /\ host'.pc = "writing"
      /\ host'.list = list /\ host'.todo = pack
  <2>1. pack \in Seq(ChunkSet) /\ host' = [pc |-> "writing", chunks |-> <<>>, list |-> list, todo |-> pack]
    BY <1>1, <1>2 DEF pack
  <2> QED BY <1>3, <2>1 DEF Transfers
<1>5. filling = <<>> /\ host.chunks = <<>>
  BY <1>1, NotReading
<1>6. can_write_buffer \in ChunkSet
  BY DEF TransfersInv, StreamTypeOK
<1>7. UNCHANGED <<readVars, comms_healthy, broken, owed>>
  BY DEF Write
<1>8. StreamTypeOK' /\ PandaInv' /\ TransferInv' /\ ContentInv'
  BY <1>1, <1>3, <1>4, <1>5, <1>6, <1>7, HostStep
<1>9. WriteInv'
  BY <1>1, <1>2, <1>4 DEF WriteInv, pack
<1> QED BY <1>8, <1>9 DEF TransfersInv

\* It begins again from the start.
LEMMA ResendStep == ASSUME TransfersInv, Resend PROVE TransfersInv'
<1>1. /\ host.pc = "writing" /\ host \in Transfers
      /\ host' = [host EXCEPT !.todo = Pack(host.list)]
      /\ sent' = <<>> /\ can_write_buffer' = can_write_buffer /\ can_write_buffer \in ChunkSet
  BY DEF Resend, TransfersInv, StreamTypeOK
<1>2. PICK list \in Lists : list = host.list
  BY <1>1 DEF TransfersInv, WriteInv
<1>3. 0 \in 0..Len(Pack(list)) /\ Pack(list) \in Seq(ChunkSet)
       /\ WriteAt(list, Pack(list), can_write_buffer, <<>>, 0)
  BY BeginsWrite
<1>4. <<>> \in Seq(Elements)
  OBVIOUS
<1> DEFINE pack == Pack(list)
<1> HIDE DEF pack
<1>5. /\ host' \in Transfers /\ host'.chunks = host.chunks /\ host'.pc = "writing"
      /\ host'.list = list /\ host'.todo = pack
  <2>1. pack \in Seq(ChunkSet) /\ host' = [host EXCEPT !.todo = pack]
    BY <1>1, <1>2, <1>3 DEF pack
  <2> QED BY <1>1, <1>2, <2>1 DEF Transfers
<1>6. filling = <<>> /\ host.chunks = <<>>
  BY <1>1, NotReading
<1>7. UNCHANGED <<readVars, comms_healthy, broken, owed>>
  BY DEF Resend
<1>8. StreamTypeOK' /\ PandaInv' /\ TransferInv' /\ ContentInv'
  BY <1>1, <1>4, <1>5, <1>6, <1>7, HostStep
<1>9. WriteInv'
  BY <1>1, <1>3, <1>5 DEF WriteInv, pack
<1> QED BY <1>8, <1>9 DEF TransfersInv

\* It ends a write, complete or not.
LEMMA EndWriteStep == ASSUME TransfersInv, EndWrite PROVE TransfersInv'
<1>1. host.pc = "writing" /\ host' = HostIdle
  BY DEF EndWrite
<1>2. host' \in Transfers /\ host'.pc = "idle" /\ host'.chunks = <<>>
  BY <1>1, HostIdleType
<1>3. filling = <<>> /\ host.chunks = <<>>
  BY <1>1, NotReading
<1>4. UNCHANGED <<readVars, comms_healthy, broken, owed, can_write_buffer, sent>>
  BY DEF EndWrite, writeVars
<1>5. can_write_buffer \in ChunkSet /\ sent \in Seq(Elements)
  BY DEF TransfersInv, StreamTypeOK
<1>6. StreamTypeOK' /\ PandaInv' /\ TransferInv' /\ ContentInv'
  BY <1>2, <1>3, <1>4, <1>5, HostStep
<1> QED BY <1>2, <1>6 DEF TransfersInv, WriteInv

\* The panda takes a chunk of a write.
LEMMA SendChunkStep == ASSUME TransfersInv, SendChunk PROVE TransfersInv'
<1>1. /\ host.pc = "writing" /\ host.todo # <<>> /\ host \in Transfers
      /\ host' = [host EXCEPT !.todo = Tail(host.todo)]
  BY DEF SendChunk, TransfersInv, StreamTypeOK
<1>2. PICK list \in Lists, todo \in Seq(ChunkSet), buffer \in ChunkSet, done \in Seq(Elements) :
        list = host.list /\ todo = host.todo /\ buffer = can_write_buffer /\ done = sent
  BY <1>1 DEF TransfersInv, WriteInv, StreamTypeOK, Transfers
<1>3. PICK j \in 0..Len(Pack(list)) : WriteAt(list, todo, buffer, done, j)
  BY <1>1, <1>2 DEF TransfersInv, WriteInv
<1>4. PICK begun : IsBegun(begun, todo[1], buffer)
  BY DEF IsBegun
<1>5. PICK split : IsSplit(split, begun, todo[1])
  BY DEF IsSplit
<1>6. PICK next, all : IsNext(next, todo[1], split) /\ IsConcat(all, done, split.packets)
  BY DEF IsNext, IsConcat
<1>7. /\ todo[1].number = begun.number /\ j + 1 \in 0..Len(Pack(list))
      /\ next \in ChunkSet /\ all \in Seq(Elements)
      /\ WriteAt(list, Tail(todo), next, all, j + 1)
  <2>1. todo # <<>>
    BY <1>1, <1>2
  <2> QED BY <1>3, <1>4, <1>5, <1>6, <2>1, SendsChunk
<1>8. Begin(host.todo[1]) = begun
  BY <1>2, <1>4 DEF Begin, IsBegun
<1>9. can_write_buffer' = next /\ sent' = all
  BY <1>2, <1>5, <1>6, <1>7, <1>8 DEF SendChunk, IsSplit, IsNext, IsConcat
<1>10. PICK rest \in Seq(ChunkSet) : rest = Tail(todo)
  <2>1. todo # <<>>
    BY <1>1, <1>2
  <2>2. Tail(todo) \in Seq(ChunkSet)
    BY <2>1, HeadTailProperties
  <2> QED BY <2>2
<1>11. /\ host' \in Transfers /\ host'.chunks = host.chunks /\ host'.pc = "writing"
       /\ host'.list = list /\ host'.todo = rest
  <2>1. host' = [host EXCEPT !.todo = rest]
    BY <1>1, <1>2, <1>10
  <2> QED BY <1>1, <1>2, <2>1 DEF Transfers
<1>12. filling = <<>> /\ host.chunks = <<>>
  BY <1>1, NotReading
<1>13. UNCHANGED <<readVars, comms_healthy, broken, owed>>
  BY DEF SendChunk
<1>14. StreamTypeOK' /\ PandaInv' /\ TransferInv' /\ ContentInv'
  BY <1>7, <1>9, <1>11, <1>12, <1>13, HostStep
<1>15. WriteInv'
  BY <1>7, <1>9, <1>10, <1>11 DEF WriteInv
<1> QED BY <1>14, <1>15 DEF TransfersInv

\* A packet taken from the queue follows what is in flight.
LEMMA ContentGrows ==
  ASSUME ContentInv, owed \in Seq(Packets), NEW x \in Packets, IsConcat(InFlight', InFlight, Units(x)),
         Started' <=> Started, owed' = Append(owed, x), UNCHANGED <<broken, comms_healthy>>
  PROVE  ContentInv'
<1>1. PICK now, later : now = InFlight /\ later = InFlight' /\ IsConcat(later, now, Units(x))
  OBVIOUS
<1>2. ASSUME NEW list \in Seq(Packets), now = UnitsOf(list) PROVE later = UnitsOf(Append(list, x))
  BY <1>1, <1>2, UnitsOfMore
<1>3. ASSUME Started' PROVE \E list \in Seq(Packets) : later = UnitsOf(list)
  <2>1. PICK list \in Seq(Packets) : now = UnitsOf(list)
    BY <1>1, <1>3 DEF ContentInv
  <2>2. Append(list, x) \in Seq(Packets)
    OBVIOUS
  <2> QED BY <1>2, <2>1, <2>2
<1>4. ASSUME ~broken' PROVE comms_healthy' /\ Started' /\ later = UnitsOf(owed')
  <2>1. comms_healthy /\ Started /\ now = UnitsOf(owed)
    BY <1>1, <1>4 DEF ContentInv
  <2>2. PICK list \in Seq(Packets) : list = owed
    OBVIOUS
  <2>3. later = UnitsOf(Append(list, x))
    BY <1>2, <2>1, <2>2
  <2> QED BY <2>1, <2>2, <2>3
<1> QED BY <1>1, <1>3, <1>4 DEF ContentInv

\* A transfer goes on after MAX_EP1_CHUNK_PER_BULK_TRANSFER only until the chunk
\* before the last two.
LEMMA LimitReached ==
  ASSUME StreamTypeOK
  PROVE  /\ can_read_buffer.number \in Nat /\ can_read_buffer.number <= ChunksPerTransfer - 1
         /\ ~(total_rx_size > Limit) => can_read_buffer.number <= ChunksPerTransfer - 2
<1>1. PICK n \in Nat : n = can_read_buffer.number /\ n <= ChunksPerTransfer - 1
  BY StreamAssumption DEF StreamTypeOK, ChunkSet
<1>2. PICK s \in Nat \ {0} : s = Payload + 1
  BY StreamAssumption
<1>3. PICK k \in Int : k = ChunksPerTransfer - 2
  BY StreamAssumption
<1>4. total_rx_size = n * s
  BY <1>1, <1>2 DEF StreamTypeOK
<1>5. Limit = k * s
  BY <1>2, <1>3, StreamAssumption DEF Limit, RECV_SIZE
<1>6. ASSUME ~(n * s > k * s) PROVE n <= k
  <2>1. n * s \in Int /\ k * s \in Int
    OBVIOUS
  <2>2. k < n => ~(n <= k)
    OBVIOUS
  <2>3. k < n => k + 1 <= n
    OBVIOUS
  <2>4. k + 1 <= n => (k + 1) * s <= n * s
    BY TimesOrder
  <2>5. (k + 1) * s = k * s + s
    OBVIOUS
  <2> QED BY <1>6, <2>1, <2>3, <2>4, <2>5
<1> QED BY <1>1, <1>3, <1>4, <1>5, <1>6

\* The panda hands over a chunk.
LEMMA ChunkLeaves ==
  ASSUME TransfersInv, txfifo = <<>>, host.pc = "reading",
         NEW chunk \in ChunkSet, Len(chunk.units) <= Payload,
         chunk.number = can_read_buffer.number, txfifo' = <<chunk>>, filling' = <<>>,
         can_read_buffer' \in ChunkSet, Len(can_read_buffer'.units) < Payload,
         can_read_buffer'.number = (IF IsFull(chunk) THEN can_read_buffer.number + 1 ELSE 0),
         can_read_buffer'.number = 0 => can_read_buffer'.units = <<>>,
         total_rx_size' = can_read_buffer'.number * (Payload + 1),
         owed' \in Seq(Packets), UNCHANGED <<hostVars, writeVars>>
  PROVE  /\ StreamTypeOK' /\ PandaInv' /\ TransferInv' /\ WriteInv'
         /\ Started' <=> Started
<1>1. UNCHANGED <<host, comms_healthy, broken, can_write_buffer, sent>>
  BY DEF hostVars, writeVars
<1>2a. PICK n \in Nat : n = can_read_buffer.number
  BY StreamAssumption DEF TransfersInv, StreamTypeOK, ChunkSet
<1>2b. PICK chunks \in Seq(ChunkSet) : chunks = host.chunks
  BY DEF TransfersInv, StreamTypeOK, Transfers
<1>2c. PICK m : m = can_read_buffer'.number
  OBVIOUS
<1>2. n = can_read_buffer.number /\ m = can_read_buffer'.number /\ chunks = host.chunks
  BY <1>2a, <1>2b, <1>2c
<1>3. InSequence(n, chunks, <<>>)
  BY <1>2 DEF TransfersInv, TransferInv
<1>4. InSequence(m, chunks, <<chunk>>) /\ (FromStart(m, chunks, <<chunk>>) <=> FromStart(n, chunks, <<>>))
  <2>1. m = IF IsFull(chunk) THEN n + 1 ELSE 0
    BY <1>2
  <2>2. chunk.number = n
    BY <1>2
  <2> QED BY <1>3, <2>1, <2>2, SequenceSends
<1>5. Started' <=> Started
  BY <1>1, <1>2, <1>4 DEF Started
<1>6. TransferInv'
  BY <1>1, <1>2, <1>4 DEF TransferInv
<1>7. PandaInv'
  BY DEF PandaInv
<1>8. WriteInv'
  BY <1>1 DEF TransfersInv, WriteInv
<1>9. StreamTypeOK'
  <2>1. <<chunk>> \in Fifos /\ <<>> \in Fifos
    BY FifoType DEF Fifos
  <2> QED BY <1>1, <2>1 DEF TransfersInv, StreamTypeOK
<1> QED BY <1>5, <1>6, <1>7, <1>8, <1>9

\* The panda goes on filling a chunk.
LEMMA ChunkFills ==
  ASSUME TransfersInv, txfifo = <<>>, host.pc = "reading",
         NEW chunk \in ChunkSet, Len(chunk.units) <= Payload,
         chunk.number = can_read_buffer.number, can_read_buffer.number <= ChunksPerTransfer - 2,
         filling' = <<chunk>>, can_read_buffer' = Chunk(can_read_buffer.number, <<>>),
         owed' \in Seq(Packets), UNCHANGED <<total_rx_size, txfifo, hostVars, writeVars>>
  PROVE  /\ StreamTypeOK' /\ PandaInv' /\ TransferInv' /\ WriteInv'
         /\ Started' <=> Started
<1>1. UNCHANGED <<host, comms_healthy, broken, can_write_buffer, sent>>
  BY DEF hostVars, writeVars
<1>2. PICK n : n = can_read_buffer.number /\ n \in 0..(ChunksPerTransfer - 1)
  BY DEF TransfersInv, StreamTypeOK, ChunkSet
<1>3. /\ can_read_buffer' \in ChunkSet /\ can_read_buffer'.number = n
      /\ can_read_buffer'.units = <<>> /\ Len(can_read_buffer'.units) < Payload
  <2>1. <<>> \in Seq(Unit) /\ Len(<<>>) < Payload
    BY StreamAssumption
  <2> QED BY <1>2, <2>1 DEF Chunk, ChunkSet
<1>4. Started' <=> Started
  BY <1>1, <1>2, <1>3 DEF Started
<1>5. TransferInv'
  BY <1>1, <1>2, <1>3 DEF TransfersInv, TransferInv
<1>6. <<chunk>> \in Fifos /\ <<chunk>>[1] = chunk
  BY FifoType
<1>7. PandaInv'
  BY <1>1, <1>2, <1>3, <1>6 DEF PandaInv
<1>8. WriteInv'
  BY <1>1 DEF TransfersInv, WriteInv
<1>9. StreamTypeOK'
  BY <1>1, <1>2, <1>3, <1>6 DEF TransfersInv, StreamTypeOK
<1> QED BY <1>4, <1>5, <1>7, <1>8, <1>9

\* The panda begins a chunk, or ends the transfer at its limit.
LEMMA InTokenStep == ASSUME TransfersInv, InToken PROVE TransfersInv'
<1>1. StreamTypeOK /\ ContentInv /\ txfifo = <<>> /\ filling = <<>> /\ host.pc = "reading"
  BY DEF InToken, TransfersInv, NotFilling
<1>2. UNCHANGED <<hostVars, writeVars, owed, broken, comms_healthy>>
  BY DEF InToken, hostVars
<1>3. PICK n, units : n = can_read_buffer.number /\ units = can_read_buffer.units
  OBVIOUS
<1>4. /\ n \in 0..(ChunksPerTransfer - 1) /\ n \in Nat /\ units \in Seq(Unit) /\ Len(units) < Payload
      /\ owed \in Seq(Packets)
  BY <1>1, <1>3, StreamAssumption DEF StreamTypeOK, ChunkSet
<1>5. Take(units) = units /\ Drop(units) = <<>>
  BY <1>4, TakeDrop
<1>6. PICK chunk : chunk = Chunk(n, units)
  OBVIOUS
<1>7. chunk \in ChunkSet /\ chunk.number = n /\ chunk.units = units /\ Len(chunk.units) <= Payload
  BY <1>4, <1>6, StreamAssumption DEF ChunkSet, Chunk
<1>8. ~IsFull(chunk)
  BY <1>4, <1>7, StreamAssumption DEF IsFull
<1>9. ReadFlow /\ (StreamTypeOK' => ReadFlow')
  BY <1>1, FlowInFlight, PTL
<1>10. UnitsIn(<<>>) = <<>> /\ UnitsIn(<<chunk>>) = units
  BY <1>7, FifoType DEF UnitsIn
<1>11. PICK bytes \in Seq(Unit) : bytes = Bytes(host.chunks) /\ bytes = Bytes(host.chunks)'
  BY <1>2, <1>9 DEF ReadFlow, hostVars
<1>12. InFlight = Flow(bytes, <<>>, <<>>, units)
  BY <1>1, <1>3, <1>9, <1>10, <1>11 DEF ReadFlow
<1>13. CASE total_rx_size > Limit
  <2>1. Finish(chunk, 0, 0, <<>>)
    BY <1>3, <1>5, <1>6, <1>13 DEF InToken
  <2>2. /\ txfifo' = <<chunk>> /\ filling' = <<>>
        /\ can_read_buffer' = Chunk(0, <<>>) /\ total_rx_size' = 0
    <3>1. Append(<<>>, chunk) = <<chunk>>
      OBVIOUS
    <3> QED BY <1>1, <2>1, <3>1 DEF Finish, NotFilling
  <2>3. /\ can_read_buffer' \in ChunkSet /\ can_read_buffer'.number = 0 /\ can_read_buffer'.units = <<>>
        /\ Len(can_read_buffer'.units) < Payload /\ total_rx_size' = can_read_buffer'.number * (Payload + 1)
    <3>1. <<>> \in Seq(Unit) /\ Len(<<>>) = 0 /\ 0 \in 0..(ChunksPerTransfer - 1) /\ 0 < Payload
           /\ 0 * (Payload + 1) = 0
      BY StreamAssumption
    <3> QED BY <2>2, <3>1 DEF Chunk, ChunkSet
  <2>4. StreamTypeOK' /\ PandaInv' /\ TransferInv' /\ WriteInv' /\ (Started' <=> Started)
    BY <1>1, <1>2, <1>3, <1>4, <1>7, <1>8, <2>2, <2>3, ChunkLeaves
  <2>5. InFlight' = Flow(bytes, units, <<>>, <<>>)
    BY <1>9, <1>10, <1>11, <2>2, <2>3, <2>4 DEF ReadFlow
  <2>6. InFlight' = InFlight
    BY <1>4, <1>12, <2>5, FlowMoves
  <2>7. ContentInv'
    BY <1>1, <1>2, <2>4, <2>6, ContentKept
  <2> QED BY <2>4, <2>7 DEF TransfersInv
<1>14. CASE ~(total_rx_size > Limit)
  <2>1. /\ filling' = <<chunk>> /\ can_read_buffer' = Chunk(n, <<>>)
        /\ UNCHANGED <<total_rx_size, txfifo>>
    BY <1>3, <1>5, <1>6, <1>7, <1>14 DEF InToken
  <2>2. n <= ChunksPerTransfer - 2
    BY <1>1, <1>3, <1>14, LimitReached
  <2>3. StreamTypeOK' /\ PandaInv' /\ TransferInv' /\ WriteInv' /\ (Started' <=> Started)
    BY <1>1, <1>2, <1>3, <1>4, <1>7, <2>1, <2>2, ChunkFills
  <2>4. InFlight' = Flow(bytes, <<>>, units, <<>>)
    <3>1. can_read_buffer'.units = <<>>
      BY <2>1 DEF Chunk
    <3> QED BY <1>1, <1>9, <1>10, <1>11, <2>1, <2>3, <3>1 DEF ReadFlow
  <2>5. InFlight' = InFlight
    BY <1>4, <1>12, <2>4, FlowMoves
  <2>6. ContentInv'
    BY <1>1, <1>2, <2>3, <2>5, ContentKept
  <2> QED BY <2>3, <2>6 DEF TransfersInv
<1> QED BY <1>13, <1>14

\* The panda takes a packet from the queue, or ends the chunk.
LEMMA FillStep == ASSUME RingInv, TransfersInv, Fill PROVE TransfersInv'
<1>1. StreamTypeOK /\ ContentInv /\ PandaInv /\ filling # <<>>
  BY DEF Fill, TransfersInv, NotFilling
<1>2. UNCHANGED <<hostVars, writeVars, broken, comms_healthy>>
  BY DEF Fill, hostVars
<1>3. PICK chunk \in ChunkSet : Len(chunk.units) <= Payload /\ filling = <<chunk>>
       /\ filling[1] = chunk /\ UnitsIn(filling) = chunk.units
  BY <1>1, FifoCases DEF StreamTypeOK
<1>4. PICK n : n = can_read_buffer.number
  OBVIOUS
<1>5. PICK units : units = chunk.units
  OBVIOUS
<1>6. /\ n \in 0..(ChunksPerTransfer - 1) /\ n \in Nat /\ n <= ChunksPerTransfer - 2
      /\ chunk.number = n /\ can_read_buffer.units = <<>> /\ txfifo = <<>> /\ host.pc = "reading"
      /\ total_rx_size = n * (Payload + 1) /\ owed \in Seq(Packets)
  BY <1>1, <1>3, <1>4, StreamAssumption DEF StreamTypeOK, PandaInv, ChunkSet
<1>7. /\ units \in Seq(Unit) /\ Len(units) \in Nat /\ Len(units) <= Payload
      /\ Payload \in Nat \ {0} /\ chunk = Chunk(n, units)
  BY <1>3, <1>5, <1>6, StreamAssumption DEF ChunkSet, Chunk
<1>8. ReadFlow /\ (StreamTypeOK' => ReadFlow')
  BY <1>1, FlowInFlight, PTL
<1>9. PICK bytes \in Seq(Unit) : bytes = Bytes(host.chunks) /\ bytes = Bytes(host.chunks)'
  BY <1>2, <1>8 DEF ReadFlow, hostVars
<1>10. UnitsIn(<<>>) = <<>>
  BY DEF UnitsIn
<1>11. InFlight = Flow(bytes, <<>>, units, <<>>)
  BY <1>3, <1>5, <1>6, <1>8, <1>9, <1>10 DEF ReadFlow
<1>12. Number(n + 1) = n + 1 /\ n + 1 \in 0..(ChunksPerTransfer - 1)
  BY <1>6, NumberType, StreamAssumption
<1>13. n * (Payload + 1) + (Payload + 1) = (n + 1) * (Payload + 1)
  BY <1>6, <1>7
\* The chunk that leaves, and what is kept of the last packet.
<1>14. ASSUME NEW full \in ChunkSet, Len(full.units) <= Payload, full.number = n,
              NEW rest \in Seq(Unit), Len(rest) < Payload, ~IsFull(full) => rest = <<>>,
              Finish(full, Number(n + 1), total_rx_size + Size(full), rest),
              owed' \in Seq(Packets)
       PROVE  /\ StreamTypeOK' /\ PandaInv' /\ TransferInv' /\ WriteInv' /\ (Started' <=> Started)
              /\ InFlight' = Flow(bytes, full.units, <<>>, rest)
  <2>1. PICK m : m = IF IsFull(full) THEN n + 1 ELSE 0
    OBVIOUS
  <2>2. /\ txfifo' = <<full>> /\ filling' = <<>>
        /\ can_read_buffer' = Chunk(m, rest) /\ total_rx_size' = m * (Payload + 1)
    <3>1. Append(<<>>, full) = <<full>>
      OBVIOUS
    <3>2. IsFull(full) => Size(full) = Payload + 1
      BY DEF IsFull, Size
    <3>3. 0 * (Payload + 1) = 0
      BY <1>7
    <3>4. txfifo' = <<full>> /\ filling' = <<>>
      BY <1>6, <1>14, <3>1 DEF Finish, NotFilling
    <3>5. CASE IsFull(full)
      BY <1>6, <1>12, <1>13, <1>14, <2>1, <3>2, <3>4, <3>5 DEF Finish
    <3>6. CASE ~IsFull(full)
      BY <1>14, <2>1, <3>3, <3>4, <3>6 DEF Finish
    <3> QED BY <3>5, <3>6
  <2>3. /\ can_read_buffer' \in ChunkSet /\ can_read_buffer'.number = m /\ can_read_buffer'.units = rest
        /\ m = 0 => rest = <<>>
    <3>1. m \in 0..(ChunksPerTransfer - 1) /\ (m = 0 => ~IsFull(full))
      BY <1>6, <1>12, <2>1, StreamAssumption
    <3> QED BY <1>14, <2>2, <3>1 DEF Chunk, ChunkSet
  <2>4. TransfersInv
    OBVIOUS
  <2>5. StreamTypeOK' /\ PandaInv' /\ TransferInv' /\ WriteInv' /\ (Started' <=> Started)
    BY <1>2, <1>4, <1>6, <1>14, <2>1, <2>2, <2>3, <2>4, ChunkLeaves
  <2>6. UnitsIn(<<full>>) = full.units
    BY <1>14, FifoType
  <2>7. InFlight' = Flow(bytes, full.units, <<>>, rest)
    BY <1>8, <1>9, <1>10, <2>2, <2>3, <2>5, <2>6 DEF ReadFlow
  <2> QED BY <2>5, <2>7
<1> DEFINE room == Payload - Len(units)
\* The chunk leaves as it is.
<1>15. ASSUME Finish(chunk, Number(n + 1), total_rx_size + Size(chunk), <<>>), owed' = owed
       PROVE  TransfersInv'
  <2>1. <<>> \in Seq(Unit) /\ Len(<<>>) < Payload
    BY <1>7
  <2>2. /\ StreamTypeOK' /\ PandaInv' /\ TransferInv' /\ WriteInv' /\ (Started' <=> Started)
        /\ InFlight' = Flow(bytes, chunk.units, <<>>, <<>>)
    BY <1>3, <1>6, <1>14, <1>15, <2>1
  <2>3. InFlight' = InFlight
    BY <1>5, <1>7, <1>11, <2>2, FlowMoves
  <2>4. ContentInv'
    BY <1>1, <1>2, <1>15, <2>2, <2>3, ContentKept
  <2> QED BY <2>2, <2>4 DEF TransfersInv
<1>16. CASE room = 0
       /\ Finish(chunk, Number(n + 1), total_rx_size + Size(chunk), can_read_buffer.units) /\ owed' = owed
  BY <1>6, <1>15, <1>16
<1>17. CASE room > 0 /\ Finish(chunk, Number(n + 1), total_rx_size + Size(chunk), <<>>) /\ owed' = owed
  BY <1>15, <1>17
<1>18. ASSUME room > 0, w_ptr # r_ptr, owed' = Append(owed, elems[r_ptr]),
              NEW more, IsConcat(more, units, Units(elems[r_ptr])),
              \/ /\ Len(more) <= Payload /\ filling' = <<Chunk(n, more)>>
                 /\ UNCHANGED <<can_read_buffer, total_rx_size, txfifo>>
              \/ /\ ~(Len(more) <= Payload)
                 /\ Finish(Chunk(n, Take(more)), Number(n + 1),
                           total_rx_size + Size(Chunk(n, Take(more))), Drop(more))
       PROVE  TransfersInv'
  <2>1. PICK x \in Packets : x = elems[r_ptr]
    BY <1>18, PopsPacket
  <2>2. /\ Units(x) \in Seq(Unit) /\ Len(Units(x)) = Length[x] /\ Length[x] \in Nat /\ Length[x] <= Payload
        /\ Len(units) < Payload
    BY <1>7, <1>18, UnitsType
  <2>3. more \in Seq(Unit) /\ Len(more) = Len(units) + Len(Units(x)) /\ IsConcat(more, units, Units(x))
    <3>1. more = units \o Units(x)
      BY <1>18, <2>1 DEF IsConcat
    <3>2. units \o Units(x) \in Seq(Unit) /\ Len(units \o Units(x)) = Len(units) + Len(Units(x))
      BY <1>7, <2>2, ConcatProperties
    <3> QED BY <1>18, <2>1, <3>1, <3>2
  <2>4. IsConcat(Flow(bytes, <<>>, more, <<>>), Flow(bytes, <<>>, units, <<>>), Units(x))
    BY <1>7, <2>2, <2>3, FlowTakes
  <2>5. owed' = Append(owed, x) /\ owed' \in Seq(Packets)
    BY <1>6, <1>18, <2>1
  <2>6. ASSUME InFlight' = Flow(bytes, <<>>, more, <<>>), Started' <=> Started PROVE ContentInv'
    <3>1. IsConcat(InFlight', InFlight, Units(x))
      BY <1>11, <2>4, <2>6
    <3> QED BY <1>1, <1>2, <1>6, <2>5, <2>6, <3>1, ContentGrows
  <2>7. CASE /\ Len(more) <= Payload /\ filling' = <<Chunk(n, more)>>
             /\ UNCHANGED <<can_read_buffer, total_rx_size, txfifo>>
    <3>1. PICK next : next = Chunk(n, more)
      OBVIOUS
    <3>2. next \in ChunkSet /\ next.number = n /\ next.units = more /\ Len(next.units) <= Payload
      BY <1>6, <2>3, <2>7, <3>1 DEF ChunkSet, Chunk
    <3>3. can_read_buffer' = Chunk(n, <<>>)
      BY <1>1, <1>4, <1>6, <2>7 DEF StreamTypeOK, ChunkSet, Chunk
    <3>4. filling' = <<next>> /\ UNCHANGED <<total_rx_size, txfifo>>
      BY <2>7, <3>1
    <3>5. TransfersInv
      OBVIOUS
    <3>6. StreamTypeOK' /\ PandaInv' /\ TransferInv' /\ WriteInv' /\ (Started' <=> Started)
      BY <1>2, <1>4, <1>6, <2>5, <3>2, <3>3, <3>4, <3>5, ChunkFills
    <3>7. UnitsIn(<<next>>) = more
      BY <3>2, FifoType
    <3>8. InFlight' = Flow(bytes, <<>>, more, <<>>)
      BY <1>6, <1>8, <1>9, <1>10, <2>7, <3>4, <3>6, <3>7 DEF ReadFlow
    <3> QED BY <2>6, <3>6, <3>8 DEF TransfersInv
  <2>8. CASE /\ ~(Len(more) <= Payload)
             /\ Finish(Chunk(n, Take(more)), Number(n + 1),
                       total_rx_size + Size(Chunk(n, Take(more))), Drop(more))
    <3>1. PICK full, rest, head : full = Chunk(n, head) /\ rest = Drop(more) /\ head = Take(more)
      OBVIOUS
    <3>2. /\ head \in Seq(Unit) /\ rest \in Seq(Unit) /\ Len(head) = Payload
          /\ Len(rest) = Len(more) - Payload /\ IsConcat(more, head, rest)
      <4>1. Len(more) >= Payload
        BY <1>7, <2>2, <2>3, <2>8
      <4> QED BY <2>3, <3>1, <4>1, TakeDrop
    <3>3. Len(rest) < Payload
      BY <1>7, <2>2, <2>3, <3>2
    <3>4. full \in ChunkSet /\ full.number = n /\ full.units = head
      BY <1>6, <3>1, <3>2 DEF ChunkSet, Chunk
    <3>5. IsFull(full) /\ Len(full.units) <= Payload
      BY <1>7, <3>2, <3>4 DEF IsFull
    <3>6. Finish(full, Number(n + 1), total_rx_size + Size(full), rest)
      BY <2>8, <3>1
    <3>7. /\ StreamTypeOK' /\ PandaInv' /\ TransferInv' /\ WriteInv' /\ (Started' <=> Started)
          /\ InFlight' = Flow(bytes, full.units, <<>>, rest)
      BY <1>14, <2>5, <3>2, <3>3, <3>4, <3>5, <3>6
    <3>8. Flow(bytes, head, <<>>, rest) = Flow(bytes, <<>>, more, <<>>)
      BY <3>2, FlowCuts
    <3> QED BY <2>6, <3>4, <3>7, <3>8 DEF TransfersInv
  <2> QED BY <1>18, <2>7, <2>8
<1>19. CASE room > 0 /\ w_ptr # r_ptr /\ can_pop
            /\ owed' = Append(owed, elems[r_ptr])
            /\ IF Len(units \o Units(elems[r_ptr])) <= Payload
               THEN /\ filling' = <<Chunk(n, units \o Units(elems[r_ptr]))>>
                    /\ UNCHANGED <<can_read_buffer, total_rx_size, txfifo>>
               ELSE Finish(Chunk(n, Take(units \o Units(elems[r_ptr]))), Number(n + 1),
                           total_rx_size + Size(Chunk(n, Take(units \o Units(elems[r_ptr])))),
                           Drop(units \o Units(elems[r_ptr])))
  <2>1. PICK more : more = units \o Units(elems[r_ptr])
    OBVIOUS
  <2>2. IsConcat(more, units, Units(elems[r_ptr]))
    BY <2>1 DEF IsConcat
  <2>3. \/ /\ Len(more) <= Payload /\ filling' = <<Chunk(n, more)>>
           /\ UNCHANGED <<can_read_buffer, total_rx_size, txfifo>>
        \/ /\ ~(Len(more) <= Payload)
           /\ Finish(Chunk(n, Take(more)), Number(n + 1),
                     total_rx_size + Size(Chunk(n, Take(more))), Drop(more))
    BY <1>19, <2>1, Zenon
  <2> QED BY <1>18, <1>19, <2>2, <2>3
<1>20. \/ /\ room = 0
          /\ Finish(chunk, Number(n + 1), total_rx_size + Size(chunk), can_read_buffer.units) /\ owed' = owed
       \/ room > 0 /\ Finish(chunk, Number(n + 1), total_rx_size + Size(chunk), <<>>) /\ owed' = owed
       \/ /\ room > 0 /\ w_ptr # r_ptr /\ can_pop
          /\ owed' = Append(owed, elems[r_ptr])
          /\ IF Len(units \o Units(elems[r_ptr])) <= Payload
             THEN /\ filling' = <<Chunk(n, units \o Units(elems[r_ptr]))>>
                  /\ UNCHANGED <<can_read_buffer, total_rx_size, txfifo>>
             ELSE Finish(Chunk(n, Take(units \o Units(elems[r_ptr]))), Number(n + 1),
                         total_rx_size + Size(Chunk(n, Take(units \o Units(elems[r_ptr])))),
                         Drop(units \o Units(elems[r_ptr])))
  BY <1>3, <1>5, <1>6, Zenon DEF Fill
<1> QED BY <1>16, <1>17, <1>19, <1>20

\* A transfer that was fetched from its start is numbered from 0.
LEMMA ChunksInOrder ==
  ASSUME StreamTypeOK, TransferInv, Started
  PROVE  InOrder(Chunks)
<1>1. ReadFlow
  BY FlowInFlight
<1>2. PICK chunks \in Seq(ChunkSet), fifo \in Fifos, n \in Nat : chunks = host.chunks /\ fifo = txfifo
       /\ n = can_read_buffer.number
  BY StreamAssumption DEF StreamTypeOK, Transfers, ChunkSet
<1>3. PICK k \in Nat : k = Len(chunks)
  OBVIOUS
<1>4. FromStart(n, chunks, fifo) /\ InSequence(n, chunks, fifo)
  BY <1>2 DEF Started, TransferInv
<1>5. PICK u : u = Underway(chunks, fifo)
  OBVIOUS
<1>6. u = NumberAfter(n, fifo) /\ u \in Nat /\ u = k + Len(fifo) /\ Len(fifo) \in 0..1
  BY <1>3, <1>4, <1>5, FifoCases DEF FromStart, Underway
<1>7. \A i \in 1..k : chunks[i].number = i - 1
  BY <1>3, <1>4, <1>5, <1>6 DEF InSequence
<1>8. CASE Chunks = chunks
  BY <1>3, <1>7, <1>8 DEF InOrder
<1>9. CASE fifo # <<>> /\ Chunks = Append(chunks, fifo[1])
  <2>1. PICK c \in ChunkSet : c = fifo[1]
    BY <1>9, FifoCases
  <2>2. c.number = k
    <3>1. Len(fifo) = 1
      BY <1>9, FifoCases
    <3> QED BY <1>4, <1>6, <1>9, <2>1, <3>1 DEF InSequence
  <2>3. PICK more : more = Append(chunks, c)
    OBVIOUS
  <2>4. /\ DOMAIN more = 1..(k + 1) /\ \A i \in 1..k : more[i] = chunks[i]
        /\ more[k + 1] = c
    BY <1>3, <2>3, AppendProperties
  <2>5. \A i \in 1..(k + 1) : more[i].number = i - 1
    <3> TAKE i \in 1..(k + 1)
    <3>1. i \in 1..k \/ i = k + 1
      OBVIOUS
    <3> QED BY <1>7, <2>2, <2>4, <3>1
  <2>6. Chunks = more
    BY <1>9, <2>1, <2>3
  <2> QED BY <2>4, <2>5, <2>6 DEF InOrder
<1> QED BY <1>1, <1>2, <1>8, <1>9 DEF ReadFlow

\* A transfer ends with a chunk that is not full, and only with one: the panda ends it
\* before RECV_SIZE is reached.
LEMMA EndsNotFull ==
  ASSUME TransfersInv, txfifo # <<>>
  PROVE  /\ Ends <=> ~IsFull(txfifo[1])
         /\ Ends <=> can_read_buffer.number = 0
         /\ can_read_buffer.number \in Nat
<1>1. ReadFlow /\ StreamTypeOK
  BY FlowInFlight DEF TransfersInv
<1>2. PICK chunks \in Seq(ChunkSet), fifo \in Fifos : chunks = host.chunks /\ fifo = txfifo
  BY <1>1 DEF StreamTypeOK, Transfers
<1>3. PICK n \in 0..(ChunksPerTransfer - 1) : n = can_read_buffer.number
  BY <1>1 DEF StreamTypeOK, ChunkSet
<1>4. InSequence(n, chunks, fifo)
  BY <1>2, <1>3 DEF TransfersInv, TransferInv
<1>5. PICK t \in ChunkSet : t = fifo[1] /\ Len(fifo) = 1 /\ (IsFull(t) <=> n > 0)
  BY <1>2, <1>4, FifoCases DEF InSequence
<1>6. ASSUME IsFull(t) PROVE Len(Chunks) # ChunksPerTransfer
  <2>1. t.units # <<>>
    <3>1. Len(t.units) = Payload /\ Payload > 0
      BY <1>6, StreamAssumption DEF IsFull
    <3>2. Len(<<>>) = 0
      OBVIOUS
    <3> QED BY <3>1, <3>2
  <2>2. Chunks = Append(chunks, t)
    BY <1>1, <1>2, <1>5, <2>1 DEF ReadFlow
  <2>3. Len(Chunks) = Len(chunks) + 1 /\ Len(chunks) \in Nat
    BY <2>2
  <2>4. NumberAfter(n, fifo) = n
    BY <1>5, <1>6 DEF NumberAfter
  <2>5. Len(chunks) + 1 <= n
    BY <1>4, <1>5, <2>4 DEF InSequence, Underway
  <2> QED BY <2>3, <2>5, StreamAssumption
<1>7. Ends <=> ~IsFull(t)
  BY <1>2, <1>5, <1>6 DEF Ends
<1> QED BY <1>2, <1>3, <1>5, <1>7, StreamAssumption

\* At the end of a transfer what is in flight is what the host has fetched.
LEMMA EndFlow ==
  ASSUME TransfersInv, txfifo # <<>>, Ends
  PROVE  InFlight = Bytes(Chunks)
<1>1. ReadFlow /\ PandaInv
  BY FlowInFlight DEF TransfersInv
<1>2. filling = <<>> /\ can_read_buffer.units = <<>>
  BY <1>1, EndsNotFull DEF PandaInv
<1>3. PICK a \in Seq(Unit), t \in Seq(Unit) : a = Bytes(host.chunks) /\ t = UnitsIn(txfifo)
  BY <1>1 DEF ReadFlow
<1>4. UnitsIn(filling) = <<>>
  BY <1>2 DEF UnitsIn
<1>5. InFlight = Flow(a, t, <<>>, <<>>)
  BY <1>1, <1>2, <1>3, <1>4 DEF ReadFlow
<1>6. IsConcat(Flow(a, t, <<>>, <<>>), a, t)
  BY FlowMoves
<1>7. IsConcat(Bytes(Chunks), a, t)
  BY <1>1, <1>3 DEF ReadFlow
<1> QED BY <1>5, <1>6, <1>7, Zenon DEF IsConcat

\* What the host accepts is whole packets.
LEMMA EndsWhole ==
  ASSUME TransfersInv, txfifo # <<>>, Ends, InOrder(Chunks)
  PROVE  \E list \in Seq(Packets) : Split(Bytes(Chunks)) = [packets |-> list, rest |-> <<>>]
<1>1. ReadFlow /\ StreamTypeOK
  BY FlowInFlight DEF TransfersInv
<1>2. CASE Started
  <2>1. PICK list \in Seq(Packets) : InFlight = UnitsOf(list)
    BY <1>2 DEF TransfersInv, ContentInv
  <2>2. Bytes(Chunks) = UnitsOf(list)
    BY <2>1, EndFlow
  <2> QED BY <2>2, SplitUnitsOf
<1>3. CASE ~Started
  <2>1. PICK chunks \in Seq(ChunkSet), fifo \in Fifos, n \in Nat : chunks = host.chunks /\ fifo = txfifo
         /\ n = can_read_buffer.number
    BY <1>1, StreamAssumption DEF StreamTypeOK, Transfers, ChunkSet
  <2>2. PICK t \in ChunkSet : t = fifo[1] /\ Len(fifo) = 1
    BY <2>1, FifoCases
  <2>3. InSequence(n, chunks, fifo) /\ ~FromStart(n, chunks, fifo)
    BY <1>3, <2>1 DEF Started, TransfersInv, TransferInv
  <2>4. PICK k \in Nat : k = Len(chunks) /\ Underway(chunks, fifo) = k + 1
    BY <2>2 DEF Underway
  <2>5. NumberAfter(n, fifo) # k + 1 /\ n = 0 /\ NumberAfter(n, fifo) = t.number + 1 /\ t.number \in Nat
    <3>1. n = 0
      BY <2>1, EndsNotFull
    <3> QED BY <2>1, <2>2, <2>3, <2>4, <3>1, StreamAssumption DEF FromStart, NumberAfter, ChunkSet
  <2>6. chunks = <<>>
    <3> SUFFICES ASSUME chunks # <<>> PROVE FALSE
      OBVIOUS
    <3>1. k > 0
      BY <2>4, EmptySeq
    <3>2. chunks[1].number = NumberAfter(n, fifo) - (k + 1)
      BY <2>3, <2>4, <2>5, <3>1 DEF InSequence
    <3>3. 1 \in DOMAIN Chunks /\ Chunks[1] = chunks[1]
      <4>1. CASE Chunks = chunks
        BY <2>4, <3>1, <4>1
      <4>2. CASE Chunks = Append(chunks, t)
        BY <2>4, <3>1, <4>2, AppendProperties
      <4> QED BY <1>1, <2>1, <2>2, <4>1, <4>2 DEF ReadFlow
    <3>4. chunks[1].number = 0
      BY <3>3 DEF InOrder
    <3> QED BY <2>5, <3>2, <3>4
  <2>7. t.units = <<>>
    <3> SUFFICES ASSUME t.units # <<>> PROVE FALSE
      OBVIOUS
    <3>1. Chunks = Append(<<>>, t)
      BY <1>1, <2>1, <2>2, <2>6 DEF ReadFlow
    <3>2. 1 \in DOMAIN Chunks /\ Chunks[1] = t
      BY <3>1
    <3>3. t.number = 0 /\ k = 0
      BY <2>4, <2>6, <3>2 DEF InOrder
    <3> QED BY <2>5, <3>3
  <2>8. Chunks = <<>>
    BY <1>1, <2>1, <2>2, <2>6, <2>7 DEF ReadFlow
  <2>9. Split(Bytes(Chunks)) = [packets |-> <<>>, rest |-> <<>>]
    BY <2>8, BytesEmpty, SplitEmpty DEF NothingYet
  <2>10. <<>> \in Seq(Packets)
    OBVIOUS
  <2> QED BY <2>9, <2>10
<1> QED BY <1>2, <1>3

\* What is accepted is taken off what is owed.
LEMMA UnpackType ==
  ASSUME NEW chunks \in Seq(ChunkSet), owed \in Seq(Packets), Unpack(chunks)
  PROVE  comms_healthy' \in BOOLEAN /\ owed' \in Seq(Packets)
<1>1. PICK packets \in Seq(Elements) : packets = Split(Bytes(chunks)).packets
  <2>1. Bytes(chunks) \in Seq(Unit)
    BY BytesType
  <2> QED BY <2>1, SplitType, SplitFields
<1>2. owed' = IF comms_healthy /\ InOrder(chunks) THEN SubSeq(owed, Len(packets) + 1, Len(owed)) ELSE <<>>
  BY <1>1 DEF Unpack
<1>3. SubSeq(owed, Len(packets) + 1, Len(owed)) \in Seq(Packets) /\ <<>> \in Seq(Packets)
  <2>1. Len(packets) \in Nat
    BY <1>1
  <2> QED BY <2>1
<1>4. comms_healthy' \in BOOLEAN
  BY DEF Unpack, InOrder
<1> QED BY <1>2, <1>3, <1>4

\* The host fetches a chunk and, when it is the last, unpacks them.
LEMMA FetchStep == ASSUME TransfersInv, Fetch PROVE TransfersInv'
<1>1. /\ host.pc = "reading" /\ txfifo # <<>> /\ txfifo' = Tail(txfifo)
      /\ UNCHANGED <<can_read_buffer, total_rx_size, filling, broken, can_write_buffer, sent>>
      /\ StreamTypeOK /\ PandaInv /\ TransferInv /\ ContentInv
  BY DEF Fetch, TransfersInv, writeVars
<1>2. ReadFlow /\ (StreamTypeOK' => ReadFlow')
  BY <1>1, FlowInFlight, PTL
<1>3. PICK chunks \in Seq(ChunkSet), n \in 0..(ChunksPerTransfer - 1) : chunks = host.chunks
       /\ n = can_read_buffer.number
  BY <1>1 DEF StreamTypeOK, Transfers, ChunkSet
<1>4. PICK t \in ChunkSet : txfifo = <<t>> /\ t = txfifo[1] /\ UnitsIn(txfifo) = t.units
  BY <1>1, FifoCases DEF StreamTypeOK
<1>5. txfifo' = <<>> /\ <<>> \in Fifos /\ filling = <<>> /\ UnitsIn(<<>>) = <<>>
  <2>1. Tail(<<t>>) = <<>>
    OBVIOUS
  <2> QED BY <1>1, <1>4, <2>1 DEF PandaInv, Fifos, UnitsIn
<1>6. InSequence(n, chunks, <<t>>) /\ n \in Nat
  BY <1>1, <1>3, <1>4, StreamAssumption DEF TransferInv
<1>7. PICK a \in Seq(Unit), units \in Seq(Unit), rest \in Seq(Unit) :
        a = Bytes(chunks) /\ units = t.units /\ rest = can_read_buffer.units
  BY <1>2, <1>3, <1>4 DEF ReadFlow
<1>8. InFlight = Flow(a, units, <<>>, rest)
  BY <1>2, <1>3, <1>4, <1>5, <1>7 DEF ReadFlow
<1>9. CASE Ends
  <2>1. n = 0 /\ rest = <<>>
    BY <1>1, <1>3, <1>7, <1>9, EndsNotFull DEF PandaInv
  <2>2. Unpack(Chunks) /\ host' = HostIdle
    BY <1>9 DEF Fetch
  <2>3. host' \in Transfers /\ host'.pc = "idle" /\ host'.chunks = <<>>
    BY <2>2, HostIdleType
  <2>4. PICK packets \in Seq(Elements) : packets = Split(Bytes(Chunks)).packets
    <3>1. Bytes(Chunks) \in Seq(Unit)
      BY <1>2, BytesType DEF ReadFlow
    <3> QED BY <3>1, SplitType, SplitFields
  <2>5. owed' = IF comms_healthy /\ InOrder(Chunks) THEN SubSeq(owed, Len(packets) + 1, Len(owed)) ELSE <<>>
    BY <2>2, <2>4 DEF Unpack
  <2>6. comms_healthy' \in BOOLEAN /\ owed' \in Seq(Packets)
    <3>1. Chunks \in Seq(ChunkSet) /\ owed \in Seq(Packets)
      BY <1>1, <1>2 DEF ReadFlow, StreamTypeOK
    <3> QED BY <2>2, <3>1, UnpackType
  <2>8. StreamTypeOK'
    BY <1>1, <1>5, <2>3, <2>6 DEF StreamTypeOK
  <2>9. PandaInv' /\ WriteInv'
    BY <1>1, <1>5, <2>3 DEF PandaInv, WriteInv
  <2>10. TransferInv' /\ Started'
    BY <1>1, <1>3, <1>5, <2>1, <2>3, SequenceEmpty DEF TransferInv, Started
  <2>11. InFlight' = <<>>
    <3>1. <<>> \in Seq(Unit)
      OBVIOUS
    <3>2. Flow(<<>>, <<>>, <<>>, <<>>) = <<>>
      BY <3>1, FlowMoves
    <3> QED BY <1>1, <1>2, <1>5, <1>7, <2>1, <2>3, <2>8, <3>2, BytesEmpty DEF ReadFlow
  <2>12. ContentInv'
    <3>1. <<>> \in Seq(Packets)
      OBVIOUS
    <3>2. ASSUME ~broken' PROVE comms_healthy' /\ owed' = <<>>
      <4>1. comms_healthy /\ Started /\ InFlight = UnitsOf(owed) /\ owed \in Seq(Packets)
        BY <1>1, <3>2 DEF ContentInv, StreamTypeOK
      <4>2. InOrder(Chunks)
        BY <1>1, <4>1, ChunksInOrder
      <4>3. PICK list \in Seq(Packets) : list = owed
        BY <4>1
      <4>4. Bytes(Chunks) = UnitsOf(list)
        BY <1>1, <1>9, <4>1, <4>3, EndFlow
      <4>5. packets = list
        BY <2>4, <4>4, SplitUnitsOf
      <4>6. SubSeq(list, Len(list) + 1, Len(list)) = <<>>
        OBVIOUS
      <4> QED BY <2>2, <2>5, <4>1, <4>2, <4>3, <4>5, <4>6 DEF Unpack
    <3> QED BY <2>10, <2>11, <3>1, <3>2, UnitsOfEmpty DEF ContentInv
  <2> QED BY <2>8, <2>9, <2>10, <2>12 DEF TransfersInv
<1>10. CASE ~Ends
  <2>1. n > 0 /\ IsFull(t)
    BY <1>1, <1>3, <1>4, <1>10, EndsNotFull
  <2>2. t.units # <<>>
    <3>1. Len(t.units) = Payload /\ Payload > 0
      BY <2>1, StreamAssumption DEF IsFull
    <3>2. Len(<<>>) = 0
      OBVIOUS
    <3> QED BY <3>1, <3>2
  <2>3. PICK more \in Seq(ChunkSet) : more = Chunks /\ more = Append(chunks, t)
    BY <1>1, <1>2, <1>3, <1>4, <2>2 DEF ReadFlow
  <2>4. host \in Transfers /\ host' = [host EXCEPT !.chunks = more] /\ UNCHANGED <<comms_healthy, owed>>
    BY <1>1, <1>10, <2>3 DEF Fetch, StreamTypeOK
  <2>5. /\ host' \in Transfers /\ host'.pc = "reading" /\ host'.chunks = more
    BY <1>1, <2>4 DEF Transfers
  <2>6. StreamTypeOK'
    BY <1>1, <1>5, <2>4, <2>5 DEF StreamTypeOK
  <2>7. PandaInv' /\ WriteInv'
    BY <1>1, <1>5, <2>5 DEF PandaInv, WriteInv
  <2>8. InSequence(n, more, <<>>) /\ (FromStart(n, more, <<>>) <=> FromStart(n, chunks, <<t>>))
    BY <1>6, <2>1, <2>3, SequenceFetches
  <2>9. TransferInv' /\ (Started' <=> Started)
    BY <1>1, <1>3, <1>4, <1>5, <2>5, <2>8 DEF TransferInv, Started
  <2>10. InFlight' = InFlight
    <3>1. PICK w : w = Bytes(more) /\ IsConcat(w, a, units)
      BY <1>2, <1>3, <1>4, <1>7, <2>3 DEF ReadFlow
    <3>2. Flow(w, <<>>, <<>>, rest) = Flow(a, units, <<>>, rest)
      BY <3>1, FlowFetched
    <3>3. InFlight' = Flow(w, <<>>, <<>>, rest)
      BY <1>1, <1>2, <1>5, <1>7, <2>5, <2>6, <3>1 DEF ReadFlow
    <3> QED BY <1>8, <3>2, <3>3
  <2>11. ContentInv'
    BY <1>1, <2>4, <2>9, <2>10, ContentKept
  <2> QED BY <2>6, <2>7, <2>9, <2>11 DEF TransfersInv
<1> QED BY <1>9, <1>10

\* The host drops the chunks it has fetched, and the one that waits or not.
LEMMA ChunksLost ==
  ASSUME TransfersInv, host' \in Transfers, host'.chunks = <<>>, host'.pc # "writing",
         host'.pc = "reading" \/ filling = <<>>, txfifo' = <<>> \/ txfifo' = txfifo,
         comms_healthy' \in BOOLEAN, broken' \in BOOLEAN, owed' \in Seq(Packets),
         UNCHANGED <<can_read_buffer, total_rx_size, filling, can_write_buffer, sent>>
  PROVE  /\ StreamTypeOK' /\ PandaInv' /\ TransferInv' /\ WriteInv'
         /\ Started' => \E list \in Seq(Packets) : InFlight' = UnitsOf(list)
         /\ filling = <<>> /\ txfifo' = <<>> /\ can_read_buffer.number = 0 =>
              Started' /\ InFlight' = UnitsOf(<<>>)
<1>1. StreamTypeOK /\ PandaInv /\ TransferInv /\ ContentInv
  BY DEF TransfersInv
<1>2. ReadFlow /\ (StreamTypeOK' => ReadFlow')
  BY <1>1, FlowInFlight, PTL
<1>3. <<>> \in Fifos
  BY DEF Fifos
<1>4. PICK chunks \in Seq(ChunkSet), fifo \in Fifos, n \in Nat : chunks = host.chunks
       /\ fifo = txfifo /\ n = can_read_buffer.number
  BY <1>1, StreamAssumption DEF StreamTypeOK, Transfers, ChunkSet
<1>5. PICK left \in Fifos : left = txfifo' /\ (left = <<>> \/ left = fifo)
  BY <1>3, <1>4
<1>6. InSequence(n, chunks, fifo)
  BY <1>1, <1>4 DEF TransferInv
<1>7. /\ InSequence(n, <<>>, fifo) /\ InSequence(n, <<>>, <<>>)
      /\ FromStart(n, <<>>, <<>>) => n = 0
      /\ fifo # <<>> /\ FromStart(n, <<>>, fifo) => chunks = <<>>
  BY <1>6, SequenceRestarts
<1>8. StreamTypeOK'
  BY <1>1, <1>5 DEF StreamTypeOK
<1>9. TransferInv' /\ (Started' <=> FromStart(n, <<>>, left))
  BY <1>4, <1>5, <1>7 DEF TransferInv, Started
<1>10. PandaInv' /\ WriteInv'
  BY <1>1 DEF PandaInv, WriteInv
<1>11. UnitsIn(<<>>) = <<>> /\ Bytes(<<>>) = <<>> /\ <<>> \in Seq(Unit) /\ <<>> \in Seq(Packets)
  BY BytesEmpty DEF UnitsIn
<1>12. InFlight' = Flow(<<>>, UnitsIn(left), UnitsIn(filling), can_read_buffer.units)
  BY <1>2, <1>5, <1>8, <1>11 DEF ReadFlow
<1>13. ASSUME filling = <<>>, left = <<>>, n = 0
       PROVE  InFlight' = UnitsOf(<<>>) /\ FromStart(n, <<>>, left)
  <2>1. can_read_buffer.units = <<>>
    BY <1>1, <1>4, <1>13 DEF PandaInv
  <2>2. Flow(<<>>, <<>>, <<>>, <<>>) = <<>>
    BY <1>11, FlowMoves
  <2> QED BY <1>11, <1>12, <1>13, <2>1, <2>2, UnitsOfEmpty, SequenceEmpty
<1>14. ASSUME chunks = <<>>, left = fifo, FromStart(n, <<>>, left)
       PROVE  \E list \in Seq(Packets) : InFlight' = UnitsOf(list)
  <2>1. Started
    BY <1>4, <1>14 DEF Started
  <2>2. InFlight = Flow(<<>>, UnitsIn(left), UnitsIn(filling), can_read_buffer.units)
    BY <1>2, <1>4, <1>11, <1>14 DEF ReadFlow
  <2> QED BY <1>1, <1>12, <2>1, <2>2 DEF ContentInv
<1>15. ASSUME Started' PROVE \E list \in Seq(Packets) : InFlight' = UnitsOf(list)
  <2>1. CASE left = <<>> /\ filling = <<>>
    BY <1>7, <1>9, <1>11, <1>13, <1>15, <2>1
  <2>2. CASE left = <<>> /\ filling # <<>>
    <3>1. fifo = <<>> /\ n = 0
      BY <1>1, <1>4, <1>7, <1>9, <1>15, <2>2 DEF PandaInv
    <3>2. chunks = <<>>
      BY <1>6, <3>1 DEF InSequence
    <3> QED BY <1>9, <1>14, <1>15, <2>2, <3>1, <3>2
  <2>3. CASE left # <<>>
    BY <1>5, <1>7, <1>9, <1>14, <1>15, <2>3
  <2> QED BY <2>1, <2>2, <2>3
<1> QED BY <1>4, <1>5, <1>8, <1>9, <1>10, <1>13, <1>15

\* A new connection: it is whole unless a transfer is under way.
LEMMA ReconnectStep == ASSUME TransfersInv, NEW flush \in BOOLEAN, Reconnect(flush) PROVE TransfersInv'
<1>1. /\ filling = <<>> /\ host' = HostIdle /\ comms_healthy' = TRUE /\ owed' = <<>>
      /\ txfifo' = IF flush THEN <<>> ELSE txfifo
      /\ broken' = (txfifo' # <<>> \/ can_read_buffer.number # 0)
      /\ UNCHANGED <<can_read_buffer, total_rx_size, filling, can_write_buffer, sent>>
  BY DEF Reconnect, writeVars, NotFilling
<1>2. host' \in Transfers /\ host'.pc = "idle" /\ host'.chunks = <<>>
  BY <1>1, HostIdleType
<1>3. <<>> \in Seq(Packets)
  OBVIOUS
<1>4. /\ StreamTypeOK' /\ PandaInv' /\ TransferInv' /\ WriteInv'
      /\ Started' => \E list \in Seq(Packets) : InFlight' = UnitsOf(list)
      /\ txfifo' = <<>> /\ can_read_buffer.number = 0 => Started' /\ InFlight' = UnitsOf(<<>>)
  BY <1>1, <1>2, <1>3, ChunksLost
<1>5. ContentInv'
  BY <1>1, <1>4 DEF ContentInv
<1> QED BY <1>4, <1>5 DEF TransfersInv

\* A failed read: unless the connection is broken by it, nothing was lost.
LEMMA ReadFailsStep ==
  ASSUME TransfersInv, NEW overflow \in BOOLEAN, NEW atHand \in BOOLEAN, ReadFails(overflow, atHand)
  PROVE  TransfersInv'
<1>1. /\ host.pc = "reading" /\ host' = [host EXCEPT !.chunks = <<>>]
      /\ txfifo' = IF atHand THEN <<>> ELSE txfifo
      /\ comms_healthy' = (comms_healthy /\ ~overflow)
      /\ broken' = (broken \/ overflow \/ host.chunks # <<>> \/ txfifo' # txfifo)
      /\ owed' = IF broken' THEN <<>> ELSE owed
      /\ UNCHANGED <<can_read_buffer, total_rx_size, filling, can_write_buffer, sent>>
      /\ StreamTypeOK /\ ContentInv
  BY DEF ReadFails, TransfersInv, writeVars
<1>2. <<>> \in Seq(Packets) /\ <<>> \in Seq(ChunkSet)
  OBVIOUS
<1>3. host' \in Transfers /\ host'.pc = "reading" /\ host'.chunks = <<>>
  BY <1>1, <1>2 DEF StreamTypeOK, Transfers
<1>4. comms_healthy' \in BOOLEAN /\ broken' \in BOOLEAN /\ owed' \in Seq(Packets)
  BY <1>1, <1>2 DEF StreamTypeOK
<1>5. /\ StreamTypeOK' /\ PandaInv' /\ TransferInv' /\ WriteInv'
      /\ Started' => \E list \in Seq(Packets) : InFlight' = UnitsOf(list)
  BY <1>1, <1>3, <1>4, ChunksLost
<1>6. ASSUME ~broken' PROVE comms_healthy' /\ Started' /\ InFlight' = UnitsOf(owed')
  <2>1. /\ ~broken /\ ~overflow /\ host.chunks = <<>> /\ txfifo' = txfifo /\ owed' = owed
    BY <1>1, <1>6
  <2>2. InFlight' = InFlight /\ (Started' <=> Started)
    BY <1>1, <1>3, <2>1 DEF InFlight, Chunks, Started
  <2> QED BY <1>1, <2>1, <2>2 DEF ContentInv
<1>7. ContentInv'
  BY <1>5, <1>6 DEF ContentInv
<1> QED BY <1>5, <1>7 DEF TransfersInv

\* The panda is lost: the connection is broken.
LEMMA ReadLostStep == ASSUME TransfersInv, ReadLost PROVE TransfersInv'
<1>1. /\ filling = <<>> /\ host' = [HostIdle EXCEPT !.pc = "gone"] /\ Unpack(host.chunks) /\ broken' = TRUE
      /\ UNCHANGED <<can_read_buffer, total_rx_size, filling, txfifo, can_write_buffer, sent>>
      /\ StreamTypeOK
  BY DEF ReadLost, TransfersInv, readVars, writeVars, NotFilling
<1>2. host' \in Transfers /\ host'.pc = "gone" /\ host'.chunks = <<>>
  BY <1>1, HostIdleType DEF Transfers
<1>3. comms_healthy' \in BOOLEAN /\ owed' \in Seq(Packets)
  <2>1. host.chunks \in Seq(ChunkSet) /\ owed \in Seq(Packets)
    BY <1>1 DEF StreamTypeOK, Transfers
  <2> QED BY <1>1, <2>1, UnpackType
<1>4. /\ StreamTypeOK' /\ PandaInv' /\ TransferInv' /\ WriteInv'
      /\ Started' => \E list \in Seq(Packets) : InFlight' = UnitsOf(list)
  BY <1>1, <1>2, <1>3, ChunksLost
<1>5. ContentInv'
  BY <1>1, <1>4 DEF ContentInv
<1> QED BY <1>4, <1>5 DEF TransfersInv

\* Nothing is in flight at first.
LEMMA TransfersInvInit == StreamInit => TransfersInv
<1> SUFFICES ASSUME StreamInit PROVE TransfersInv
  OBVIOUS
<1>1. /\ can_read_buffer = Chunk(0, <<>>) /\ total_rx_size = 0
      /\ filling = <<>> /\ txfifo = <<>> /\ host = HostIdle /\ comms_healthy = TRUE /\ broken = FALSE
      /\ can_write_buffer = Chunk(0, <<>>) /\ sent = <<>> /\ owed = <<>>
  BY DEF StreamInit, NotFilling
<1>2. PICK c \in ChunkSet : c = Chunk(0, <<>>) /\ c.number = 0 /\ c.units = <<>>
  <2>1. <<>> \in Seq(Unit) /\ 0 \in 0..(ChunksPerTransfer - 1)
    BY StreamAssumption
  <2> DEFINE c == Chunk(0, <<>>)
  <2>2. c \in ChunkSet /\ c.number = 0 /\ c.units = <<>>
    BY <2>1 DEF Chunk, ChunkSet
  <2> QED BY <2>2
<1>3. Len(<<>>) < Payload /\ 0 = 0 * (Payload + 1)
  BY StreamAssumption
<1>4. <<>> \in Fifos /\ <<>> \in Seq(Elements) /\ <<>> \in Seq(Packets) /\ <<>> \in Seq(Unit)
       /\ UnitsIn(<<>>) = <<>>
  BY DEF Fifos, UnitsIn
<1>5. host \in Transfers /\ host.pc = "idle" /\ host.chunks = <<>>
  BY <1>1, HostIdleType
<1>6. StreamTypeOK
  BY <1>1, <1>2, <1>3, <1>4, <1>5 DEF StreamTypeOK
<1>7. PandaInv /\ WriteInv
  BY <1>1, <1>2, <1>5 DEF PandaInv, WriteInv
<1>8. TransferInv /\ Started
  BY <1>1, <1>2, <1>5, SequenceEmpty DEF TransferInv, Started
<1>9. InFlight = <<>>
  <2>1. ReadFlow
    BY <1>6, FlowInFlight
  <2>2. Flow(<<>>, <<>>, <<>>, <<>>) = <<>>
    BY <1>4, FlowMoves
  <2> QED BY <1>1, <1>2, <1>4, <1>5, <2>1, <2>2, BytesEmpty DEF ReadFlow
<1>10. ContentInv
  BY <1>1, <1>4, <1>8, <1>9, UnitsOfEmpty DEF ContentInv
<1> QED BY <1>6, <1>7, <1>8, <1>10 DEF TransfersInv

\* Every step of the stream keeps the invariant.
LEMMA StreamInvStep == StreamInv /\ [StreamNext]_streamVars => StreamInv'
<1> SUFFICES ASSUME StreamInv, [StreamNext]_streamVars PROVE StreamInv'
  OBVIOUS
<1>1. RingInv /\ TransfersInv
  BY DEF StreamInv, TransfersInv
<1>2. RingInv'
  <2>1. [Next]_vars
    BY StreamStepsRing DEF streamVars
  <2> QED BY <1>1, <2>1, RingInvStep
<1>3. TransfersInv'
  <2>1. ASSUME NEW x \in Packets, Arrive(x) PROVE TransfersInv'
    BY <1>1, <2>1, IdleStep DEF Arrive
  <2>2. CASE ClearQueue
    BY <1>1, <2>2, IdleStep DEF ClearQueue
  <2>3. CASE StartRead
    BY <1>1, <2>3, StartReadStep
  <2>4. CASE InToken
    BY <1>1, <2>4, InTokenStep
  <2>5. CASE Fill
    BY <1>1, <2>5, FillStep
  <2>6. CASE Fetch
    BY <1>1, <2>6, FetchStep
  <2>7. ASSUME NEW flush \in BOOLEAN, Reconnect(flush) PROVE TransfersInv'
    BY <1>1, <2>7, ReconnectStep
  <2>8. ASSUME NEW list \in Lists, Write(list) PROVE TransfersInv'
    BY <1>1, <2>8, WriteStep
  <2>9. CASE SendChunk
    BY <1>1, <2>9, SendChunkStep
  <2>10. CASE EndWrite
    BY <1>1, <2>10, EndWriteStep
  <2>11. CASE Resend
    BY <1>1, <2>11, ResendStep
  <2>12. CASE UNCHANGED streamVars
    <3>1. UNCHANGED <<readVars, hostVars, writeVars, owed>>
      BY <2>12 DEF streamVars
    <3> QED BY <1>1, <3>1, IdleStep
  <2>13. ASSUME NEW overflow \in BOOLEAN, NEW atHand \in BOOLEAN, ReadFails(overflow, atHand)
         PROVE  TransfersInv'
    BY <1>1, <2>13, ReadFailsStep
  <2>14. CASE ReadLost
    BY <1>1, <2>14, ReadLostStep
  <2> QED BY <2>1, <2>2, <2>3, <2>4, <2>5, <2>6, <2>7, <2>8, <2>9, <2>10, <2>11, <2>12, <2>13, <2>14
          DEF StreamNext
<1> QED BY <1>2, <1>3 DEF StreamInv, TransfersInv

\* The invariant holds for every ring, every length of the packets up to a chunk and every
\* size of the transfers: type correctness, the numbers of the chunks, what is in flight, how
\* far a write has come.
THEOREM StreamInvariant == StreamSpec => []StreamInv
<1>1. StreamInit => StreamInv
  BY RingInvInit, TransfersInvInit DEF StreamInit, StreamInv, TransfersInv
<1> QED BY <1>1, StreamInvStep, PTL DEF StreamSpec

\* comms_can_read and unpack_can_buffer never lose, repeat, reorder or cut a packet of a
\* connection that did not begin in the middle of a transfer and in which no failed read
\* overflowed or lost chunks; and in no connection does a transfer that ends without an
\* error have a packet accepted that is not whole.
THEOREM ReadsWhole == StreamSpec => []ReadsArriveWhole
<1>1. StreamInv => ReadsArriveWhole
  <2> SUFFICES ASSUME StreamInv PROVE ReadsArriveWhole
    OBVIOUS
  <2>1. TransfersInv /\ StreamTypeOK /\ TransferInv /\ ContentInv
    BY DEF StreamInv, TransfersInv
  <2>2. ASSUME ~broken PROVE comms_healthy /\ InOrder(Chunks) /\ InFlight = UnitsOf(owed)
    BY <2>1, <2>2, ChunksInOrder DEF ContentInv
  <2>3. ASSUME txfifo # <<>>, Ends, InOrder(Chunks)
        PROVE  Split(Bytes(Chunks)).rest = <<>> /\ ~Contains(Split(Bytes(Chunks)).packets, NoPacket)
    <3>1. PICK list \in Seq(Packets) : Split(Bytes(Chunks)) = [packets |-> list, rest |-> <<>>]
      BY <2>1, <2>3, EndsWhole
    <3>2. \A i \in 1..Len(list) : list[i] # NoPacket
      BY RingAssumption
    <3> QED BY <3>1, <3>2 DEF Contains
  <2> QED BY <2>2, <2>3 DEF ReadsArriveWhole
<1> QED BY <1>1, StreamInvariant, PTL

\* comms_can_write queues a prefix of the packets that pack_can_buffer wrote, and all of them
\* once every chunk has come, whatever was left in its buffer.
THEOREM WritesWhole == StreamSpec => []WritesArriveWhole
<1>1. StreamInv => WritesArriveWhole
  <2> SUFFICES ASSUME StreamInv, host.pc = "writing"
               PROVE  IsPrefix(sent, host.list) /\ (host.todo = <<>> => sent = host.list)
    BY DEF WritesArriveWhole
  <2>1. PICK list \in Lists, todo \in Seq(ChunkSet), done \in Seq(Elements) :
          list = host.list /\ todo = host.todo /\ done = sent
    BY DEF StreamInv, WriteInv, StreamTypeOK, Transfers
  <2>2. PICK j \in 0..Len(Pack(list)) : WriteAt(list, todo, can_write_buffer, done, j)
    BY <2>1 DEF StreamInv, WriteInv
  <2>3. PICK count \in Nat : count = Len(Pack(list)) /\ j \in 0..count /\ Pack(list) \in Seq(ChunkSet)
    BY PackFacts, StreamAssumption
  <2>4. todo = SubSeq(Pack(list), j + 1, count) /\ done = Split(Before(list, j)).packets
    BY <2>2, <2>3 DEF WriteAt
  <2>5. IsPrefix(done, list)
    BY <2>4, BeforeReads
  <2>6. ASSUME todo = <<>> PROVE done = list
    <3>1. j = count
      <4>1. j # count => Len(todo) = count - j
        BY <2>3, <2>4
      <4>2. Len(<<>>) = 0
        OBVIOUS
      <4> QED BY <2>3, <2>6, <4>1, <4>2
    <3> QED BY <2>3, <2>4, <3>1, BeforeReads
  <2> QED BY <2>1, <2>5, <2>6
<1> QED BY <1>1, StreamInvariant, PTL
=============================================================================
