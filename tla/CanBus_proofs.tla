---------------------------- MODULE CanBus_proofs ----------------------------
(***************************************************************************)
(* What holds of the transmit side for every number of frames, slots and   *)
(* USB packets.  A handler is a composition of steps of the port's state,  *)
(* so each step gets its lemmas, and an action of Next cites those of the  *)
(* steps it is made of.                                                    *)
(***************************************************************************)
EXTENDS CanBus, TLAPS

Mailboxes == [status : Statuses, frame : Frames \cup {NoFrame}]

PortType == [tx : [Buses -> Seq(Frames)], mailbox : [Buses -> Mailboxes],
             rx : 0..RxCapacity, nak : BOOLEAN, processing : BOOLEAN]

Bounded(p) == \A b \in Buses : Len(p.tx[b]) <= Capacity

\* The host is refused only for lack of room that a handler will make.
Justified(p) == p.nak => ~p.processing /\ ~can_tx_check_min_slots_free(p)

\* Queues with frames have their mailbox at work, bus by bus.
Works(p, b) == p.tx[b] # <<>> => p.mailbox[b].status # "empty"

-----------------------------------------------------------------------------
(* The steps of the port                                                   *)

LEMMA OutCompleteStep ==
  ASSUME NEW p \in PortType, Bounded(p)
  PROVE  /\ OutComplete(p) \in PortType /\ Bounded(OutComplete(p))
         /\ OutComplete(p).tx = p.tx /\ OutComplete(p).mailbox = p.mailbox
         /\ (p.nak => ~p.processing) => Justified(OutComplete(p))
         /\ OutComplete(p).nak => p.nak
  BY DEF OutComplete, PortType, Bounded, Justified, can_tx_check_min_slots_free

LEMMA PushRxStep ==
  ASSUME NEW p \in PortType, Bounded(p)
  PROVE  /\ PushRx(p) \in PortType /\ Bounded(PushRx(p))
         /\ PushRx(p).tx = p.tx /\ PushRx(p).mailbox = p.mailbox
         /\ PushRx(p).nak = p.nak /\ PushRx(p).processing = p.processing
         /\ Justified(p) => Justified(PushRx(p))
  <1> DEFINE q == [p EXCEPT !.rx = @ + 1]
  <1>1. CASE p.rx < RxCapacity
    <2>1. p.rx + 1 \in 0..RxCapacity
      BY <1>1, BusAssumption DEF PortType, BusAssumption
    <2>2. /\ q \in PortType /\ q.tx = p.tx /\ q.mailbox = p.mailbox
          /\ q.nak = p.nak /\ q.processing = p.processing
      BY <2>1 DEF PortType
    <2>3. PushRx(p) = q
      BY <1>1 DEF PushRx
    <2> QED
      BY <2>2, <2>3 DEF Bounded, Justified, can_tx_check_min_slots_free
  <1>2. CASE ~(p.rx < RxCapacity)
    BY <1>2 DEF PushRx
  <1> QED
    BY <1>1, <1>2

LEMMA PushTxStep ==
  ASSUME NEW p \in PortType, Bounded(p), NEW b \in Buses, NEW f \in Frames
  PROVE  /\ PushTx(p, b, f) \in PortType /\ Bounded(PushTx(p, b, f))
         /\ Justified(p) => Justified(PushTx(p, b, f))
         /\ PushTx(p, b, f).nak => p.nak
         /\ \A d \in Buses \ {b} : Works(p, d) => Works(PushTx(p, b, f), d)
  <1> DEFINE q == [p EXCEPT !.tx[b] = Append(@, f)]
  <1>1. CASE Len(p.tx[b]) < Capacity
    <2>1. PushTx(p, b, f) = q
      BY <1>1 DEF PushTx
    <2>2. /\ p.tx[b] \in Seq(Frames) /\ Append(p.tx[b], f) \in Seq(Frames)
          /\ Len(Append(p.tx[b], f)) = Len(p.tx[b]) + 1
      BY DEF PortType
    <2>3. /\ q \in PortType /\ q.tx[b] = Append(p.tx[b], f)
          /\ \A d \in Buses \ {b} : q.tx[d] = p.tx[d]
          /\ q.mailbox = p.mailbox /\ q.nak = p.nak /\ q.processing = p.processing
      BY <2>2 DEF PortType
    <2>4. Bounded(q)
      BY <1>1, <2>2, <2>3, BusAssumption DEF Bounded, PortType, BusAssumption
    <2>5. can_tx_check_min_slots_free(q) => can_tx_check_min_slots_free(p)
      <3>1. \A d \in Buses : Len(p.tx[d]) \in Nat /\ Len(q.tx[d]) \in Nat /\ Len(p.tx[d]) <= Len(q.tx[d])
        BY <2>2, <2>3 DEF PortType
      <3> QED
        BY <3>1, BusAssumption DEF can_tx_check_min_slots_free, BusAssumption
    <2> QED
      BY <2>1, <2>3, <2>4, <2>5 DEF Justified, Works
  <1>2. CASE ~(Len(p.tx[b]) < Capacity)
    BY <1>2 DEF PushTx
  <1> QED
    BY <1>1, <1>2

LEMMA ClearTxStep ==
  ASSUME NEW p \in PortType, Bounded(p), NEW b \in Buses
  PROVE  /\ ClearTx(p, b) \in PortType /\ Bounded(ClearTx(p, b))
         /\ Justified(p) => Justified(ClearTx(p, b))
         /\ ClearTx(p, b).nak => p.nak
         /\ \A d \in Buses \ {b} : Works(p, d) => Works(ClearTx(p, b), d)
         /\ Works(ClearTx(p, b), b)
  <1> DEFINE q == [p EXCEPT !.tx[b] = <<>>]
  <1>1. /\ q \in PortType /\ q.tx[b] = <<>>
        /\ \A d \in Buses \ {b} : q.tx[d] = p.tx[d]
        /\ q.mailbox = p.mailbox /\ q.nak = p.nak /\ q.processing = p.processing
    <2>1. <<>> \in Seq(Frames)
      OBVIOUS
    <2>2. [p.tx EXCEPT ![b] = <<>>] \in [Buses -> Seq(Frames)]
      BY <2>1 DEF PortType
    <2> QED
      BY <2>2 DEF PortType
  <1>2. Bounded(q)
    BY <1>1, BusAssumption DEF Bounded, BusAssumption
  <1>3. Justified(p) => (q.nak => ~q.processing)
    BY <1>1 DEF Justified
  <1> HIDE DEF q
  <1>4. /\ OutComplete(q) \in PortType /\ Bounded(OutComplete(q))
        /\ Justified(p) => Justified(OutComplete(q))
        /\ OutComplete(q).nak => q.nak
        /\ OutComplete(q).tx = q.tx /\ OutComplete(q).mailbox = q.mailbox
    BY <1>1, <1>2, <1>3, OutCompleteStep
  <1>5. ClearTx(p, b) = OutComplete(q)
    BY DEF ClearTx, q
  <1> QED
    BY <1>1, <1>4, <1>5 DEF Works

LEMMA ProcessCanStep ==
  ASSUME NEW p \in PortType, Bounded(p), NEW b \in Buses
  PROVE  /\ process_can(p, b) \in PortType /\ Bounded(process_can(p, b))
         /\ Justified(p) => Justified(process_can(p, b))
         /\ process_can(p, b).nak => p.nak
         /\ \A d \in Buses \ {b} : Works(p, d) => Works(process_can(p, b), d)
         /\ Works(process_can(p, b), b)
  <1> DEFINE e == IF p.mailbox[b].status = "sent" THEN PushRx(p) ELSE p
             freed == [e EXCEPT !.mailbox[b] = EmptyMailbox]
             popped == [e EXCEPT !.mailbox[b] = Requested(Head(p.tx[b])), !.tx[b] = Tail(@)]
  <1>1. CASE p.mailbox[b].status = "requested"
    BY <1>1 DEF process_can, Works
  <1>2. ASSUME p.mailbox[b].status # "requested"
        PROVE  /\ e \in PortType /\ Bounded(e) /\ e.tx = p.tx /\ e.mailbox = p.mailbox
               /\ e.nak = p.nak /\ e.processing = p.processing
               /\ Justified(p) => Justified(e)
    BY PushRxStep
  <1> HIDE DEF e
  <1>3. CASE p.mailbox[b].status # "requested" /\ p.tx[b] = <<>>
    <2>1. process_can(p, b) = freed
      BY <1>3 DEF process_can, e
    <2>2. EmptyMailbox \in Mailboxes
      BY DEF EmptyMailbox, Mailboxes, Statuses
    <2>3. /\ freed \in PortType /\ freed.tx = p.tx
          /\ \A d \in Buses \ {b} : freed.mailbox[d] = p.mailbox[d]
          /\ freed.nak = e.nak /\ freed.processing = e.processing
      BY <1>2, <1>3, <2>2 DEF PortType
    <2> QED
      BY <1>2, <1>3, <2>1, <2>3 DEF Bounded, Justified, Works, can_tx_check_min_slots_free
  <1>4. CASE p.mailbox[b].status # "requested" /\ p.tx[b] # <<>>
    <2>1. process_can(p, b) = OutComplete(popped)
      BY <1>4 DEF process_can, e
    <2>2. /\ p.tx[b] \in Seq(Frames) /\ Head(p.tx[b]) \in Frames /\ Tail(p.tx[b]) \in Seq(Frames)
          /\ Len(Tail(p.tx[b])) = Len(p.tx[b]) - 1 /\ Len(p.tx[b]) \in Nat
      BY <1>4 DEF PortType
    <2>3. /\ Requested(Head(p.tx[b])) \in Mailboxes
          /\ Requested(Head(p.tx[b])).status = "requested"
      BY <2>2 DEF Requested, Mailboxes, Statuses
    <2>4. /\ popped \in PortType
          /\ popped.tx[b] = Tail(p.tx[b]) /\ \A d \in Buses \ {b} : popped.tx[d] = p.tx[d]
          /\ popped.mailbox[b] = Requested(Head(p.tx[b]))
          /\ \A d \in Buses \ {b} : popped.mailbox[d] = p.mailbox[d]
          /\ popped.nak = e.nak /\ popped.processing = e.processing
      BY <1>2, <1>4, <2>2, <2>3 DEF PortType
    <2>5. Bounded(popped)
      <3> HIDE DEF popped
      <3>1. Len(popped.tx[b]) <= Capacity
        <4>1. Len(p.tx[b]) <= Capacity /\ Capacity \in Nat
          BY BusAssumption DEF Bounded, BusAssumption
        <4>2. popped.tx[b] = Tail(p.tx[b])
          BY <2>4
        <4> QED
          BY <2>2, <4>1, <4>2
      <3>2. \A d \in Buses \ {b} : Len(popped.tx[d]) <= Capacity
        BY <2>4 DEF Bounded
      <3> QED
        BY <3>1, <3>2 DEF Bounded
    <2> HIDE DEF popped
    <2>6. /\ OutComplete(popped) \in PortType /\ Bounded(OutComplete(popped))
          /\ OutComplete(popped).tx = popped.tx /\ OutComplete(popped).mailbox = popped.mailbox
          /\ (popped.nak => ~popped.processing) => Justified(OutComplete(popped))
          /\ OutComplete(popped).nak => popped.nak
      BY <2>4, <2>5, OutCompleteStep
    <2>7. Justified(p) => (popped.nak => ~popped.processing)
      BY <1>2, <1>4, <2>4 DEF Justified
    <2> QED
      BY <1>2, <1>4, <2>1, <2>3, <2>4, <2>6, <2>7 DEF Works
  <1> QED
    BY <1>1, <1>3, <1>4

LEMMA CanSendStep ==
  ASSUME NEW p \in PortType, Bounded(p), NEW b \in Buses, NEW f \in Frames
  PROVE  /\ can_send(p, b, f) \in PortType /\ Bounded(can_send(p, b, f))
         /\ Justified(p) => Justified(can_send(p, b, f))
         /\ can_send(p, b, f).nak => p.nak
         /\ \A d \in Buses \ {b} : Works(p, d) => Works(can_send(p, b, f), d)
         /\ Works(can_send(p, b, f), b)
  <1> DEFINE q == PushTx(p, b, f)
  <1>1. /\ q \in PortType /\ Bounded(q)
        /\ Justified(p) => Justified(q)
        /\ q.nak => p.nak
        /\ \A d \in Buses \ {b} : Works(p, d) => Works(q, d)
    BY PushTxStep
  <1> HIDE DEF q
  <1>2. /\ process_can(q, b) \in PortType /\ Bounded(process_can(q, b))
        /\ Justified(q) => Justified(process_can(q, b))
        /\ process_can(q, b).nak => q.nak
        /\ \A d \in Buses \ {b} : Works(q, d) => Works(process_can(q, b), d)
        /\ Works(process_can(q, b), b)
    BY <1>1, ProcessCanStep
  <1>3. can_send(p, b, f) = process_can(q, b)
    BY DEF can_send, q
  <1> QED
    BY <1>1, <1>2, <1>3

\* One controller of can_init_all: clear its queue, start it again.
Restarted(p, b) == process_can(ClearTx(p, b), b)

LEMMA RestartStep ==
  ASSUME NEW p \in PortType, Bounded(p), \A d \in Buses : Works(p, d), NEW b \in Buses
  PROVE  /\ Restarted(p, b) \in PortType /\ Bounded(Restarted(p, b))
         /\ Justified(p) => Justified(Restarted(p, b))
         /\ Restarted(p, b).nak => p.nak
         /\ \A d \in Buses : Works(Restarted(p, b), d)
  <1> DEFINE q == ClearTx(p, b)
  <1>1. /\ q \in PortType /\ Bounded(q)
        /\ Justified(p) => Justified(q)
        /\ q.nak => p.nak
        /\ \A d \in Buses : Works(q, d)
    BY ClearTxStep
  <1> HIDE DEF q
  <1>2. /\ process_can(q, b) \in PortType /\ Bounded(process_can(q, b))
        /\ Justified(q) => Justified(process_can(q, b))
        /\ process_can(q, b).nak => q.nak
        /\ \A d \in Buses : Works(process_can(q, b), d)
    BY <1>1, ProcessCanStep
  <1>3. Restarted(p, b) = process_can(q, b)
    BY DEF Restarted, q
  <1> QED
    BY <1>1, <1>2, <1>3

-----------------------------------------------------------------------------
(* The inductive invariant: the three invariants of the run, and that a    *)
(* host is refused only after the last packet of its transfer, so that no  *)
(* packet which starts another one waits in the receive FIFO.              *)

RefusedAfterLast == nak /\ unread # <<>> => unread[Len(unread)].last

Inv == TypeOK /\ NoLostWakeup /\ MailboxesWork /\ RefusedAfterLast

\* The end of a transfer is still to be handled.
Pending == complete \/ \E i \in DOMAIN unread : unread[i].last

LEMMA PortOfInv ==
  Inv => /\ Port \in PortType /\ Bounded(Port)
         /\ \A b \in Buses : Works(Port, b)
         /\ configured /\ ~Pending => Justified(Port)
  <1> SUFFICES ASSUME Inv
               PROVE  /\ Port \in PortType /\ Bounded(Port)
                      /\ \A b \in Buses : Works(Port, b)
                      /\ configured /\ ~Pending => Justified(Port)
    OBVIOUS
  <1>1. Port \in PortType /\ Bounded(Port)
    BY DEF Inv, TypeOK, Port, PortType, Bounded, Mailboxes
  <1>2. \A b \in Buses : Works(Port, b)
    BY DEF Inv, MailboxesWork, Works, Port
  <1>3. Port.nak = nak /\ Port.processing = processing
    BY DEF Port
  <1>4. configured /\ ~Pending => Justified(Port)
    BY <1>3 DEF Inv, NoLostWakeup, Pending, Justified
  <1> QED
    BY <1>1, <1>2, <1>4

\* A step that leaves a good port leaves the invariant, if it leaves the USB
\* variables well typed and the host refused for a reason.
LEMMA StepKeepsInv ==
  ASSUME NEW q \in PortType, Bounded(q), \A b \in Buses : Works(q, b), Become(q),
         complete' \in BOOLEAN, configured' \in BOOLEAN, chunk' \in Seq(HostFrames),
         unread' \in Seq([frames : Seq(HostFrames), last : BOOLEAN]),
         configured' /\ ~Pending' => Justified(q),
         q.nak /\ unread' # <<>> => unread'[Len(unread')].last
  PROVE  Inv'
  <1>1. TypeOK'
    BY DEF TypeOK, PortType, Bounded, Become, Mailboxes
  <1>2. MailboxesWork'
    BY DEF MailboxesWork, Works, Become
  <1>3. Port' = [tx |-> tx', mailbox |-> mailbox', rx |-> rx', nak |-> nak', processing |-> processing']
    BY DEF Port
  <1>4. can_tx_check_min_slots_free(Port)' <=> can_tx_check_min_slots_free(q)
    BY <1>3 DEF can_tx_check_min_slots_free, Become
  <1>5. NoLostWakeup'
    BY <1>4 DEF NoLostWakeup, Justified, Become, Pending
  <1>6. RefusedAfterLast'
    BY DEF RefusedAfterLast, Become
  <1> QED
    BY <1>1, <1>2, <1>5, <1>6 DEF Inv

\* The case of most handlers: nothing changes but the port.
LEMMA HandlerKeepsInv ==
  ASSUME Inv, NEW q \in PortType, Bounded(q), \A b \in Buses : Works(q, b),
         Justified(Port) => Justified(q), q.nak => Port.nak, Become(q),
         chunk' \in Seq(HostFrames), UNCHANGED <<unread, complete, configured>>
  PROVE  Inv'
  <1>1. /\ complete' \in BOOLEAN /\ configured' \in BOOLEAN
        /\ unread' \in Seq([frames : Seq(HostFrames), last : BOOLEAN])
    BY DEF Inv, TypeOK
  <1>2. Pending' <=> Pending
    BY DEF Pending
  <1>3. configured' /\ ~Pending' => Justified(q)
    BY <1>2, PortOfInv
  <1>4. q.nak /\ unread' # <<>> => unread'[Len(unread')].last
    BY DEF Inv, RefusedAfterLast, Port
  <1> QED
    BY <1>1, <1>3, <1>4, StepKeepsInv

-----------------------------------------------------------------------------
(* One lemma per kind of step                                              *)

LEMMA InitInv == Init => Inv
  <1> SUFFICES ASSUME Init PROVE Inv
    OBVIOUS
  <1>1. EmptyMailbox \in Mailboxes
    BY DEF EmptyMailbox, Mailboxes, Statuses
  <1>2. tx \in [Buses -> Seq(Frames)] /\ \A b \in Buses : Len(tx[b]) = 0 /\ tx[b] = <<>>
    BY DEF Init
  <1>3. TypeOK
    <2>1. mailbox \in [Buses -> [status : Statuses, frame : Frames \cup {NoFrame}]]
      BY <1>1 DEF Init, Mailboxes
    <2>2. rx \in 0..RxCapacity /\ \A b \in Buses : Len(tx[b]) <= Capacity
      BY <1>2, BusAssumption DEF Init, BusAssumption
    <2>3. chunk \in Seq(HostFrames) /\ unread \in Seq([frames : Seq(HostFrames), last : BOOLEAN])
      BY DEF Init
    <2>4. nak \in BOOLEAN /\ processing \in BOOLEAN /\ complete \in BOOLEAN /\ configured \in BOOLEAN
      BY DEF Init
    <2> QED
      BY <1>2, <2>1, <2>2, <2>3, <2>4 DEF TypeOK
  <1>4. NoLostWakeup /\ MailboxesWork /\ RefusedAfterLast
    BY <1>2 DEF Init, NoLostWakeup, MailboxesWork, RefusedAfterLast
  <1> QED
    BY <1>3, <1>4 DEF Inv

\* A mailbox that was busy is still busy after its frame is sent or aborted.
LEMMA MailboxDone ==
  ASSUME Inv, NEW b \in Buses, NEW outcome \in {"sent", "failed"},
         mailbox[b].status = "requested",
         mailbox' = [mailbox EXCEPT ![b].status = outcome],
         UNCHANGED <<tx, rx, nak, processing, usbVars>>
  PROVE  Inv'
  <1> DEFINE q == [Port EXCEPT !.mailbox = mailbox']
  <1>1. /\ Port \in PortType /\ Bounded(Port) /\ \A d \in Buses : Works(Port, d)
        /\ Port.mailbox = mailbox /\ mailbox \in [Buses -> Mailboxes]
    BY PortOfInv DEF Port, PortType
  <1>2. mailbox' \in [Buses -> Mailboxes]
    BY <1>1 DEF Mailboxes, Statuses
  <1>3. /\ q \in PortType /\ q.tx = Port.tx /\ q.mailbox = mailbox'
        /\ q.nak = Port.nak /\ q.processing = Port.processing /\ q.rx = Port.rx
    BY <1>1, <1>2 DEF PortType
  <1>4. Bounded(q) /\ (Justified(Port) => Justified(q))
    BY <1>1, <1>3 DEF Bounded, Justified, can_tx_check_min_slots_free
  <1>5. \A d \in Buses : mailbox'[d].status # "empty" \/ mailbox'[d] = mailbox[d]
    BY <1>1 DEF Mailboxes
  <1>6. \A d \in Buses : Works(q, d)
    BY <1>1, <1>3, <1>5 DEF Works
  <1>7. Become(q)
    BY <1>3 DEF Become, Port
  <1>8. chunk' \in Seq(HostFrames) /\ UNCHANGED <<unread, complete, configured>>
    BY DEF Inv, TypeOK, usbVars
  <1> HIDE DEF q
  <1> QED
    BY <1>3, <1>4, <1>6, <1>7, <1>8, HandlerKeepsInv

LEMMA ForwardKeepsInv ==
  ASSUME Inv, NEW b \in Buses, NEW f \in CarFrames[b], NEW m \in BOOLEAN, can_rx(b, f, m)
  PROVE  Inv'
  <1> DEFINE d == safety_fwd_hook(b, f, m)
             s == IF d = -1 THEN Port ELSE can_send(Port, d, f)
  <1>1. f \in Frames
    BY DEF Frames
  <1>2. d = -1 \/ d \in Buses
    BY DEF safety_fwd_hook, toyota_fwd_hook, Buses
  <1>3. /\ Port \in PortType /\ Bounded(Port) /\ \A e \in Buses : Works(Port, e)
    BY PortOfInv
  <1>4. Become(PushRx(s)) /\ UNCHANGED usbVars
    BY DEF can_rx
  <1> HIDE DEF d
  <1>5. /\ s \in PortType /\ Bounded(s) /\ \A e \in Buses : Works(s, e)
        /\ Justified(Port) => Justified(s)
        /\ s.nak => Port.nak
    <2>1. CASE d = -1
      BY <2>1, <1>3
    <2>2. CASE d \in Buses /\ d # -1
      <3>1. /\ can_send(Port, d, f) \in PortType /\ Bounded(can_send(Port, d, f))
            /\ Justified(Port) => Justified(can_send(Port, d, f))
            /\ can_send(Port, d, f).nak => Port.nak
            /\ \A e \in Buses : Works(can_send(Port, d, f), e)
        BY <1>1, <1>3, <2>2, CanSendStep
      <3> QED
        BY <3>1, <2>2
    <2> QED
      BY <2>1, <2>2, <1>2
  <1> HIDE DEF s
  <1>6. /\ PushRx(s) \in PortType /\ Bounded(PushRx(s))
        /\ Justified(s) => Justified(PushRx(s))
        /\ PushRx(s).tx = s.tx /\ PushRx(s).mailbox = s.mailbox /\ PushRx(s).nak = s.nak
    BY <1>5, PushRxStep
  <1>7. \A e \in Buses : Works(PushRx(s), e)
    BY <1>5, <1>6 DEF Works
  <1>8. chunk' \in Seq(HostFrames) /\ UNCHANGED <<unread, complete, configured>>
    BY <1>4 DEF Inv, TypeOK, usbVars
  <1> QED
    BY <1>4, <1>5, <1>6, <1>7, <1>8, HandlerKeepsInv

LEMMA WriteKeepsInv ==
  ASSUME Inv, NEW admitted \in BOOLEAN, comms_can_write(admitted)
  PROVE  Inv'
  <1> DEFINE f == Head(chunk)
             s == IF admitted THEN can_send(Port, BusOf[f], f) ELSE PushRx(Port)
  <1>1. chunk \in Seq(HostFrames) /\ chunk # <<>>
    BY DEF comms_can_write, Idle, Inv, TypeOK
  <1>2. f \in HostFrames /\ Tail(chunk) \in Seq(HostFrames)
    BY <1>1
  <1>3. f \in Frames /\ BusOf[f] \in Buses
    BY <1>2, BusAssumption DEF Frames, BusAssumption
  <1>4. /\ Port \in PortType /\ Bounded(Port) /\ \A e \in Buses : Works(Port, e)
    BY PortOfInv
  <1>5. Become(s) /\ chunk' = Tail(chunk) /\ UNCHANGED <<unread, complete, configured>>
    BY DEF comms_can_write
  <1> HIDE DEF f
  <1>6. CASE admitted
    <2>1. /\ can_send(Port, BusOf[f], f) \in PortType /\ Bounded(can_send(Port, BusOf[f], f))
          /\ Justified(Port) => Justified(can_send(Port, BusOf[f], f))
          /\ can_send(Port, BusOf[f], f).nak => Port.nak
          /\ \A e \in Buses : Works(can_send(Port, BusOf[f], f), e)
      BY <1>3, <1>4, CanSendStep
    <2>2. s = can_send(Port, BusOf[f], f)
      BY <1>6
    <2> HIDE DEF s
    <2> QED
      BY <1>2, <1>5, <2>1, <2>2, HandlerKeepsInv
  <1>7. CASE ~admitted
    <2>1. /\ PushRx(Port) \in PortType /\ Bounded(PushRx(Port))
          /\ Justified(Port) => Justified(PushRx(Port))
          /\ PushRx(Port).tx = Port.tx /\ PushRx(Port).mailbox = Port.mailbox
          /\ PushRx(Port).nak = Port.nak
      BY <1>4, PushRxStep
    <2>2. \A e \in Buses : Works(PushRx(Port), e)
      BY <1>4, <2>1 DEF Works
    <2>3. s = PushRx(Port)
      BY <1>7
    <2> HIDE DEF s
    <2> QED
      BY <1>2, <1>5, <2>1, <2>2, <2>3, HandlerKeepsInv
  <1> QED
    BY <1>6, <1>7

LEMMA HostSendsKeepsInv ==
  ASSUME Inv, NEW f \in HostFrames, NEW last \in BOOLEAN, HostSends(<<f>>, last)
  PROVE  Inv'
  <1> DEFINE packet == [frames |-> <<f>>, last |-> last]
             q == [Port EXCEPT !.nak = last]
  <1>1. /\ unread \in Seq([frames : Seq(HostFrames), last : BOOLEAN])
        /\ packet \in [frames : Seq(HostFrames), last : BOOLEAN]
    BY DEF Inv, TypeOK
  <1>2. unread' = Append(unread, packet)
    BY DEF HostSends
  <1>3. /\ unread' \in Seq([frames : Seq(HostFrames), last : BOOLEAN])
        /\ Len(unread) + 1 \in DOMAIN unread' /\ unread'[Len(unread) + 1] = packet
        /\ Len(unread') = Len(unread) + 1
    BY <1>1, <1>2
  <1>4. last => Pending'
    BY <1>3 DEF Pending
  <1>5. /\ Port \in PortType /\ Bounded(Port) /\ \A d \in Buses : Works(Port, d)
    BY PortOfInv
  <1>6. /\ q \in PortType /\ q.tx = Port.tx /\ q.mailbox = Port.mailbox
        /\ q.nak = last /\ q.processing = Port.processing /\ q.rx = Port.rx
    BY <1>5 DEF PortType
  <1>7. Bounded(q) /\ (\A d \in Buses : Works(q, d)) /\ (~last => Justified(q))
    BY <1>5, <1>6 DEF Bounded, Works, Justified
  <1>8. Become(q)
    BY <1>6 DEF Become, Port, HostSends
  <1>9. complete' \in BOOLEAN /\ configured' \in BOOLEAN /\ chunk' \in Seq(HostFrames)
    BY DEF HostSends, Inv, TypeOK
  <1>10. q.nak => unread'[Len(unread')].last
    BY <1>3, <1>6
  <1> HIDE DEF q
  <1>11. configured' /\ ~Pending' => Justified(q)
    BY <1>4, <1>7
  <1> QED
    BY <1>3, <1>6, <1>7, <1>8, <1>9, <1>10, <1>11, StepKeepsInv

\* What is left of a sequence without its head.
LEMMA TailOfSeq ==
  ASSUME NEW S, NEW s \in Seq(S), s # <<>>
  PROVE  /\ Head(s) \in S /\ Tail(s) \in Seq(S)
         /\ Head(s) = s[1] /\ Len(Tail(s)) = Len(s) - 1
         /\ Len(s) \in Nat \ {0}
         /\ Len(s) # 1 => Len(s) - 1 \in DOMAIN Tail(s) /\ Tail(s)[Len(s) - 1] = s[Len(s)]
  <1>1. /\ Head(s) \in S /\ Tail(s) \in Seq(S) /\ Head(s) = s[1]
        /\ Len(s) \in Nat \ {0} /\ Len(Tail(s)) = Len(s) - 1
    OBVIOUS
  <1>2. ASSUME Len(s) # 1
        PROVE  Len(s) - 1 \in DOMAIN Tail(s) /\ Tail(s)[Len(s) - 1] = s[Len(s)]
    <2>1. Len(s) - 1 \in 1..Len(Tail(s)) /\ DOMAIN Tail(s) = 1..Len(Tail(s))
      BY <1>1, <1>2
    <2>2. \A i \in 1..Len(Tail(s)) : Tail(s)[i] = s[i + 1]
      BY <1>1
    <2> QED
      BY <1>1, <2>1, <2>2
  <1> QED
    BY <1>1, <1>2

LEMMA UsbDataKeepsInv ==
  ASSUME Inv, UsbData
  PROVE  Inv'
  <1> DEFINE P == [frames : Seq(HostFrames), last : BOOLEAN]
             q == [Port EXCEPT !.processing = TRUE]
  <1>1. unread \in Seq(P) /\ unread # <<>>
    BY DEF Inv, TypeOK, UsbData
  <1>2. /\ Head(unread) \in P /\ Tail(unread) \in Seq(P)
        /\ Head(unread) = unread[1] /\ Len(Tail(unread)) = Len(unread) - 1
        /\ Len(unread) \in Nat \ {0}
    <2> HIDE DEF P
    <2> QED
      BY <1>1, TailOfSeq
  <1>3. Len(unread) # 1 => /\ Len(unread) - 1 \in DOMAIN Tail(unread)
                          /\ Tail(unread)[Len(unread) - 1] = unread[Len(unread)]
    <2> HIDE DEF P
    <2> QED
      BY <1>1, TailOfSeq
  <1>4. /\ unread' = Tail(unread) /\ chunk' = Head(unread).frames
        /\ complete' = (complete \/ Head(unread).last)
    BY DEF UsbData
  <1>5. /\ complete' \in BOOLEAN /\ configured' \in BOOLEAN
        /\ chunk' \in Seq(HostFrames) /\ unread' \in Seq(P)
    BY <1>2, <1>4 DEF UsbData, Inv, TypeOK
  <1>6. /\ Port \in PortType /\ Bounded(Port) /\ \A d \in Buses : Works(Port, d)
    BY PortOfInv
  <1>7. /\ q \in PortType /\ q.tx = Port.tx /\ q.mailbox = Port.mailbox
        /\ q.nak = Port.nak /\ q.processing = TRUE /\ q.rx = Port.rx
    BY <1>6 DEF PortType
  <1>8. Bounded(q) /\ \A d \in Buses : Works(q, d)
    BY <1>6, <1>7 DEF Bounded, Works
  <1>9. Become(q)
    BY <1>7 DEF Become, Port, UsbData
  <1>10. nak => unread[Len(unread)].last
    BY <1>1 DEF Inv, RefusedAfterLast
  <1>11. nak => Pending'
    <2>1. CASE Len(unread) = 1
      BY <1>2, <1>4, <1>10, <2>1 DEF Pending
    <2>2. CASE Len(unread) # 1
      BY <1>3, <1>4, <1>10, <2>2 DEF Pending
    <2> QED
      BY <2>1, <2>2
  <1>12. Port.nak = nak
    BY DEF Port
  <1>13. configured' /\ ~Pending' => Justified(q)
    BY <1>7, <1>11, <1>12 DEF Justified
  <1>14. q.nak /\ unread' # <<>> => unread'[Len(unread')].last
    BY <1>1, <1>2, <1>3, <1>4, <1>7, <1>10, <1>12
  <1> HIDE DEF q
  <1> QED
    BY <1>5, <1>7, <1>8, <1>9, <1>13, <1>14, StepKeepsInv

LEMMA OutCompleteKeepsInv ==
  ASSUME Inv, UsbOutComplete
  PROVE  Inv'
  <1> DEFINE p == [Port EXCEPT !.processing = FALSE]
             q == OutComplete(p)
  <1>1. /\ Port \in PortType /\ Bounded(Port) /\ \A d \in Buses : Works(Port, d)
    BY PortOfInv
  <1>2. /\ p \in PortType /\ p.tx = Port.tx /\ p.mailbox = Port.mailbox
        /\ p.nak = Port.nak /\ p.processing = FALSE
    BY <1>1 DEF PortType
  <1>3. Bounded(p)
    BY <1>1, <1>2 DEF Bounded
  <1>4. Become(q) /\ complete' = FALSE /\ UNCHANGED <<chunk, unread, configured>>
    BY DEF UsbOutComplete
  <1> HIDE DEF p
  <1>5. /\ q \in PortType /\ Bounded(q) /\ q.tx = p.tx /\ q.mailbox = p.mailbox
        /\ Justified(q) /\ (q.nak => p.nak)
    BY <1>2, <1>3, OutCompleteStep
  <1>6. \A d \in Buses : Works(q, d)
    BY <1>1, <1>2, <1>5 DEF Works
  <1>7. /\ complete' \in BOOLEAN /\ configured' \in BOOLEAN /\ chunk' \in Seq(HostFrames)
        /\ unread' \in Seq([frames : Seq(HostFrames), last : BOOLEAN])
    BY <1>4 DEF Inv, TypeOK
  <1>8. q.nak /\ unread' # <<>> => unread'[Len(unread')].last
    BY <1>2, <1>4, <1>5 DEF Inv, RefusedAfterLast, Port
  <1> HIDE DEF q
  <1> QED
    BY <1>4, <1>5, <1>6, <1>7, <1>8, StepKeepsInv

LEMMA RestartAllKeepsInv ==
  ASSUME Inv, can_init_all
  PROVE  Inv'
  <1> DEFINE p0 == Restarted(Port, 0)
             p1 == Restarted(p0, 1)
             p2 == Restarted(p1, 2)
  <1>1. /\ Port \in PortType /\ Bounded(Port) /\ \A d \in Buses : Works(Port, d)
    BY PortOfInv
  <1>2. 0 \in Buses /\ 1 \in Buses /\ 2 \in Buses
    BY DEF Buses
  <1>3. Become(p2) /\ UNCHANGED usbVars
    BY DEF can_init_all, Restarted
  <1>4. /\ p0 \in PortType /\ Bounded(p0) /\ \A d \in Buses : Works(p0, d)
        /\ Justified(Port) => Justified(p0)
        /\ p0.nak => Port.nak
    BY <1>1, <1>2, RestartStep
  <1> HIDE DEF p0
  <1>5. /\ p1 \in PortType /\ Bounded(p1) /\ \A d \in Buses : Works(p1, d)
        /\ Justified(p0) => Justified(p1)
        /\ p1.nak => p0.nak
    BY <1>2, <1>4, RestartStep
  <1> HIDE DEF p1
  <1>6. /\ p2 \in PortType /\ Bounded(p2) /\ \A d \in Buses : Works(p2, d)
        /\ Justified(p1) => Justified(p2)
        /\ p2.nak => p1.nak
    BY <1>2, <1>5, RestartStep
  <1> HIDE DEF p2
  <1>7. chunk' \in Seq(HostFrames) /\ UNCHANGED <<unread, complete, configured>>
    BY <1>3 DEF Inv, TypeOK, usbVars
  <1> QED
    BY <1>3, <1>4, <1>5, <1>6, <1>7, HandlerKeepsInv

\* process_can and the two clears run on their own.
LEMMA SingleStepsKeepInv ==
  ASSUME Inv, NEW b \in Buses, CAN_TX_IRQ(b) \/ can_init(b) \/ ClearTxRequest(b)
  PROVE  Inv'
  <1>1. /\ Port \in PortType /\ Bounded(Port) /\ \A d \in Buses : Works(Port, d)
    BY PortOfInv
  <1>2. ASSUME UNCHANGED usbVars
        PROVE  chunk' \in Seq(HostFrames) /\ UNCHANGED <<unread, complete, configured>>
    BY <1>2 DEF Inv, TypeOK, usbVars
  <1>3. CASE CAN_TX_IRQ(b) \/ can_init(b)
    <2> DEFINE q == process_can(Port, b)
    <2>1. Become(q) /\ UNCHANGED usbVars
      BY <1>3 DEF CAN_TX_IRQ, can_init
    <2>2. /\ q \in PortType /\ Bounded(q) /\ \A d \in Buses : Works(q, d)
          /\ Justified(Port) => Justified(q)
          /\ q.nak => Port.nak
      BY <1>1, ProcessCanStep
    <2> HIDE DEF q
    <2> QED
      BY <1>2, <2>1, <2>2, HandlerKeepsInv
  <1>4. CASE ClearTxRequest(b)
    <2> DEFINE q == ClearTx(Port, b)
    <2>1. Become(q) /\ UNCHANGED usbVars
      BY <1>4 DEF ClearTxRequest
    <2>2. /\ q \in PortType /\ Bounded(q) /\ \A d \in Buses : Works(q, d)
          /\ Justified(Port) => Justified(q)
          /\ q.nak => Port.nak
      BY <1>1, ClearTxStep
    <2> HIDE DEF q
    <2> QED
      BY <1>2, <2>1, <2>2, HandlerKeepsInv
  <1> QED
    BY <1>3, <1>4

LEMMA ReceiveSideKeepsInv ==
  ASSUME Inv, ClearRxRequest \/ \E n \in 1..rx : comms_can_read(n)
  PROVE  Inv'
  <1>1. /\ Port \in PortType /\ Bounded(Port) /\ \A d \in Buses : Works(Port, d)
        /\ Port.rx = rx
    BY PortOfInv DEF Port
  <1>2. CASE ClearRxRequest
    <2> DEFINE p == [Port EXCEPT !.rx = 0]
               q == OutComplete(p)
    <2>1. Become(q) /\ UNCHANGED usbVars
      BY <1>2 DEF ClearRxRequest
    <2>2. /\ p \in PortType /\ p.tx = Port.tx /\ p.mailbox = Port.mailbox
          /\ p.nak = Port.nak /\ p.processing = Port.processing
      <3>1. 0 \in 0..RxCapacity
        BY BusAssumption DEF BusAssumption
      <3> QED
        BY <1>1, <3>1 DEF PortType
    <2> HIDE DEF p
    <2>3. Bounded(p) /\ (Justified(Port) => (p.nak => ~p.processing))
      BY <1>1, <2>2 DEF Bounded, Justified
    <2>4. /\ q \in PortType /\ Bounded(q) /\ q.tx = p.tx /\ q.mailbox = p.mailbox
          /\ (Justified(Port) => Justified(q)) /\ (q.nak => p.nak)
      BY <2>2, <2>3, OutCompleteStep
    <2>5. \A d \in Buses : Works(q, d)
      BY <1>1, <2>2, <2>4 DEF Works
    <2>6. chunk' \in Seq(HostFrames) /\ UNCHANGED <<unread, complete, configured>>
      BY <2>1 DEF Inv, TypeOK, usbVars
    <2> HIDE DEF q
    <2> QED
      BY <2>1, <2>2, <2>4, <2>5, <2>6, HandlerKeepsInv
  <1>3. CASE \E n \in 1..rx : comms_can_read(n)
    <2>1. PICK n \in 1..rx : comms_can_read(n)
      BY <1>3
    <2> DEFINE q == [Port EXCEPT !.rx = rx - n]
    <2>2. rx \in 0..RxCapacity /\ RxCapacity \in Nat /\ rx - n \in 0..RxCapacity
      BY <2>1, BusAssumption DEF Inv, TypeOK, BusAssumption
    <2>3. /\ q \in PortType /\ q.tx = Port.tx /\ q.mailbox = Port.mailbox
          /\ q.nak = Port.nak /\ q.processing = Port.processing /\ q.rx = rx - n
      BY <1>1, <2>2 DEF PortType
    <2>4. /\ Bounded(q) /\ \A d \in Buses : Works(q, d)
          /\ Justified(Port) => Justified(q)
      BY <1>1, <2>3 DEF Bounded, Works, Justified, can_tx_check_min_slots_free
    <2>5. Become(q)
      BY <2>1, <2>3 DEF Become, Port, comms_can_read
    <2>6. chunk' \in Seq(HostFrames) /\ UNCHANGED <<unread, complete, configured>>
      BY <2>1 DEF Inv, TypeOK, comms_can_read, usbVars
    <2> HIDE DEF q
    <2> QED
      BY <2>3, <2>4, <2>5, <2>6, HandlerKeepsInv
  <1> QED
    BY <1>2, <1>3

LEMMA ConnectionKeepsInv ==
  ASSUME Inv, usb_reset \/ SetConfiguration
  PROVE  Inv'
  <1>1. TypeOK'
    <2>1. <<>> \in Seq([frames : Seq(HostFrames), last : BOOLEAN])
      OBVIOUS
    <2>2. CASE usb_reset
      BY <2>1, <2>2 DEF Inv, TypeOK, usb_reset, portVars
    <2>3. CASE SetConfiguration
      BY <2>3 DEF Inv, TypeOK, SetConfiguration
    <2> QED
      BY <2>2, <2>3
  <1>2. MailboxesWork'
    BY DEF Inv, MailboxesWork, usb_reset, SetConfiguration, portVars
  <1>3. NoLostWakeup' /\ RefusedAfterLast'
    BY DEF NoLostWakeup, RefusedAfterLast, usb_reset, SetConfiguration
  <1> QED
    BY <1>1, <1>2, <1>3 DEF Inv

LEMMA NextInv == Inv /\ [Next]_vars => Inv'
  <1> SUFFICES ASSUME Inv, [Next]_vars PROVE Inv'
    OBVIOUS
  <1>1. ASSUME NEW b \in Buses, TxDone(b) PROVE Inv'
    BY <1>1, MailboxDone DEF TxDone
  <1>2. ASSUME NEW b \in Buses, NEW outcome \in {"sent", "failed"}, can_sce(b, outcome) PROVE Inv'
    BY <1>2, MailboxDone DEF can_sce
  <1>3. ASSUME NEW b \in Buses, CAN_TX_IRQ(b) \/ ClearTxRequest(b) \/ can_init(b) PROVE Inv'
    BY <1>3, SingleStepsKeepInv
  <1>4. CASE Forward
    BY <1>4, ForwardKeepsInv DEF Forward
  <1>5. ASSUME NEW f \in HostFrames, NEW last \in BOOLEAN, HostSends(<<f>>, last) PROVE Inv'
    BY <1>5, HostSendsKeepsInv
  <1>6. CASE UsbData \/ UsbOutComplete
    BY <1>6, UsbDataKeepsInv, OutCompleteKeepsInv
  <1>7. ASSUME NEW admitted \in BOOLEAN, comms_can_write(admitted) PROVE Inv'
    BY <1>7, WriteKeepsInv
  <1>8. CASE ClearRxRequest \/ \E n \in 1..rx : comms_can_read(n)
    BY <1>8, ReceiveSideKeepsInv
  <1>9. CASE usb_reset \/ SetConfiguration
    BY <1>9, ConnectionKeepsInv
  <1>10. CASE can_init_all
    BY <1>10, RestartAllKeepsInv
  <1>11. CASE UNCHANGED vars
    <2>1. UNCHANGED <<tx, mailbox, rx, nak, processing, chunk, unread, complete, configured>>
      BY <1>11 DEF vars, portVars, usbVars
    <2>2. TypeOK' /\ MailboxesWork' /\ RefusedAfterLast'
      BY <2>1 DEF Inv, TypeOK, MailboxesWork, RefusedAfterLast
    <2>3. NoLostWakeup'
      BY <2>1 DEF Inv, NoLostWakeup, Port, can_tx_check_min_slots_free
    <2> QED
      BY <2>2, <2>3 DEF Inv
  <1> QED
    BY <1>1, <1>2, <1>3, <1>4, <1>5, <1>6, <1>7, <1>8, <1>9, <1>10, <1>11 DEF Next

LEMMA Invariant == Spec => []Inv
  <1>1. Init => Inv
    BY InitInv
  <1>2. Inv /\ [Next]_vars => Inv'
    BY NextInv
  <1> QED
    BY <1>1, <1>2, PTL DEF Spec

\* Queues stay within their rings and every variable in its range, for all
\* capacities, frames and frame assignments.
THEOREM TypeCorrect == Spec => []TypeOK
  BY Invariant, PTL DEF Inv

\* The host is never refused without a reason that a handler will remove.
THEOREM NoWakeupIsLost == Spec => []NoLostWakeup
  BY Invariant, PTL DEF Inv

\* No frame waits in a queue whose mailbox is idle.
THEOREM QueuesAreServed == Spec => []MailboxesWork
  BY Invariant, PTL DEF Inv

-----------------------------------------------------------------------------
(* The order of frames: what each step of the port does to the frames that *)
(* still have to leave, mailbox first.                                     *)

Acc(p) == [b \in Buses |->
  IF p.mailbox[b].status = "requested" THEN <<p.mailbox[b].frame>> \o p.tx[b] ELSE p.tx[b]]

\* BusOrder's Clear, of two values of the queue.
Cut(old, new, B) ==
  /\ DOMAIN new = Buses
  /\ \A b \in Buses \ B : new[b] = old[b]
  /\ \A b \in B : new[b] = <<>> \/ (old[b] # <<>> /\ new[b] = <<Head(old[b])>>)

LEMMA HeadThenTail ==
  ASSUME NEW S, NEW s \in Seq(S), s # <<>>
  PROVE  <<Head(s)>> \o Tail(s) = s
  OBVIOUS

LEMMA ConsSeq ==
  ASSUME NEW S, NEW s \in Seq(S), NEW x
  PROVE  /\ <<x>> \o s # <<>>
         /\ Head(<<x>> \o s) = x /\ Tail(<<x>> \o s) = s
         /\ \A y : <<x>> \o Append(s, y) = Append(<<x>> \o s, y)
         /\ <<x>> \o <<>> = <<x>>
  OBVIOUS

LEMMA AccOutComplete ==
  ASSUME NEW p \in PortType, Bounded(p)
  PROVE  Acc(OutComplete(p)) = Acc(p)
  BY OutCompleteStep DEF Acc

LEMMA AccPushRx ==
  ASSUME NEW p \in PortType, Bounded(p)
  PROVE  Acc(PushRx(p)) = Acc(p)
  BY PushRxStep DEF Acc

LEMMA AccPushTx ==
  ASSUME NEW p \in PortType, NEW b \in Buses, NEW f \in Frames
  PROVE  \/ Acc(PushTx(p, b, f)) = Acc(p)
         \/ Acc(PushTx(p, b, f)) = [Acc(p) EXCEPT ![b] = Append(@, f)]
  <1> DEFINE q == [p EXCEPT !.tx[b] = Append(@, f)]
  <1>1. CASE ~(Len(p.tx[b]) < Capacity)
    BY <1>1 DEF PushTx
  <1>2. CASE Len(p.tx[b]) < Capacity
    <2>1. PushTx(p, b, f) = q
      BY <1>2 DEF PushTx
    <2>2. /\ q.mailbox = p.mailbox /\ q.tx[b] = Append(p.tx[b], f)
          /\ \A d \in Buses \ {b} : q.tx[d] = p.tx[d]
          /\ p.tx[b] \in Seq(Frames)
      BY DEF PortType
    <2> HIDE DEF q
    <2>3. <<p.mailbox[b].frame>> \o Append(p.tx[b], f) = Append(<<p.mailbox[b].frame>> \o p.tx[b], f)
      BY <2>2, ConsSeq
    <2>4. Acc(q)[b] = Append(Acc(p)[b], f)
      BY <2>2, <2>3 DEF Acc
    <2>5. \A d \in Buses \ {b} : Acc(q)[d] = Acc(p)[d]
      BY <2>2 DEF Acc
    <2>6. DOMAIN Acc(q) = Buses /\ DOMAIN Acc(p) = Buses /\ Acc(q) = [d \in Buses |-> Acc(q)[d]]
      BY DEF Acc
    <2>7. Acc(q) = [Acc(p) EXCEPT ![b] = Append(@, f)]
      BY <2>4, <2>5, <2>6
    <2> QED
      BY <2>1, <2>7
  <1> QED
    BY <1>1, <1>2

LEMMA AccProcessCan ==
  ASSUME NEW p \in PortType, Bounded(p), NEW b \in Buses
  PROVE  Acc(process_can(p, b)) = Acc(p)
  <1> DEFINE e == IF p.mailbox[b].status = "sent" THEN PushRx(p) ELSE p
             freed == [e EXCEPT !.mailbox[b] = EmptyMailbox]
             popped == [e EXCEPT !.mailbox[b] = Requested(Head(p.tx[b])), !.tx[b] = Tail(@)]
  <1>1. CASE p.mailbox[b].status = "requested"
    BY <1>1 DEF process_can
  <1>2. e \in PortType /\ Bounded(e) /\ e.tx = p.tx /\ e.mailbox = p.mailbox
    BY PushRxStep
  <1> HIDE DEF e
  <1>3. CASE p.mailbox[b].status # "requested" /\ p.tx[b] = <<>>
    <2>1. process_can(p, b) = freed
      BY <1>3 DEF process_can, e
    <2>2. /\ freed.tx = p.tx /\ freed.mailbox[b] = EmptyMailbox
          /\ \A d \in Buses \ {b} : freed.mailbox[d] = p.mailbox[d]
      BY <1>2 DEF PortType
    <2>3. EmptyMailbox.status # "requested"
      BY DEF EmptyMailbox
    <2> HIDE DEF freed
    <2> QED
      BY <1>3, <2>1, <2>2, <2>3 DEF Acc
  <1>4. CASE p.mailbox[b].status # "requested" /\ p.tx[b] # <<>>
    <2>1. process_can(p, b) = OutComplete(popped)
      BY <1>4 DEF process_can, e
    <2>2. /\ p.tx[b] \in Seq(Frames) /\ Head(p.tx[b]) \in Frames /\ Tail(p.tx[b]) \in Seq(Frames)
          /\ Len(Tail(p.tx[b])) = Len(p.tx[b]) - 1
      BY <1>4 DEF PortType
    <2>3. /\ Requested(Head(p.tx[b])) \in Mailboxes
          /\ Requested(Head(p.tx[b])).status = "requested"
          /\ Requested(Head(p.tx[b])).frame = Head(p.tx[b])
      BY <2>2 DEF Requested, Mailboxes, Statuses
    <2>4. /\ popped.tx[b] = Tail(p.tx[b]) /\ \A d \in Buses \ {b} : popped.tx[d] = p.tx[d]
          /\ popped.mailbox[b] = Requested(Head(p.tx[b]))
          /\ \A d \in Buses \ {b} : popped.mailbox[d] = p.mailbox[d]
      BY <1>2, <2>2, <2>3 DEF PortType
    <2>5. OutComplete(popped).tx = popped.tx /\ OutComplete(popped).mailbox = popped.mailbox
      BY DEF OutComplete
    <2> HIDE DEF popped
    <2>6. <<Head(p.tx[b])>> \o Tail(p.tx[b]) = p.tx[b]
      BY <1>4, <2>2, HeadThenTail
    <2>7. \A d \in Buses : Acc(OutComplete(popped))[d] = Acc(p)[d]
      BY <1>4, <2>3, <2>4, <2>5, <2>6 DEF Acc
    <2>8. Acc(OutComplete(popped)) = Acc(p)
      BY <2>7 DEF Acc
    <2> QED
      BY <2>1, <2>8
  <1> QED
    BY <1>1, <1>3, <1>4

LEMMA AccCanSend ==
  ASSUME NEW p \in PortType, Bounded(p), NEW b \in Buses, NEW f \in Frames
  PROVE  \/ Acc(can_send(p, b, f)) = Acc(p)
         \/ Acc(can_send(p, b, f)) = [Acc(p) EXCEPT ![b] = Append(@, f)]
  <1> DEFINE q == PushTx(p, b, f)
  <1>1. q \in PortType /\ Bounded(q)
    BY PushTxStep
  <1>2. Acc(q) = Acc(p) \/ Acc(q) = [Acc(p) EXCEPT ![b] = Append(@, f)]
    BY AccPushTx
  <1> HIDE DEF q
  <1>3. Acc(process_can(q, b)) = Acc(q)
    BY <1>1, AccProcessCan
  <1> QED
    BY <1>2, <1>3 DEF can_send, q

LEMMA AccClearTx ==
  ASSUME NEW p \in PortType, Bounded(p), NEW b \in Buses
  PROVE  Cut(Acc(p), Acc(ClearTx(p, b)), {b})
  <1> DEFINE q == [p EXCEPT !.tx[b] = <<>>]
  <1>1. /\ q.mailbox = p.mailbox /\ q.tx[b] = <<>>
        /\ \A d \in Buses \ {b} : q.tx[d] = p.tx[d]
        /\ p.tx[b] \in Seq(Frames)
    BY DEF PortType
  <1>2. ClearTx(p, b).tx = q.tx /\ ClearTx(p, b).mailbox = q.mailbox
    BY DEF ClearTx, OutComplete
  <1> HIDE DEF q
  <1>3. \A d \in Buses \ {b} : Acc(ClearTx(p, b))[d] = Acc(p)[d]
    BY <1>1, <1>2 DEF Acc
  <1>4. CASE p.mailbox[b].status = "requested"
    <2>1. /\ Acc(p)[b] # <<>> /\ Head(Acc(p)[b]) = p.mailbox[b].frame
      BY <1>1, <1>4, ConsSeq DEF Acc
    <2>2. Acc(ClearTx(p, b))[b] = <<p.mailbox[b].frame>>
      BY <1>1, <1>2, <1>4, ConsSeq DEF Acc
    <2> QED
      BY <1>3, <2>1, <2>2 DEF Cut, Acc
  <1>5. CASE p.mailbox[b].status # "requested"
    BY <1>1, <1>2, <1>3, <1>5 DEF Cut, Acc
  <1> QED
    BY <1>4, <1>5

\* Becoming q shows BusOrder the frames of q.
LEMMA BecomeShows ==
  ASSUME Inv, NEW q \in PortType, Become(q)
  PROVE  Accepted = Acc(Port) /\ Accepted' = Acc(q)
  BY DEF Accepted, Acc, Port, Become

LEMMA DoneIsLeave ==
  ASSUME Inv, NEW b \in Buses, NEW outcome \in {"sent", "failed"},
         mailbox[b].status = "requested",
         mailbox' = [mailbox EXCEPT ![b].status = outcome], tx' = tx
  PROVE  Order!Leave(b)
  <1>1. tx[b] \in Seq(Frames) /\ mailbox \in [Buses -> Mailboxes]
    BY DEF Inv, TypeOK, Mailboxes
  <1>2. mailbox'[b].status = outcome /\ \A d \in Buses \ {b} : mailbox'[d] = mailbox[d]
    BY <1>1 DEF Mailboxes
  <1>3. Accepted[b] = <<mailbox[b].frame>> \o tx[b]
    BY DEF Accepted
  <1>4. Accepted[b] # <<>> /\ Tail(Accepted[b]) = tx[b]
    BY <1>1, <1>3, ConsSeq
  <1>5. Accepted'[b] = tx[b] /\ \A d \in Buses \ {b} : Accepted'[d] = Accepted[d]
    BY <1>2 DEF Accepted
  <1>6. Accepted' = [Accepted EXCEPT ![b] = Tail(@)]
    <2>1. Accepted' = [d \in Buses |-> Accepted'[d]] /\ Accepted = [d \in Buses |-> Accepted[d]]
      BY DEF Accepted
    <2> QED
      BY <1>4, <1>5, <2>1
  <1> QED
    BY <1>4, <1>6 DEF Order!Leave

LEMMA CutIsClear ==
  ASSUME Inv, NEW q \in PortType, NEW B \in SUBSET Buses, Become(q), Cut(Acc(Port), Acc(q), B)
  PROVE  Order!Clear(B)
  BY BecomeShows DEF Cut, Order!Clear

LEMMA CutCut ==
  ASSUME NEW o, NEW m, NEW n, NEW B \in SUBSET Buses, NEW b \in Buses \ B,
         Cut(o, m, B), Cut(m, n, {b})
  PROVE  Cut(o, n, B \cup {b})
  BY DEF Cut

LEMMA RestartCuts ==
  ASSUME NEW p \in PortType, Bounded(p), NEW b \in Buses
  PROVE  Cut(Acc(p), Acc(Restarted(p, b)), {b})
  <1> DEFINE q == ClearTx(p, b)
  <1>1. q \in PortType /\ Bounded(q)
    BY ClearTxStep
  <1>2. Cut(Acc(p), Acc(q), {b})
    BY AccClearTx
  <1> HIDE DEF q
  <1>3. Acc(process_can(q, b)) = Acc(q)
    BY <1>1, AccProcessCan
  <1> QED
    BY <1>2, <1>3 DEF Restarted, q

LEMMA RestartAllIsClear ==
  ASSUME Inv, can_init_all
  PROVE  Order!Clear(Buses)
  <1> DEFINE p0 == Restarted(Port, 0)
             p1 == Restarted(p0, 1)
             p2 == Restarted(p1, 2)
  <1>1. /\ Port \in PortType /\ Bounded(Port) /\ \A d \in Buses : Works(Port, d)
    BY PortOfInv
  <1>2. Buses = {0, 1, 2}
    BY DEF Buses
  <1>3. Become(p2)
    BY DEF can_init_all, Restarted
  <1>4. /\ p0 \in PortType /\ Bounded(p0) /\ \A d \in Buses : Works(p0, d)
        /\ Cut(Acc(Port), Acc(p0), {0})
    BY <1>1, <1>2, RestartStep, RestartCuts
  <1> HIDE DEF p0
  <1>5. /\ p1 \in PortType /\ Bounded(p1) /\ \A d \in Buses : Works(p1, d)
        /\ Cut(Acc(p0), Acc(p1), {1})
    BY <1>2, <1>4, RestartStep, RestartCuts
  <1> HIDE DEF p1
  <1>6. /\ p2 \in PortType
        /\ Cut(Acc(p1), Acc(p2), {2})
    BY <1>2, <1>5, RestartStep, RestartCuts
  <1> HIDE DEF p2
  <1>7. Cut(Acc(Port), Acc(p1), {0} \cup {1})
    BY <1>2, <1>4, <1>5, CutCut
  <1>8. Cut(Acc(Port), Acc(p2), {0, 1} \cup {2})
    <2>1. {0} \cup {1} = {0, 1} /\ {0, 1} \in SUBSET Buses /\ 2 \in Buses \ {0, 1}
      BY <1>2
    <2> QED
      BY <1>6, <1>7, <2>1, CutCut
  <1>9. {0, 1} \cup {2} = Buses
    BY <1>2
  <1> QED
    BY <1>3, <1>6, <1>8, <1>9, CutIsClear

LEMMA StepOfOrder == Inv /\ [Next]_vars => [Order!Next]_Accepted
  <1> SUFFICES ASSUME Inv, [Next]_vars PROVE [Order!Next]_Accepted
    OBVIOUS
  <1>1. /\ Port \in PortType /\ Bounded(Port) /\ \A d \in Buses : Works(Port, d)
    BY PortOfInv
  <1>2. ASSUME tx' = tx, mailbox' = mailbox PROVE Accepted' = Accepted
    BY <1>2 DEF Accepted
  <1>3. ASSUME NEW b \in Buses, TxDone(b) PROVE Order!Next
    BY <1>3, DoneIsLeave DEF TxDone, Order!Next
  <1>4. ASSUME NEW b \in Buses, NEW outcome \in {"sent", "failed"}, can_sce(b, outcome)
        PROVE  Order!Next
    BY <1>4, DoneIsLeave DEF can_sce, Order!Next
  <1>5. ASSUME NEW b \in Buses, CAN_TX_IRQ(b) \/ can_init(b) PROVE Accepted' = Accepted
    <2>1. Become(process_can(Port, b))
      BY <1>5 DEF CAN_TX_IRQ, can_init
    <2>2. process_can(Port, b) \in PortType
      BY <1>1, ProcessCanStep
    <2>3. Acc(process_can(Port, b)) = Acc(Port)
      BY <1>1, AccProcessCan
    <2> QED
      BY <2>1, <2>2, <2>3, BecomeShows
  <1>6. ASSUME NEW b \in Buses, ClearTxRequest(b) PROVE Order!Next
    <2>1. Become(ClearTx(Port, b))
      BY <1>6 DEF ClearTxRequest
    <2>2. ClearTx(Port, b) \in PortType
      BY <1>1, ClearTxStep
    <2>3. Cut(Acc(Port), Acc(ClearTx(Port, b)), {b}) /\ {b} \in SUBSET Buses
      BY <1>1, AccClearTx
    <2>4. Order!Clear({b})
      BY <2>1, <2>2, <2>3, CutIsClear
    <2> QED
      BY <2>3, <2>4 DEF Order!Next
  <1>7. CASE can_init_all
    <2>1. Order!Clear(Buses) /\ Buses \in SUBSET Buses
      BY <1>7, RestartAllIsClear
    <2> QED
      BY <2>1 DEF Order!Next
  <1>8. ASSUME NEW b \in Buses, NEW f \in CarFrames[b], NEW m \in BOOLEAN, can_rx(b, f, m)
        PROVE  [Order!Next]_Accepted
    <2> DEFINE d == safety_fwd_hook(b, f, m)
               s == IF d = -1 THEN Port ELSE can_send(Port, d, f)
    <2>1. f \in Frames
      BY DEF Frames
    <2>2. d = -1 \/ d \in Buses
      BY DEF safety_fwd_hook, toyota_fwd_hook, Buses
    <2>3. Become(PushRx(s))
      BY <1>8 DEF can_rx
    <2> HIDE DEF d
    <2>4. CASE d = -1
      <3>1. s = Port
        BY <2>4
      <3>2. PushRx(Port) \in PortType /\ Acc(PushRx(Port)) = Acc(Port)
        BY <1>1, PushRxStep, AccPushRx
      <3>3. Become(PushRx(Port))
        BY <2>3, <3>1
      <3> HIDE DEF s
      <3> QED
        BY <3>2, <3>3, BecomeShows
    <2>5. CASE d \in Buses /\ d # -1
      <3>1. can_send(Port, d, f) \in PortType /\ Bounded(can_send(Port, d, f))
        BY <1>1, <2>1, <2>5, CanSendStep
      <3>2. \/ Acc(can_send(Port, d, f)) = Acc(Port)
            \/ Acc(can_send(Port, d, f)) = [Acc(Port) EXCEPT ![d] = Append(@, f)]
        BY <1>1, <2>1, <2>5, AccCanSend
      <3>3. s = can_send(Port, d, f)
        BY <2>5
      <3> HIDE DEF s
      <3>4. PushRx(s) \in PortType /\ Acc(PushRx(s)) = Acc(s)
        BY <3>1, <3>3, PushRxStep, AccPushRx
      <3>5. Accepted = Acc(Port) /\ Accepted' = Acc(s)
        BY <2>3, <3>4, BecomeShows
      <3>6. Accepted' = Accepted \/ Order!Accept(d, f)
        BY <3>2, <3>3, <3>5 DEF Order!Accept
      <3> QED
        BY <2>1, <2>5, <3>6 DEF Order!Next
    <2> QED
      BY <2>2, <2>4, <2>5
  <1>9. ASSUME NEW admitted \in BOOLEAN, comms_can_write(admitted)
        PROVE  [Order!Next]_Accepted
    <2> DEFINE f == Head(chunk)
               b == BusOf[f]
               s == IF admitted THEN can_send(Port, b, f) ELSE PushRx(Port)
    <2>1. chunk \in Seq(HostFrames) /\ chunk # <<>>
      BY <1>9 DEF comms_can_write, Idle, Inv, TypeOK
    <2>2. f \in HostFrames
      BY <2>1
    <2>3. f \in Frames /\ b \in Buses
      BY <2>2, BusAssumption DEF Frames, BusAssumption
    <2>4. Become(s)
      BY <1>9 DEF comms_can_write
    <2> HIDE DEF f, b
    <2>5. CASE admitted
      <3>1. can_send(Port, b, f) \in PortType
        BY <1>1, <2>3, CanSendStep
      <3>2. \/ Acc(can_send(Port, b, f)) = Acc(Port)
            \/ Acc(can_send(Port, b, f)) = [Acc(Port) EXCEPT ![b] = Append(@, f)]
        BY <1>1, <2>3, AccCanSend
      <3>3. Become(can_send(Port, b, f))
        BY <2>4, <2>5
      <3>4. Accepted = Acc(Port) /\ Accepted' = Acc(can_send(Port, b, f))
        BY <3>1, <3>3, BecomeShows
      <3>5. Accepted' = Accepted \/ Order!Accept(b, f)
        BY <3>2, <3>4 DEF Order!Accept
      <3> QED
        BY <2>3, <3>5 DEF Order!Next
    <2>6. CASE ~admitted
      <3>1. PushRx(Port) \in PortType /\ Acc(PushRx(Port)) = Acc(Port)
        BY <1>1, PushRxStep, AccPushRx
      <3>2. Become(PushRx(Port))
        BY <2>4, <2>6
      <3> QED
        BY <3>1, <3>2, BecomeShows
    <2> QED
      BY <2>5, <2>6
  <1>10. ASSUME NEW f \in HostFrames, NEW last \in BOOLEAN, HostSends(<<f>>, last)
         PROVE  Accepted' = Accepted
    BY <1>2, <1>10 DEF HostSends
  <1>11. CASE UsbData \/ usb_reset \/ SetConfiguration \/ \E n \in 1..rx : comms_can_read(n)
    BY <1>2, <1>11 DEF UsbData, usb_reset, SetConfiguration, comms_can_read, portVars
  <1>12. CASE UsbOutComplete \/ ClearRxRequest
    BY <1>2, <1>12 DEF UsbOutComplete, ClearRxRequest, Become, OutComplete, Port
  <1>13. CASE UNCHANGED vars
    BY <1>2, <1>13 DEF vars, portVars
  <1> QED
    BY <1>3, <1>4, <1>5, <1>6, <1>7, <1>8, <1>9, <1>10, <1>11, <1>12, <1>13 DEF Next, Forward

\* The transmit side implements BusOrder: what is accepted for a bus leaves in
\* order, once, for every capacity and every mix of host and forwarded frames.
THEOREM Implements == Spec => ImplementsBusOrder
  <1>1. Init => Order!Init
    BY DEF Init, Order!Init, Accepted, EmptyMailbox
  <1>2. Inv /\ [Next]_vars => [Order!Next]_Accepted
    BY StepOfOrder
  <1> QED
    BY <1>1, <1>2, Invariant, PTL DEF Spec, ImplementsBusOrder, Order!Spec
=============================================================================
