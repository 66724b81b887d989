------------------------------- MODULE CanBus -------------------------------
(***************************************************************************)
(* The panda's transmit side: the queues of can_common.h, the hardware     *)
(* mailbox of bxcan.h, the forwarding between car and camera, and the USB  *)
(* OUT endpoint that is paused while a queue is short of room.             *)
(*                                                                         *)
(* Interrupt handlers do not preempt each other (no priority is ever set), *)
(* so a handler is one action; comms_can_write is one per frame, since the *)
(* hardware goes on meanwhile.  A ring is the sequence of its packets      *)
(* (CanRing!Implements).  Of the receive ring only the fill level is kept. *)
(***************************************************************************)
EXTENDS Integers, Sequences, FiniteSets

CONSTANTS
  HostFrames,      \* what the host sends
  CarFrames,       \* CarFrames[b]: what other controllers send on bus b
  BusOf,           \* BusOf[f]: the bus a host frame is for
  Blocked,         \* frames of the camera that openpilot replaces
  NoFrame,
  Capacity,        \* fifo_size - 1 of a transmit queue (415)
  RxCapacity,      \* fifo_size - 1 of the receive queue (4095)
  MinSlots,        \* MAX_CAN_MSGS_PER_BULK_TRANSFER (51)
  MaxUnread        \* bound: USB packets in the core's receive FIFO

\* CAN_CNT controllers; the GMLAN queue stays empty on the car's harness.
Buses == 0..2
Frames == HostFrames \cup UNION {CarFrames[b] : b \in Buses}

ASSUME BusAssumption ==
  /\ CarFrames \in [Buses -> SUBSET Frames] /\ BusOf \in [HostFrames -> Buses]
  /\ NoFrame \notin Frames
  /\ Capacity \in Nat /\ RxCapacity \in Nat
  /\ MinSlots \in 1..Capacity /\ MaxUnread \in Nat \ {0}

VARIABLES
  tx,              \* can_queues: per bus, the frames that wait
  mailbox,         \* per bus, mailbox 0: its status and frame
  rx,              \* how many packets wait in can_rx_q
  nak,             \* the core refuses data for endpoint 3 (NAKSTS)
  processing,      \* outep3_processing
  chunk,           \* what comms_can_write still has to go through
  unread,          \* USB packets received and not read: [frames, last]
  complete,        \* transfer complete (XFRC) pending on endpoint 3
  configured       \* the host has configured the device

portVars == <<tx, mailbox, rx, nak, processing>>
usbVars == <<chunk, unread, complete, configured>>
vars == <<portVars, usbVars>>

Statuses == {"empty", "requested", "sent", "failed"}
EmptyMailbox == [status |-> "empty", frame |-> NoFrame]
Requested(f) == [status |-> "requested", frame |-> f]

-----------------------------------------------------------------------------
(* What the handlers are made of: steps of the port's state, a record.     *)

Port == [tx |-> tx, mailbox |-> mailbox, rx |-> rx, nak |-> nak, processing |-> processing]

Become(p) ==
  /\ tx' = p.tx /\ mailbox' = p.mailbox /\ rx' = p.rx
  /\ nak' = p.nak /\ processing' = p.processing

can_tx_check_min_slots_free(p) == \A b \in Buses : Capacity - Len(p.tx[b]) >= MinSlots

\* usb_cb_ep3_out_complete with usb_outep3_resume_if_paused.
OutComplete(p) ==
  IF can_tx_check_min_slots_free(p) /\ ~p.processing THEN [p EXCEPT !.nak = FALSE] ELSE p

PushRx(p) == IF p.rx < RxCapacity THEN [p EXCEPT !.rx = @ + 1] ELSE p

\* Mutant: the queue is filled beyond its last slot.
PushTxToTheLast(p, b, f) == [p EXCEPT !.tx[b] = Append(@, f)]
PushTx(p, b, f) ==
  IF Len(p.tx[b]) < Capacity THEN [p EXCEPT !.tx[b] = Append(@, f)] ELSE p

\* can_clear of a transmit queue.
ClearTx(p, b) == OutComplete([p EXCEPT !.tx[b] = <<>>])

\* Mutant: the endpoint is not resumed when a frame leaves the queue.
process_canNoResume(p, b) ==
  IF p.mailbox[b].status = "requested" THEN p
  ELSE LET echoed == IF p.mailbox[b].status = "sent" THEN PushRx(p) ELSE p
       IN IF p.tx[b] = <<>> THEN [echoed EXCEPT !.mailbox[b] = EmptyMailbox]
          ELSE [echoed EXCEPT !.mailbox[b] = Requested(Head(p.tx[b])), !.tx[b] = Tail(@)]
process_can(p, b) ==
  IF p.mailbox[b].status = "requested" THEN p
  ELSE LET echoed == IF p.mailbox[b].status = "sent" THEN PushRx(p) ELSE p
       IN IF p.tx[b] = <<>> THEN [echoed EXCEPT !.mailbox[b] = EmptyMailbox]
          ELSE OutComplete([echoed EXCEPT !.mailbox[b] = Requested(Head(p.tx[b])),
                                          !.tx[b] = Tail(@)])

\* Mutant: a frame for a free mailbox does not queue behind those that wait.
can_sendDirect(p, b, f) ==
  IF p.mailbox[b].status \in {"sent", "failed"} /\ p.tx[b] # <<>>
  THEN [p EXCEPT !.mailbox[b] = Requested(f)]
  ELSE process_can(PushTx(p, b, f), b)
\* Mutant: the frame waits for the next transmit interrupt.
can_sendLazy(p, b, f) == PushTx(p, b, f)
\* can_send of a frame the safety hook lets through.
can_send(p, b, f) == process_can(PushTx(p, b, f), b)

\* toyota_fwd_hook: the bus a frame received on bus b is forwarded to, or -1.
toyota_fwd_hook(b, f) == CASE b = 0 -> 2 [] b = 2 /\ f \notin Blocked -> 0 [] OTHER -> -1

safety_fwd_hook(b, f, relay_malfunction) ==
  IF relay_malfunction THEN -1 ELSE toyota_fwd_hook(b, f)

-----------------------------------------------------------------------------
(* Hardware and host                                                       *)

\* The controller has sent the frame of its mailbox.
TxDone(b) ==
  /\ mailbox[b].status = "requested"
  /\ mailbox' = [mailbox EXCEPT ![b].status = "sent"]
  /\ UNCHANGED <<tx, rx, nak, processing, usbVars>>

\* A USB packet arrives; the last one of a transfer makes the core refuse more.
HostSends(frames, last) ==
  /\ configured /\ ~nak /\ Len(unread) < MaxUnread
  /\ unread' = Append(unread, [frames |-> frames, last |-> last])
  /\ nak' = last
  /\ UNCHANGED <<tx, mailbox, rx, processing, chunk, complete, configured>>

-----------------------------------------------------------------------------
(* Interrupt handlers                                                      *)

\* No handler is in the middle of a USB packet.
Idle == chunk = <<>>

\* CANx_TX_IRQ_Handler.
CAN_TX_IRQ(b) ==
  /\ Idle /\ mailbox[b].status \in {"sent", "failed"}
  /\ Become(process_can(Port, b)) /\ UNCHANGED usbVars

\* CANx_RX0_IRQ_Handler: forward the frame, then hand it to the host.
can_rx(b, f, relay_malfunction) ==
  /\ Idle
  /\ LET bus_fwd == safety_fwd_hook(b, f, relay_malfunction)
     IN Become(PushRx(IF bus_fwd = -1 THEN Port ELSE can_send(Port, bus_fwd, f)))
  /\ UNCHANGED usbVars

\* A bus error aborts the mailbox, unless its frame is through already.
can_sce(b, outcome) ==
  /\ Idle /\ mailbox[b].status = "requested"
  /\ mailbox' = [mailbox EXCEPT ![b].status = outcome]
  /\ UNCHANGED <<tx, rx, nak, processing, usbVars>>

\* The USB interrupt takes a packet of endpoint 3 out of the receive FIFO.
UsbData ==
  /\ Idle /\ unread # <<>>
  /\ processing' = TRUE
  /\ chunk' = Head(unread).frames
  /\ unread' = Tail(unread)
  /\ complete' = (complete \/ Head(unread).last)
  /\ UNCHANGED <<tx, mailbox, rx, nak, configured>>

\* comms_can_write hands the next frame to can_send.
comms_can_write(admitted) ==
  /\ ~Idle
  /\ LET f == Head(chunk)
     IN Become(IF admitted THEN can_send(Port, BusOf[f], f) ELSE PushRx(Port))
  /\ chunk' = Tail(chunk)
  /\ UNCHANGED <<unread, complete, configured>>

\* Mutant: the check for room comes before the end of the transfer is noted.
UsbOutCompleteEarly ==
  /\ Idle /\ complete
  /\ Become([OutComplete(Port) EXCEPT !.processing = FALSE])
  /\ complete' = FALSE
  /\ UNCHANGED <<chunk, unread, configured>>
\* The USB interrupt sees the end of a transfer on endpoint 3.
UsbOutComplete ==
  /\ Idle /\ complete
  /\ Become(OutComplete([Port EXCEPT !.processing = FALSE]))
  /\ complete' = FALSE
  /\ UNCHANGED <<chunk, unread, configured>>

\* comms_can_read takes packets while they fit.
comms_can_read(n) ==
  /\ Idle /\ configured
  /\ rx' = rx - n
  /\ UNCHANGED <<tx, mailbox, nak, processing, usbVars>>

\* usb_reset flushes the receive FIFO.
usb_reset ==
  /\ Idle
  /\ unread' = <<>> /\ configured' = FALSE
  /\ UNCHANGED <<portVars, chunk, complete>>

\* SET_CONFIGURATION arms endpoint 3 whatever room the queues have.
SetConfiguration ==
  /\ Idle
  /\ configured' = TRUE /\ complete' = FALSE /\ nak' = FALSE
  /\ UNCHANGED <<tx, mailbox, rx, processing, chunk, unread>>

\* Control requests of the host: clear a queue (0xf1), ...
ClearTxRequest(b) == Idle /\ configured /\ Become(ClearTx(Port, b)) /\ UNCHANGED usbVars

ClearRxRequest ==
  /\ Idle /\ configured
  /\ Become(OutComplete([Port EXCEPT !.rx = 0]))
  /\ UNCHANGED usbVars

\* ... set a bit rate (0xde), ...
can_init(b) == Idle /\ configured /\ Become(process_can(Port, b)) /\ UNCHANGED usbVars

\* ... set the safety mode or the loopback, which restart every controller.
can_init_all ==
  /\ Idle
  /\ LET Restart(p, b) == process_can(ClearTx(p, b), b)
     IN Become(Restart(Restart(Restart(Port, 0), 1), 2))
  /\ UNCHANGED usbVars

-----------------------------------------------------------------------------
Init ==
  /\ tx = [b \in Buses |-> <<>>]
  /\ mailbox = [b \in Buses |-> EmptyMailbox]
  /\ rx = 0 /\ nak = TRUE /\ processing = FALSE
  /\ chunk = <<>> /\ unread = <<>> /\ complete = FALSE /\ configured = FALSE

Forward == \E b \in Buses : \E f \in CarFrames[b], m \in BOOLEAN : can_rx(b, f, m)

Next ==
  \/ \E b \in Buses :
       \/ TxDone(b) \/ CAN_TX_IRQ(b)
       \/ \E outcome \in {"sent", "failed"} : can_sce(b, outcome)
       \/ ClearTxRequest(b) \/ can_init(b)
  \/ Forward
  \/ \E f \in HostFrames, last \in BOOLEAN : HostSends(<<f>>, last)
  \/ UsbData \/ UsbOutComplete
  \/ \E admitted \in BOOLEAN : comms_can_write(admitted)
  \/ \E n \in 1..rx : comms_can_read(n)
  \/ usb_reset \/ SetConfiguration \/ ClearRxRequest \/ can_init_all

Spec == Init /\ [][Next]_vars

\* A controller on a live bus sends, and pending interrupts are served.
Fairness ==
  /\ \A b \in Buses : WF_vars(TxDone(b)) /\ WF_vars(CAN_TX_IRQ(b))
  /\ WF_vars(UsbData) /\ WF_vars(UsbOutComplete)
  /\ WF_vars(\E admitted \in BOOLEAN : comms_can_write(admitted))

FairSpec == Spec /\ Fairness

-----------------------------------------------------------------------------
(* Properties                                                              *)

\* Queues stay within the capacity of their rings.
TypeOK ==
  /\ tx \in [Buses -> Seq(Frames)] /\ \A b \in Buses : Len(tx[b]) <= Capacity
  /\ mailbox \in [Buses -> [status : Statuses, frame : Frames \cup {NoFrame}]]
  /\ rx \in 0..RxCapacity
  /\ nak \in BOOLEAN /\ processing \in BOOLEAN /\ complete \in BOOLEAN /\ configured \in BOOLEAN
  /\ chunk \in Seq(HostFrames)
  /\ unread \in Seq([frames : Seq(HostFrames), last : BOOLEAN])

\* No lost wakeup: whenever the host is refused, either the end of its transfer is
\* still to be handled, or some queue lacks room and the handler that makes the
\* room is the one that resumes the endpoint.  A transmit interrupt between the
\* reception of a transfer, its processing and its end cannot strand the host.
NoLostWakeup ==
  configured /\ nak =>
    \/ complete \/ \E i \in DOMAIN unread : unread[i].last
    \/ ~processing /\ ~can_tx_check_min_slots_free(Port)

\* A queue that holds frames has a mailbox at work: every path that queues a frame
\* or frees a mailbox leaves either an empty queue or a pending transmission or
\* interrupt, so frames never wait for traffic that may not come.
MailboxesWork == \A b \in Buses : tx[b] # <<>> => mailbox[b].status # "empty"

\* Frames accepted for a bus leave in order, each once, across mailbox, queue,
\* forwarding, aborts, clears and restarts: the panda implements BusOrder.
Accepted == [b \in Buses |->
  IF mailbox[b].status = "requested" THEN <<mailbox[b].frame>> \o tx[b] ELSE tx[b]]
Order == INSTANCE BusOrder WITH queue <- Accepted
ImplementsBusOrder == Order!Spec

\* Once the camera and the car stop adding frames, a refused host is resumed or
\* gone: back pressure never becomes a standstill.
HostIsResumed == (<>[][~Forward]_vars) => (nak ~> (~nak \/ ~configured))
=============================================================================
