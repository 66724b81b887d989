----------------------------- MODULE CanStream -----------------------------
(***************************************************************************)
(* CAN packets over USB (panda/board/main_comms.h, boardd/panda.cc).  Both *)
(* ways they are a stream of bytes cut into chunks of 64, each headed by   *)
(* its number within the transfer; a packet may cross from one chunk to the*)
(* next.  Only the lengths of packets matter here: a packet is as many     *)
(* units as it has bytes, each of which says whose it is.  The receive     *)
(* queue is the ring of CanRing.  The host's lock lets one transfer at a   *)
(* time through.                                                           *)
(***************************************************************************)
EXTENDS CanRing, SequencesExt

CONSTANTS
  Length,            \* units of each packet: 5 to 13, or up to 69 with CAN FD
  Payload,           \* units of packets in a chunk: 63
  ChunksPerTransfer, \* chunks in RECV_SIZE, and values of the one byte counter: 256
  MaxList            \* packets in a transfer to the panda: 51 reach USB_TX_SOFT_LIMIT

\* No packet is longer than a chunk: true of every panda but the red one.
ASSUME StreamAssumption ==
  /\ Length \in [Packets -> Nat \ {0}] /\ \A x \in Packets : Length[x] <= Payload
  /\ Payload \in Nat \ {0} /\ ChunksPerTransfer \in Nat /\ ChunksPerTransfer >= 3
  /\ MaxList \in Nat /\ MaxList <= ChunksPerTransfer

VARIABLES
  can_read_buffer,   \* the panda's: what is left of a packet, and the number of the next chunk
  total_rx_size,     \* units it has sent in this transfer, with the numbers
  filling,           \* comms_can_read runs: the chunk it fills
  txfifo,            \* chunks the host has yet to fetch: none or one
  host,              \* boardd's transfer
  comms_healthy,     \* boardd's flag, cleared for good by an overflow or a chunk out of order
  can_write_buffer,  \* the panda's: the start of a packet, and the number of the next chunk
  owed,              \* history: packets popped from the ring and not yet received, unless lost
  broken,            \* history: this connection began in the middle of a transfer, or an
                     \* error in a read overflowed or lost chunks
  sent               \* history: the packets of this write that reached the panda's queues

readVars == <<can_read_buffer, total_rx_size, filling, txfifo>>
hostVars == <<host, comms_healthy, broken>>
writeVars == <<can_write_buffer, sent>>
streamVars == <<vars, readVars, hostVars, writeVars, owed>>

Units(x) == [k \in 1..Length[x] |-> <<x, k>>]
UnitsOf(list) == FlattenSeq([i \in DOMAIN list |-> Units(list[i])])
Chunk(number, units) == [number |-> number, units |-> units]
IsFull(chunk) == Len(chunk.units) = Payload
Size(chunk) == Len(chunk.units) + 1
RECV_SIZE == ChunksPerTransfer * (Payload + 1)

\* Mutant: the limit lets one chunk too many through.
LimitOneMore == RECV_SIZE
\* MAX_EP1_CHUNK_PER_BULK_TRANSFER: 16256 of the 16384 that the host asks for.
Limit == RECV_SIZE - 2 * (Payload + 1)

NotFilling == <<>>
HostIdle == [pc |-> "idle", chunks |-> <<>>, list |-> <<>>, todo |-> <<>>]

StreamInit ==
  /\ Init
  /\ can_read_buffer = Chunk(0, <<>>) /\ total_rx_size = 0
  /\ filling = NotFilling /\ txfifo = <<>>
  /\ host = HostIdle /\ comms_healthy = TRUE /\ broken = FALSE
  /\ can_write_buffer = Chunk(0, <<>>) /\ sent = <<>>
  /\ owed = <<>>

-----------------------------------------------------------------------------
(* From the panda to the host                                              *)

\* A packet arrives from a bus; the queue may be cleared by a control request, and
\* what it held is lost.
Arrive(x) == can_push(x) /\ UNCHANGED <<readVars, hostVars, writeVars, owed>>
ClearQueue == can_clear /\ UNCHANGED <<readVars, hostVars, writeVars, owed>>

StartRead ==
  /\ host.pc = "idle" /\ host' = [host EXCEPT !.pc = "reading"]
  /\ UNCHANGED <<vars, readVars, comms_healthy, broken, writeVars, owed>>

Number(n) == n % ChunksPerTransfer

\* The end of comms_can_read: a chunk that is not full is the last of a transfer.
Finish(chunk, number, total, rest) ==
  /\ txfifo' = Append(txfifo, chunk) /\ filling' = NotFilling
  /\ can_read_buffer' = Chunk(IF IsFull(chunk) THEN number ELSE 0, rest)
  /\ total_rx_size' = IF IsFull(chunk) THEN total ELSE 0

Take(units) == SubSeq(units, 1, IF Len(units) < Payload THEN Len(units) ELSE Payload)
Drop(units) == SubSeq(units, Payload + 1, Len(units))

\* comms_can_read, called when the host asks and nothing waits for it: what is left of
\* the last packet comes first.  At the limit nothing else follows.
InToken ==
  /\ host.pc = "reading" /\ txfifo = <<>> /\ filling = NotFilling
  /\ LET chunk == Chunk(can_read_buffer.number, Take(can_read_buffer.units))
         rest == Drop(can_read_buffer.units)
     IN IF total_rx_size > Limit
        THEN Finish(chunk, 0, 0, rest)
        ELSE /\ filling' = <<chunk>> /\ can_read_buffer' = Chunk(chunk.number, rest)
             /\ UNCHANGED <<total_rx_size, txfifo>>
  /\ UNCHANGED <<vars, hostVars, writeVars, owed>>

\* One turn of its loop, or the end when the chunk is full or the queue empty.  Packets
\* may arrive between the turns.
Fill ==
  /\ filling # NotFilling
  /\ LET chunk == filling[1]
         room == Payload - Len(chunk.units)
         units == chunk.units \o Units(elems[r_ptr])
         done(full, rest) == Finish(full, Number(chunk.number + 1), total_rx_size + Size(full), rest)
     IN \/ /\ room = 0 /\ done(chunk, can_read_buffer.units)
           /\ UNCHANGED <<vars, owed>>
        \/ /\ room > 0 /\ w_ptr = r_ptr /\ can_pop /\ done(chunk, <<>>)
           /\ UNCHANGED owed
        \/ /\ room > 0 /\ w_ptr # r_ptr /\ can_pop
           /\ owed' = Append(owed, elems[r_ptr])
           /\ IF Len(units) <= Payload
              THEN /\ filling' = <<Chunk(chunk.number, units)>>
                   /\ UNCHANGED <<can_read_buffer, total_rx_size, txfifo>>
              ELSE done(Chunk(chunk.number, Take(units)), Drop(units))
  /\ UNCHANGED <<hostVars, writeVars>>

\* One more byte of a packet, which is complete when it is as long as its header says:
\* NoPacket for what never was one.
Parse(split, unit) ==
  LET units == Append(split.rest, unit)
      x == units[1][1]
  IN IF Len(units) < Length[x] THEN [split EXCEPT !.rest = units]
     ELSE [packets |-> Append(split.packets, IF units = Units(x) THEN x ELSE NoPacket),
           rest |-> <<>>]

\* A run of bytes read as packets, and the rest that is too short for one.
Split(units) ==
  LET upTo[n \in 0..Len(units)] ==
        IF n = 0 THEN [packets |-> <<>>, rest |-> <<>>] ELSE Parse(upTo[n - 1], units[n])
  IN upTo[Len(units)]

Bytes(chunks) == FlattenSeq([i \in DOMAIN chunks |-> chunks[i].units])
InOrder(chunks) == \A i \in DOMAIN chunks : chunks[i].number = i - 1

\* The chunks of a transfer, once the next one is fetched; without packets it has no
\* bytes at all.
Chunks == host.chunks \o (IF txfifo # <<>> /\ txfifo[1].units # <<>> THEN txfifo ELSE <<>>)

\* Without an error a transfer ends with a chunk that is not full, or at RECV_SIZE: the
\* timeout of a read is TIMEOUT, 0, which is none.
Ends == ~IsFull(txfifo[1]) \/ Len(Chunks) = ChunksPerTransfer

\* can_receive and unpack_can_buffer, of the chunks that are in the buffer at the end.
Unpack(chunks) ==
  /\ comms_healthy' = (comms_healthy /\ InOrder(chunks))
  /\ owed' = IF comms_healthy /\ InOrder(chunks)
             THEN SubSeq(owed, Len(Split(Bytes(chunks)).packets) + 1, Len(owed)) ELSE <<>>

\* The next chunk of a transfer without an error.
Fetch ==
  /\ host.pc = "reading" /\ txfifo # <<>>
  /\ txfifo' = Tail(txfifo)
  /\ IF Ends THEN host' = HostIdle /\ Unpack(Chunks)
     ELSE host' = [host EXCEPT !.chunks = Chunks] /\ UNCHANGED <<comms_healthy, owed>>
  /\ UNCHANGED <<vars, can_read_buffer, total_rx_size, filling, broken, writeVars>>

\* An error of usb_bulk_read: the transfer is asked for again, into the start of the
\* buffer, and the chunks it held are lost, the one at hand too or not.  The panda
\* knows nothing of it.  Only an overflow clears the flag.
ReadFails(overflow, atHand) ==
  /\ host.pc = "reading" /\ host' = [host EXCEPT !.chunks = <<>>]
  /\ txfifo' = IF atHand THEN <<>> ELSE txfifo
  /\ comms_healthy' = (comms_healthy /\ ~overflow)
  /\ broken' = (broken \/ overflow \/ host.chunks # <<>> \/ txfifo' # txfifo)
  /\ owed' = IF broken' THEN <<>> ELSE owed
  /\ UNCHANGED <<vars, can_read_buffer, total_rx_size, filling, writeVars>>

\* The error is that the panda is gone: nothing is read until boardd connects anew, and
\* what is in the buffer is unpacked, even if it ends within a packet.
ReadLost ==
  /\ host.pc = "reading" /\ filling = NotFilling
  /\ host' = [HostIdle EXCEPT !.pc = "gone"] /\ Unpack(host.chunks) /\ broken' = TRUE
  /\ UNCHANGED <<vars, readVars, writeVars>>

\* boardd ends and connects anew, with a flag of its own; the panda keeps what it had,
\* but for the chunk in its fifo, which a reset of the bus flushes.
Reconnect(flush) ==
  /\ filling = NotFilling
  /\ host' = HostIdle /\ comms_healthy' = TRUE
  /\ txfifo' = IF flush THEN <<>> ELSE txfifo
  /\ broken' = (txfifo' # <<>> \/ can_read_buffer.number # 0)
  /\ owed' = <<>>
  /\ UNCHANGED <<vars, can_read_buffer, total_rx_size, filling, writeVars>>

-----------------------------------------------------------------------------
(* From the host to the panda                                              *)

\* pack_can_buffer: each chunk but the last is full.
Pack(list) ==
  LET units == UnitsOf(list)
      count == (Len(units) + Payload - 1) \div Payload
  IN [i \in 1..count |->
        Chunk(i - 1, SubSeq(units, (i - 1) * Payload + 1,
                            IF i = count THEN Len(units) ELSE i * Payload))]

Write(list) ==
  /\ host.pc = "idle"
  /\ host' = [pc |-> "writing", chunks |-> <<>>, list |-> list, todo |-> Pack(list)] /\ sent' = <<>>
  /\ UNCHANGED <<vars, readVars, comms_healthy, broken, can_write_buffer, owed>>

\* Mutant: the first chunk of a transfer does not discard what is left of the last.
BeginKeeping(chunk) ==
  IF chunk.number = 0 THEN Chunk(0, can_write_buffer.units) ELSE can_write_buffer
\* The first chunk of a transfer starts afresh.
Begin(chunk) == IF chunk.number = 0 THEN Chunk(0, <<>>) ELSE can_write_buffer

\* comms_can_write: a chunk out of order is ignored; of the others every whole packet
\* goes to the queues, and the rest is kept.
SendChunk ==
  /\ host.pc = "writing" /\ host.todo # <<>>
  /\ host' = [host EXCEPT !.todo = Tail(@)]
  /\ LET chunk == host.todo[1]
         begun == Begin(chunk)
         split == Split(begun.units \o chunk.units)
     IN IF chunk.number = begun.number
        THEN /\ can_write_buffer' = Chunk(Number(chunk.number + 1), split.rest)
             /\ sent' = sent \o split.packets
        ELSE can_write_buffer' = begun /\ UNCHANGED sent
  /\ UNCHANGED <<vars, readVars, comms_healthy, broken, owed>>

\* All is sent; or the panda takes no more within 5 ms, and the rest is dropped.
EndWrite ==
  /\ host.pc = "writing" /\ host' = HostIdle
  /\ UNCHANGED <<vars, readVars, comms_healthy, broken, writeVars, owed>>

\* Any other error: the transfer is sent again from its start.
Resend ==
  /\ host.pc = "writing"
  /\ host' = [host EXCEPT !.todo = Pack(host.list)] /\ sent' = <<>>
  /\ UNCHANGED <<vars, readVars, comms_healthy, broken, can_write_buffer, owed>>

-----------------------------------------------------------------------------

Lists == UNION {[1..n -> Packets] : n \in 1..MaxList}

StreamNext ==
  \/ (\E x \in Packets : Arrive(x)) \/ ClearQueue
  \/ StartRead \/ InToken \/ Fill \/ Fetch
  \/ (\E overflow, atHand \in BOOLEAN : ReadFails(overflow, atHand)) \/ ReadLost
  \/ \E flush \in BOOLEAN : Reconnect(flush)
  \/ (\E list \in Lists : Write(list)) \/ SendChunk \/ EndWrite \/ Resend

StreamSpec == StreamInit /\ [][StreamNext]_streamVars

-----------------------------------------------------------------------------
(* Properties                                                              *)

\* What the panda has taken from the queue and boardd not yet unpacked, in order.
InFlight ==
  Bytes(Chunks) \o (IF filling = NotFilling THEN <<>> ELSE filling[1].units) \o can_read_buffer.units

\* Unless it began in the middle of a transfer or a failed read lost chunks, a connection
\* stays healthy and boardd gets the packets taken from the queue, every one, whole and in
\* order: across the chunks, the limit of a transfer and the wrap of the counter.
\* Otherwise a transfer that ends without an error and is accepted is still whole: the
\* chunk numbers give away the rest of one whose start was lost.  What they cannot give
\* away is a transfer lost to its last chunk; and a lost panda's is accepted cut off.
ReadsArriveWhole ==
  /\ ~broken => comms_healthy /\ InOrder(Chunks) /\ InFlight = UnitsOf(owed)
  /\ comms_healthy /\ host.pc = "reading" /\ txfifo # <<>> /\ Ends /\ InOrder(Chunks) =>
       Split(Bytes(Chunks)).rest = <<>> /\ ~Contains(Split(Bytes(Chunks)).packets, NoPacket)

\* What the panda queues of a transfer is what boardd sends, whole and in order, as far
\* as the transfer has come: whatever an earlier one that timed out, failed or was cut
\* off has left in the buffer.
WritesArriveWhole ==
  host.pc = "writing" => IsPrefix(sent, host.list) /\ (host.todo = <<>> => sent = host.list)
=============================================================================
