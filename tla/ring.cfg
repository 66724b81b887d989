\* A ring small enough to wrap and fill up in every position; transfers of three chunks,
\* each of at most one packet and the start of another.
CONSTANTS
  p = p
  q = q
  fifo_size = 3
  Packets = {p, q}
  NoPacket = none
  Length <- Lengths
  Payload = 3
  ChunksPerTransfer = 3
  MaxList = 2
SPECIFICATION StreamSpec
INVARIANTS
  SlotsAreExact
  ReadsArriveWhole
  WritesArriveWhole
PROPERTIES
  ImplementsFifo
