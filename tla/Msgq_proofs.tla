----------------------------- MODULE Msgq_proofs -----------------------------
(***************************************************************************)
(* Safety theorems of Msgq, for any ring, messages, publishers and readers.*)
(* The invariant has a part on the publisher, one on the layout of the     *)
(* ring, one on each reader and one on what the messages hold.             *)
(***************************************************************************)
EXTENDS Msgq, TLAPS

Wrapping == {"wrapTag", "wrapCheck", "wrapInvalidate", "wrapPtr"}
Writing == {"check", "invalidate", "tag", "copy", "publish"}

HeaderTypes ==
  /\ num_readers \in 0..NUM_READERS /\ write_uid \in Publishers \cup {NoOne}
  /\ write_pointer \in Positions
  /\ read_pointers \in [Slots -> Positions] /\ read_valids \in [Slots -> BOOLEAN]
  /\ read_uids \in [Slots -> Readers \cup {NoOne}]
  /\ data \in [0..(Size - 1) -> Words]

WriterRegisters == [pc : WriterSteps, msg : Msgs \cup {0}, n : 0..NUM_READERS,
                    i : 0..NUM_READERS, at : Positions, k : Nat]

\* Either there is no room, and the writer is far from the start; or there is, the tag
\* of the next wrap around included.
WriterInv ==
  /\ writer \in WriterRegisters
  /\ writer.pc \in {"clearValid", "clearUid"} => writer.i < NUM_READERS
  /\ writer.pc \in Wrapping \cup Writing =>
       writer.msg \in Msgs /\ writer.at = write_pointer /\ writer.i <= writer.n
  /\ writer.pc \in {"wrapInvalidate", "invalidate"} => writer.i < writer.n
  /\ writer.pc = "wrapPtr" => writer.i = 0
  /\ writer.pc \in Wrapping => writer.at.pos >= Total(writer.msg)
  /\ writer.pc \in Writing => writer.at.pos + Total(writer.msg) + 1 < Size
  /\ writer.pc = "copy" => writer.k \in 1..MsgSize[writer.msg]

TagFollows == {"checkSize", "skip", "copy", "advance"}
Registers == [pc : ReaderSteps, id : Slots \cup {-1}, cur : Nat, i : Nat, rp : Positions,
              wp : Positions, size : Words, buf : Seq(Words)]

Subscribing == {"off", "subscribe", "wipe", "wipeValid", "wipeUid", "claim"}

\* A size tag that a reader holds leads to a place inside the ring.
RegistersOK(g) ==
  /\ g \in Registers
  /\ g.pc \notin Subscribing => g.id # -1
  /\ g.pc \in {"wipeValid", "wipeUid"} => g.i < NUM_READERS
  /\ g.pc = "claim" => g.cur < NUM_READERS
  /\ g.pc \in {"skip", "copy", "advance"} => g.size \in Tags
  /\ g.pc = "wrap" => g.size = Wrap
  /\ g.pc \in TagFollows /\ g.size \in Tags => g.rp.pos + g.size.size + 1 < Size

ReaderTypes == reader \in [Readers -> Registers] /\ \A r \in Readers : RegistersOK(reader[r])

\* Only the readers of num_readers slots hold one.
Owners ==
  \A r \in Readers : Id(r) # -1 /\ r \notin evicted => Id(r) < num_readers

-----------------------------------------------------------------------------
(* The layout of the ring.  Up to the write pointer lie the messages of    *)
(* this lap; beyond it those of earlier laps, each followed by another     *)
(* message or the wrap around, until the writer gets there.                *)

P == write_pointer.pos
End(w) == w + data[w].size + 1
Begins(w) == data[w] \in Tags \cup {Wrap}

TagsFit == \A w \in 0..(Size - 1) : data[w] \in Tags => End(w) < Size

Front ==
  /\ P > 0 => data[0] \in Tags
  /\ \A w \in 0..(Size - 1) : w < P =>
       /\ data[w] # Wrap
       /\ data[w] \in Tags => End(w) = P \/ (End(w) < P /\ data[End(w)] \in Tags)

Back == \A w \in 0..(Size - 1) : w > P /\ data[w] \in Tags => Begins(End(w))

\* The message that is being written.
Written ==
  /\ writer.pc \in Wrapping \ {"wrapTag"} => data[P] = Wrap
  /\ writer.pc \in {"copy", "publish"} => data[P] = Tag(writer.msg)
  /\ writer.pc = "copy" => \A w \in 0..(Size - 1) : P < w /\ w < P + writer.k => ~Begins(w)
  /\ writer.pc = "publish" => \A w \in 0..(Size - 1) : P < w /\ w < P + Total(writer.msg) => ~Begins(w)

Layout == TagsFit /\ Front /\ Back /\ Written

-----------------------------------------------------------------------------
(* Readers                                                                 *)

InFlight == {"loadSize", "checkSize", "wrap", "skip", "copy", "advance"}
At0(r) == read_pointers[Id(r)]

\* The writer has looked at the reader's slot for this message.
Passed(r) ==
  \/ writer.pc \in {"tag", "copy", "publish"}
  \/ writer.pc \in {"check", "invalidate"} /\ (Id(r) < writer.i \/ Id(r) >= writer.n)

NotAhead(r) ==
  At0(r).cycles < write_pointer.cycles \/ (At0(r).cycles = write_pointer.cycles /\ At0(r).pos <= P)
\* Since it has found the pointers different, and they only move on.
Behind(r) ==
  At0(r).cycles < write_pointer.cycles \/ (At0(r).cycles = write_pointer.cycles /\ At0(r).pos < P)

\* Where a tag leads that a reader holds.
Leads(r) ==
  IF At0(r).pos < P THEN After(r) = P \/ (After(r) < P /\ data[After(r)] \in Tags)
  ELSE Begins(After(r))

\* Out of the writer's way: the writer has cleared the flag of the others.
OutOfTheWay(r) ==
  /\ ~(P < At0(r).pos /\ At0(r).pos < P + Total(writer.msg))
  /\ ~(At0(r).pos = P /\ reader[r].pc \in InFlight)

\* What a valid reader has found in the ring stays there until its flag is cleared.
OnTheTrack(r) ==
  /\ NotAhead(r)
  /\ At0(r).pos = P \/ Begins(At0(r).pos)
  /\ reader[r].pc \in InFlight \cup {"loadWrite"} => reader[r].rp = At0(r)
  /\ reader[r].pc \in InFlight => Behind(r)
  /\ reader[r].pc = "loadSize" /\ At0(r).pos = P /\ data[P] \in Tags => Begins(End(P))
  /\ reader[r].pc \in TagFollows /\ reader[r].size \in Tags => Leads(r)
  /\ reader[r].pc \in {"checkSize", "wrap"} /\ reader[r].size = Wrap =>
       At0(r).cycles < write_pointer.cycles

\* Readers that came after the writer has counted them are at the write pointer.
Cleared(r) ==
  /\ Passed(r) => OutOfTheWay(r)
  /\ writer.pc \in Wrapping /\ Id(r) >= writer.n => At0(r).pos = P /\ reader[r].pc \notin InFlight

ReaderOK(r) ==
  /\ Clean(r) /\ reader[r].pc = "storePointer" => reader[r].wp = write_pointer
  /\ Attached(r) => OnTheTrack(r) /\ Cleared(r)

ReaderInv == \A r \in Readers : ReaderOK(r)

\* The inductive invariant.
IInv == HeaderTypes /\ WriterInv /\ ReaderTypes /\ Owners /\ Layout /\ ReaderInv

-----------------------------------------------------------------------------
(* What the messages hold, and in which order                              *)

\* The message whose payload follows a word, and whether all of it does.
M(w) == data[w + 1].msg
Payload(w) == M(w) \in Msgs /\ \A k \in 1..MsgSize[M(w)] : data[w + k] = Unit(M(w), k)
Holds(w) == Payload(w) /\ data[w] = Tag(M(w))

\* No message after this one has been published.
Published == IF writer.pc \in Wrapping \cup Writing THEN writer.msg - 1 ELSE writer.msg

NewerThanFront(n) == \A w \in 0..(Size - 1) : w < P /\ data[w] \in Tags => n < M(w)

\* Messages get newer from the start to the write pointer; those beyond it are older
\* than these, and get newer along their chain.
Ordered ==
  /\ \A w \in 0..(Size - 1) : w # P /\ data[w] \in Tags => Holds(w) /\ M(w) <= Published
  /\ \A v, w \in 0..(Size - 1) : v < w /\ w < P /\ data[v] \in Tags /\ data[w] \in Tags => M(v) < M(w)
  /\ \A v \in 0..(Size - 1) : v > P /\ data[v] \in Tags =>
       NewerThanFront(M(v)) /\ (data[End(v)] \in Tags => M(v) < M(End(v)))

\* The payload that has been written so far.
CopiedIn ==
  /\ writer.pc = "copy" => \A k \in 1..MsgSize[writer.msg] : k < writer.k => data[P + k] = Unit(writer.msg, k)
  /\ writer.pc = "publish" => \A k \in 1..MsgSize[writer.msg] : data[P + k] = Unit(writer.msg, k)

\* The last message that a reader has, or is about to return.
Got(r) == IF got[r] = <<>> THEN 0 ELSE got[r][1].msg
Last(r) == IF reader[r].pc = "checkCopy" THEN reader[r].buf[1].msg ELSE Got(r)

\* A message that is read, and is newer than the last.
Reading(r, w) ==
  /\ Payload(w) /\ Got(r) < M(w) /\ M(w) <= Published
  /\ w >= P => NewerThanFront(M(w))

\* What follows a message is newer.
NextIsNewer(w, next) == next # P /\ data[next] \in Tags => M(w) < M(next)

CopiedOut(r, w) == \A k \in 1..Len(reader[r].buf) : reader[r].buf[k] = Unit(M(w), k)

\* A reader whose next message is at w: it is newer than the last, and what the reader
\* has in its registers is one message.
DeliveryAt(r, w) ==
  /\ Last(r) <= Published
  /\ w # P /\ data[w] \in Tags => Last(r) < M(w)
  /\ w > P \/ (w = P /\ reader[r].pc \in InFlight) => NewerThanFront(Last(r))
  /\ reader[r].pc = "loadSize" /\ w = P /\ data[w] \in Tags =>
       Reading(r, w) /\ Holds(w) /\ NextIsNewer(w, End(w))
  /\ reader[r].pc \in TagFollows /\ reader[r].size \in Tags =>
       Reading(r, w) /\ reader[r].size = Tag(M(w)) /\ NextIsNewer(w, After(r))
  /\ reader[r].pc = "copy" => Len(reader[r].buf) < MsgSize[M(w)] /\ CopiedOut(r, w)
  /\ reader[r].pc = "advance" => Len(reader[r].buf) = MsgSize[M(w)] /\ CopiedOut(r, w)
  /\ reader[r].pc \in {"checkSize", "wrap"} /\ reader[r].size = Wrap => NewerThanFront(Last(r))
  /\ reader[r].pc = "checkCopy" => Whole(reader[r].buf) /\ Newer(reader[r].buf, got[r])

Delivery(r) == DeliveryAt(r, At0(r).pos)

Empty(r) ==
  reader[r].pc \in {"start", "checkValid", "loadRead", "loadWrite", "loadSize", "checkSize", "wrap", "skip"} =>
    reader[r].buf = <<>>

GotInv == got \in [Readers -> Seq(Words)] /\ \A r \in Readers : Got(r) \in Nat /\ Got(r) <= Published

DeliveryInv == \A r \in Readers : Empty(r) /\ (Attached(r) => Delivery(r))

\* The inductive invariant with the payload.
CInv == Ordered /\ CopiedIn /\ GotInv /\ DeliveryInv

-----------------------------------------------------------------------------
(* Words and positions                                                     *)

LEMMA Sizes ==
  ASSUME NEW m \in Msgs
  PROVE  MsgSize[m] \in Nat \ {0} /\ Total(m) \in Nat /\ Total(m) = MsgSize[m] + 1
         /\ 3 * Total(m) <= Size
  BY MsgqAssumption DEF Msgs, Total

LEMMA MsgNumbers == \A m \in Msgs : m \in Nat \ {0}
  BY MsgqAssumption DEF Msgs

LEMMA TagWords ==
  /\ Wrap \in Words /\ Nothing \in Words /\ Wrap \notin Tags /\ Nothing \notin Tags \cup {Wrap}
  /\ \A x \in Tags : x \in Words /\ x.size \in Nat \ {0} /\ x.is = "tag" /\ x # Wrap
  /\ \A x \in Words : x.is = "tag" => x \in Tags
<1>1. \A m \in Msgs : Tag(m).size = MsgSize[m] /\ Tag(m).is = "tag" /\ MsgSize[m] \in Nat \ {0}
  BY Sizes DEF Tag
<1>2. Wrap.is = "wrap" /\ Nothing.is = "nothing"
  BY DEF Wrap, Nothing
<1>3. \A x \in Tags : x \in Words /\ x.size \in Nat \ {0} /\ x.is = "tag"
  BY <1>1 DEF Tags, Words
<1>4. \A m \in Msgs, k \in 1..Size : Unit(m, k).is = "unit"
  BY DEF Unit
<1>5. \A x \in Words : x.is = "tag" => x \in Tags
  BY <1>2, <1>4 DEF Words
<1> QED BY <1>2, <1>3, <1>5 DEF Words

LEMMA UnitWords ==
  ASSUME NEW m \in Msgs, NEW k \in 1..Size
  PROVE  Unit(m, k) \in Words /\ Unit(m, k) \notin Tags \cup {Wrap}
<1>1. Unit(m, k).is = "unit" /\ Wrap.is = "wrap"
  BY DEF Unit, Wrap
<1>2. Unit(m, k) \in Words
  BY DEF Words
<1> QED BY <1>1, <1>2, TagWords

LEMMA TagWord == ASSUME NEW m \in Msgs PROVE Tag(m) \in Tags /\ Tag(m).size = MsgSize[m]
  BY DEF Tags, Tag

LEMMA Ring == Size \in Nat \ {0} /\ NUM_READERS \in Nat \ {0} /\ Slots = 0..(NUM_READERS - 1)
  BY MsgqAssumption DEF Slots

\* Positions as records.
LEMMA PositionIs ==
  /\ \A x \in Positions : x.cycles \in Nat /\ x.pos \in 0..(Size - 1) /\ x = At(x.cycles, x.pos)
  /\ \A c \in Nat, w \in 0..(Size - 1) :
       At(c, w) \in Positions /\ At(c, w).cycles = c /\ At(c, w).pos = w
  BY DEF Positions, At

-----------------------------------------------------------------------------
(* The publisher: types                                                    *)

Publishing ==
  \/ \E p \in Publishers : Start(p) \/ Send(p)
  \/ Writer

Types == HeaderTypes /\ WriterInv /\ ReaderTypes /\ Owners

\* What an update of some registers leaves of the others.
WriterWith(pc, i, k) ==
  [pc |-> pc, msg |-> writer.msg, n |-> writer.n, i |-> i, at |-> writer.at, k |-> k]

LEMMA WriterUpdate ==
  ASSUME writer \in WriterRegisters, NEW pc, NEW i, NEW k
  PROVE  /\ [writer EXCEPT !.pc = pc, !.i = i] = WriterWith(pc, i, writer.k)
         /\ [writer EXCEPT !.pc = pc, !.k = k] = WriterWith(pc, writer.i, k)
         /\ [writer EXCEPT !.pc = pc] = WriterWith(pc, writer.i, writer.k)
         /\ [writer EXCEPT !.i = i] = WriterWith(writer.pc, i, writer.k)
         /\ [writer EXCEPT !.k = k] = WriterWith(writer.pc, writer.i, k)
<1> USE DEF WriterRegisters, WriterWith
<1>3. [writer EXCEPT !.pc = pc] = WriterWith(pc, writer.i, writer.k)
  OBVIOUS
<1>4. [writer EXCEPT !.i = i] = WriterWith(writer.pc, i, writer.k)
  OBVIOUS
<1>5. [writer EXCEPT !.k = k] = WriterWith(writer.pc, writer.i, k)
  OBVIOUS
<1>1. [writer EXCEPT !.pc = pc, !.i = i] = [WriterWith(pc, writer.i, writer.k) EXCEPT !.i = i]
  BY <1>3
<1>2. [writer EXCEPT !.pc = pc, !.k = k] = [WriterWith(pc, writer.i, writer.k) EXCEPT !.k = k]
  BY <1>3
<1>7. /\ [WriterWith(pc, writer.i, writer.k) EXCEPT !.i = i] = WriterWith(pc, i, writer.k)
      /\ [WriterWith(pc, writer.i, writer.k) EXCEPT !.k = k] = WriterWith(pc, writer.i, k)
  OBVIOUS
<1> QED BY <1>1, <1>2, <1>3, <1>4, <1>5, <1>7

LEMMA WriterKept == Types /\ Publishing => WriterInv'
<1> SUFFICES ASSUME Types, Publishing PROVE WriterInv'
  OBVIOUS
<1> USE DEF Types, HeaderTypes, WriterInv, WriterSteps, Wrapping, Writing, header, WriterRegisters
<1>1. ASSUME NEW p \in Publishers, Start(p) PROVE WriterInv'
  <2>1. writer' = WriterWith("clearValid", 0, writer.k)
    BY <1>1, WriterUpdate DEF Start
  <2> QED BY <2>1, Ring DEF WriterWith
<1>2. ASSUME NEW p \in Publishers, Send(p) PROVE WriterInv'
  <2> DEFINE m == writer.msg + 1
             at == write_pointer
             fits == Fits(m, at.pos)
  <2>1. /\ writer' = [pc |-> IF fits THEN "check" ELSE "wrapTag", msg |-> m, n |-> num_readers,
                      i |-> 0, at |-> at, k |-> 0]
        /\ m \in Msgs /\ write_pointer' = at
    BY <1>2 DEF Send
  <2>2. Total(m) \in Nat /\ 3 * Total(m) <= Size /\ Total(m) > 1
    BY <2>1, Sizes
  <2>3. at.pos \in 0..(Size - 1)
    BY PositionIs
  <2>4. fits => at.pos + Total(m) + 1 < Size
    BY <2>2, <2>3, Ring DEF Fits
  <2>5. ~fits => at.pos >= Total(m)
    BY <2>2, <2>3, Ring DEF Fits
  <2> HIDE DEF m, fits
  <2> QED BY <2>1, <2>4, <2>5, Ring
<1>3. CASE WrapPtr
  <2>1. writer.msg \in Msgs /\ writer.at = write_pointer
    BY <1>3 DEF WrapPtr
  <2>2. Total(writer.msg) \in Nat /\ 3 * Total(writer.msg) <= Size /\ Total(writer.msg) > 1
    BY <2>1, Sizes
  <2>3. At(writer.at.cycles + 1, 0) \in Positions /\ At(writer.at.cycles + 1, 0).pos = 0
    BY <2>1, <2>2, PositionIs, Ring
  <2>4. writer' = [writer EXCEPT !.pc = "check", !.at = At(writer.at.cycles + 1, 0)]
        /\ write_pointer' = At(writer.at.cycles + 1, 0)
    BY <1>3 DEF WrapPtr, MoveWritePointer
  <2>5. 0 + Total(writer.msg) + 1 < Size
    BY <2>2, Ring
  <2> HIDE DEF At, Positions, Total
  <2> QED BY <1>3, <2>1, <2>3, <2>4, <2>5 DEF WrapPtr
<1>4. CASE Publish
  <2>1. writer' = [pc |-> "idle", msg |-> writer.msg, n |-> 0, i |-> 0, at |-> At(0, 0), k |-> 0]
    BY <1>4 DEF Publish, WriterIdle
  <2>2. At(0, 0) \in Positions
    BY Ring, PositionIs
  <2> QED BY <2>1, <2>2, Ring
<1>5. CASE ClearValid \/ ClearUid
  <2>1. \/ writer' = WriterWith("clearUid", writer.i, writer.k) /\ writer.i < NUM_READERS
        \/ writer' = WriterWith("clearValid", writer.i + 1, writer.k) /\ writer.i + 1 < NUM_READERS
        \/ writer' = WriterWith("idle", 0, writer.k)
    BY <1>5, WriterUpdate DEF ClearValid, ClearUid
  <2> QED BY <2>1, Ring DEF WriterWith
<1>6. CASE WrapTag
  <2>1. writer' = WriterWith("wrapCheck", writer.i, writer.k) /\ writer.pc = "wrapTag"
        /\ write_pointer' = write_pointer
    BY <1>6, WriterUpdate DEF WrapTag
  <2> QED BY <2>1 DEF WriterWith
<1>7. ASSUME NEW pc, NEW hit, NEW inv, NEW done, CheckReader(pc, hit, inv, done),
             \/ pc = "wrapCheck" /\ inv = "wrapInvalidate" /\ done = "wrapPtr"
             \/ pc = "check" /\ inv = "invalidate" /\ done = "tag"
      PROVE  WriterInv'
  <2>1. /\ \/ writer' = WriterWith(done, 0, writer.k)
           \/ writer' = WriterWith(inv, writer.i, writer.k) /\ writer.i # writer.n
           \/ writer' = WriterWith(pc, writer.i + 1, writer.k) /\ writer.i # writer.n
        /\ write_pointer' = write_pointer /\ writer.pc = pc
    BY <1>7, WriterUpdate DEF CheckReader
  <2>2. writer.i <= writer.n /\ writer.i \in 0..NUM_READERS /\ writer.n \in 0..NUM_READERS
    BY <1>7, <2>1
  <2>3. /\ writer.i # writer.n => writer.i < writer.n /\ writer.i + 1 \in 0..NUM_READERS
        /\ 0 \in 0..NUM_READERS
    BY <2>2, Ring
  <2>4. CASE pc = "wrapCheck"
    BY <1>7, <2>1, <2>2, <2>3, <2>4 DEF WriterWith
  <2>5. CASE pc = "check"
    BY <1>7, <2>1, <2>2, <2>3, <2>5 DEF WriterWith
  <2> QED BY <1>7, <2>4, <2>5
<1>8. ASSUME NEW pc, NEW loop, Invalidate(pc, loop),
             (pc = "wrapInvalidate" /\ loop = "wrapCheck") \/ (pc = "invalidate" /\ loop = "check")
      PROVE  WriterInv'
  <2>1. /\ writer' = WriterWith(loop, writer.i + 1, writer.k)
        /\ write_pointer' = write_pointer /\ writer.pc = pc
    BY <1>8, WriterUpdate DEF Invalidate
  <2>2. writer.i + 1 <= writer.n /\ writer.i + 1 \in 0..NUM_READERS
    BY <1>8, <2>1, Ring
  <2> QED BY <1>8, <2>1, <2>2 DEF WriterWith
<1>9. CASE WriteTag
  <2>1. writer' = WriterWith("copy", writer.i, 1) /\ writer.pc = "tag" /\ write_pointer' = write_pointer
    BY <1>9, WriterUpdate DEF WriteTag
  <2>2. MsgSize[writer.msg] \in Nat \ {0}
    BY <2>1, Sizes
  <2> QED BY <2>1, <2>2 DEF WriterWith
<1>10. CASE CopyIn
  <2>1. /\ \/ writer' = WriterWith("publish", writer.i, 0)
           \/ writer' = WriterWith("copy", writer.i, writer.k + 1) /\ writer.k # MsgSize[writer.msg]
        /\ writer.pc = "copy" /\ write_pointer' = write_pointer
    BY <1>10, WriterUpdate DEF CopyIn
  <2>2. MsgSize[writer.msg] \in Nat \ {0} /\ writer.k \in 1..MsgSize[writer.msg]
    BY <2>1, Sizes
  <2> QED BY <2>1, <2>2 DEF WriterWith
<1>11. WrapCheck \/ AreaCheck \/ WrapInvalidate \/ AreaInvalidate => WriterInv'
  BY <1>7, <1>8 DEF WrapCheck, AreaCheck, WrapInvalidate, AreaInvalidate
<1> QED BY <1>1, <1>2, <1>3, <1>4, <1>5, <1>6, <1>9, <1>10, <1>11 DEF Publishing, Writer

-----------------------------------------------------------------------------
(* What each step of a reader does to its registers                        *)

Regs(r, pc, id, cur, i) ==
  [pc |-> pc, id |-> id, cur |-> cur, i |-> i, rp |-> reader[r].rp, wp |-> reader[r].wp,
   size |-> reader[r].size, buf |-> reader[r].buf]
Receives(r, pc, rp, wp, size, buf) ==
  [pc |-> pc, id |-> Id(r), cur |-> reader[r].cur, i |-> reader[r].i, rp |-> rp, wp |-> wp,
   size |-> size, buf |-> buf]
Goes(r, pc) == Receives(r, pc, reader[r].rp, reader[r].wp, reader[r].size, reader[r].buf)
Fresh(r, pc) ==
  [pc |-> pc, id |-> Id(r), cur |-> 0, i |-> 0, rp |-> At(0, 0), wp |-> At(0, 0),
   size |-> Nothing, buf |-> <<>>]

Becomes(r, new) == reader' = [reader EXCEPT ![r] = reader'[r]] /\ reader'[r] = new

LEMMA Updates ==
  ASSUME reader \in [Readers -> Registers], NEW r \in Readers
  PROVE  /\ \A pc : Go(r, pc) => Becomes(r, Goes(r, pc))
         /\ \A pc : Restart(r, pc) => Becomes(r, Fresh(r, pc))
<1> USE DEF Registers, Becomes, Goes, Receives, Fresh, Id
<1>1. ASSUME NEW pc, Go(r, pc) PROVE Becomes(r, Goes(r, pc))
  BY <1>1 DEF Go
<1>2. ASSUME NEW pc, Restart(r, pc) PROVE Becomes(r, Fresh(r, pc))
  BY <1>2 DEF Restart, ReaderOff
<1> QED BY <1>1, <1>2

LEMMA SubscriberMoves ==
  ASSUME reader \in [Readers -> Registers], NEW r \in Readers
  PROVE  /\ LoadNumReaders(r) =>
              Becomes(r, Regs(r, IF num_readers + 1 > NUM_READERS THEN "wipe" ELSE "claim", Id(r),
                              num_readers, reader[r].i))
         /\ Evict(r) => Becomes(r, Regs(r, "wipeValid", Id(r), reader[r].cur, 0))
         /\ WipeUid(r) =>
              Becomes(r, IF reader[r].i + 1 < NUM_READERS
                         THEN Regs(r, "wipeValid", Id(r), reader[r].cur, reader[r].i + 1)
                         ELSE Regs(r, "subscribe", Id(r), reader[r].cur, 0))
         /\ Claim(r) => Becomes(r, IF num_readers = reader[r].cur
                                   THEN Regs(r, "newValid", reader[r].cur, 0, reader[r].i)
                                   ELSE Goes(r, "subscribe"))
<1> USE DEF Registers, Becomes, Regs, Id
<1>1. ASSUME LoadNumReaders(r)
      PROVE  Becomes(r, Regs(r, IF num_readers + 1 > NUM_READERS THEN "wipe" ELSE "claim", Id(r),
                             num_readers, reader[r].i))
  BY <1>1 DEF LoadNumReaders
<1>2. ASSUME Evict(r) PROVE Becomes(r, Regs(r, "wipeValid", Id(r), reader[r].cur, 0))
  BY <1>2 DEF Evict
<1>3. ASSUME WipeUid(r), reader[r].i + 1 < NUM_READERS
      PROVE  Becomes(r, Regs(r, "wipeValid", Id(r), reader[r].cur, reader[r].i + 1))
  BY <1>3 DEF WipeUid
<1>4. ASSUME WipeUid(r), ~(reader[r].i + 1 < NUM_READERS)
      PROVE  Becomes(r, Regs(r, "subscribe", Id(r), reader[r].cur, 0))
  BY <1>4 DEF WipeUid
<1>5. ASSUME Claim(r), num_readers = reader[r].cur
      PROVE  Becomes(r, Regs(r, "newValid", reader[r].cur, 0, reader[r].i))
  BY <1>5 DEF Claim
<1>6. ASSUME Claim(r), num_readers # reader[r].cur PROVE Becomes(r, Goes(r, "subscribe"))
  BY <1>6, Updates DEF Claim
<1> HIDE DEF Registers, Becomes, Regs, Id
<1> QED BY <1>1, <1>2, <1>3, <1>4, <1>5, <1>6

LEMMA ReceiverMoves ==
  ASSUME reader \in [Readers -> Registers], NEW r \in Readers
  PROVE  /\ LoadPointer(r) =>
              Becomes(r, Receives(r, "storePointer", reader[r].rp, write_pointer, reader[r].size, reader[r].buf))
         /\ LoadRead(r) =>
              Becomes(r, Receives(r, "loadWrite", read_pointers[Id(r)], reader[r].wp, reader[r].size, reader[r].buf))
         /\ LoadWrite(r) =>
              Becomes(r, IF reader[r].rp.pos = write_pointer.pos THEN Fresh(r, "start")
                         ELSE Receives(r, "loadSize", reader[r].rp, write_pointer, reader[r].size, reader[r].buf))
         /\ LoadSize(r) =>
              Becomes(r, Receives(r, "checkSize", reader[r].rp, reader[r].wp, data[reader[r].rp.pos], reader[r].buf))
         /\ CopyOut(r) =>
              \E pc \in {"advance", "copy"} : \E word \in {Nothing} \cup {data[w] : w \in 0..(Size - 1)} :
                 Becomes(r, Receives(r, pc, reader[r].rp, reader[r].wp, reader[r].size, Append(reader[r].buf, word)))
<1> USE DEF Registers, Becomes, Receives, Id
<1>1. ASSUME LoadPointer(r)
      PROVE  Becomes(r, Receives(r, "storePointer", reader[r].rp, write_pointer, reader[r].size, reader[r].buf))
  BY <1>1 DEF LoadPointer
<1>2. ASSUME LoadRead(r)
      PROVE  Becomes(r, Receives(r, "loadWrite", read_pointers[Id(r)], reader[r].wp, reader[r].size, reader[r].buf))
  BY <1>2 DEF LoadRead
<1>3. ASSUME LoadWrite(r), reader[r].rp.pos = write_pointer.pos PROVE Becomes(r, Fresh(r, "start"))
  BY <1>3, Updates DEF LoadWrite
<1>4. ASSUME LoadWrite(r), reader[r].rp.pos # write_pointer.pos
      PROVE  Becomes(r, Receives(r, "loadSize", reader[r].rp, write_pointer, reader[r].size, reader[r].buf))
  BY <1>4 DEF LoadWrite
<1>5. ASSUME LoadSize(r)
      PROVE  Becomes(r, Receives(r, "checkSize", reader[r].rp, reader[r].wp, data[reader[r].rp.pos], reader[r].buf))
  BY <1>5 DEF LoadSize
<1>6. ASSUME CopyOut(r), reader \in [Readers -> Registers]
      PROVE  \E pc \in {"advance", "copy"} : \E word \in {Nothing} \cup {data[w] : w \in 0..(Size - 1)} :
                 Becomes(r, Receives(r, pc, reader[r].rp, reader[r].wp, reader[r].size, Append(reader[r].buf, word)))
  <2> DEFINE k == Len(reader[r].buf) + 1
             w == reader[r].rp.pos + k
             unit == IF w < Size THEN data[w] ELSE Nothing
             next == IF k = reader[r].size.size THEN "advance" ELSE "copy"
  <2>1. reader' = [reader EXCEPT ![r].buf = Append(@, unit), ![r].pc = next]
    BY <1>6 DEF CopyOut
  <2>2. reader[r].rp.pos \in Nat /\ Len(reader[r].buf) \in Nat
    BY Ring, PositionIs
  <2>3. unit \in {Nothing} \cup {data[v] : v \in 0..(Size - 1)}
    BY <2>2, Ring
  <2> HIDE DEF unit, next
  <2>4. Becomes(r, Receives(r, next, reader[r].rp, reader[r].wp, reader[r].size, Append(reader[r].buf, unit)))
    BY <2>1
  <2>5. next \in {"advance", "copy"}
    BY DEF next
  <2> HIDE DEF Becomes, Receives, k, w
  <2> QED BY <2>3, <2>4, <2>5
<1> HIDE DEF Registers, Becomes, Receives, Id
<1> QED BY <1>1, <1>2, <1>3, <1>4, <1>5, <1>6

-----------------------------------------------------------------------------
(* Types                                                                   *)

LEMMA BecomesTypes ==
  ASSUME reader \in [Readers -> Registers], NEW r \in Readers, Becomes(r, reader'[r]), reader'[r] \in Registers
  PROVE  reader' \in [Readers -> Registers] /\ \A q \in Readers \ {r} : reader'[q] = reader[q]
  BY DEF Becomes

\* A step of a reader leaves its registers in order, and those of the others alone.
LEMMA RegistersKept ==
  ASSUME Types, TagsFit, NEW r \in Readers, Reader(r)
  PROVE  Becomes(r, reader'[r]) /\ RegistersOK(reader'[r])
<1> DEFINE Done == Becomes(r, reader'[r]) /\ RegistersOK(reader'[r])
<1>0. /\ reader \in [Readers -> Registers] /\ RegistersOK(reader[r]) /\ reader[r] \in Registers
      /\ HeaderTypes /\ At(0, 0) \in Positions /\ Nothing \in Words /\ Nothing \notin Tags
      /\ Wrap \notin Tags /\ Nothing # Wrap /\ <<>> \in Seq(Words)
  <2>1. reader \in [Readers -> Registers] /\ RegistersOK(reader[r]) /\ HeaderTypes
    BY DEF Types, ReaderTypes
  <2>2. At(0, 0) \in Positions
    BY Ring, PositionIs
  <2>3. reader[r] \in Registers
    BY <2>1
  <2> QED BY <2>1, <2>2, <2>3, TagWords
<1>1. \A new : Becomes(r, new) => Becomes(r, reader'[r]) /\ reader'[r] = new
  BY DEF Becomes
<1> USE DEF RegistersOK, Registers, ReaderSteps, Subscribing, TagFollows, Id
<1>2. ASSUME NEW pc \in ReaderSteps \ {"claim", "skip", "copy", "advance", "wrap", "checkSize", "wipeValid", "wipeUid"},
             Becomes(r, Goes(r, pc)) \/ Becomes(r, Fresh(r, pc)),
             pc \in Subscribing \/ Id(r) # -1
      PROVE  Done
  <2>1. CASE Becomes(r, Goes(r, pc))
    BY <1>0, <1>1, <1>2, <2>1 DEF Goes, Receives
  <2>2. CASE Becomes(r, Fresh(r, pc))
    <3>1. Fresh(r, pc) \in Registers
      BY <1>0 DEF Fresh
    <3>2. Fresh(r, pc).pc = pc /\ Fresh(r, pc).id = Id(r)
      BY DEF Fresh
    <3>3. RegistersOK(Fresh(r, pc))
      BY <1>2, <3>1, <3>2
    <3> QED BY <1>1, <2>2, <3>3
  <2> QED BY <1>2, <2>1, <2>2
<1>3. CASE LoadNumReaders(r)
  <2>1. Becomes(r, Regs(r, IF num_readers + 1 > NUM_READERS THEN "wipe" ELSE "claim", Id(r),
                        num_readers, reader[r].i))
    BY <1>0, <1>3, SubscriberMoves
  <2>2. num_readers \in 0..NUM_READERS
    BY <1>0 DEF HeaderTypes
  <2> QED BY <1>0, <1>1, <2>1, <2>2, Ring DEF Regs
<1>4. CASE Evict(r)
  <2>1. Becomes(r, Regs(r, "wipeValid", Id(r), reader[r].cur, 0)) /\ 0 < NUM_READERS
    BY <1>0, <1>4, SubscriberMoves, Ring
  <2> QED BY <1>0, <1>1, <2>1 DEF Regs
<1>5. CASE WipeValid(r)
  <2>1. Becomes(r, Goes(r, "wipeUid")) /\ reader[r].pc = "wipeValid"
    BY <1>0, <1>5, Updates DEF WipeValid
  <2> QED BY <1>0, <1>1, <2>1 DEF Goes, Receives
<1>6. CASE WipeUid(r)
  <2>1. /\ Becomes(r, IF reader[r].i + 1 < NUM_READERS
                      THEN Regs(r, "wipeValid", Id(r), reader[r].cur, reader[r].i + 1)
                      ELSE Regs(r, "subscribe", Id(r), reader[r].cur, 0))
        /\ reader[r].pc = "wipeUid"
    BY <1>0, <1>6, SubscriberMoves DEF WipeUid
  <2> QED BY <1>0, <1>1, <2>1 DEF Regs
<1>7. CASE Claim(r)
  <2>1. /\ Becomes(r, IF num_readers = reader[r].cur
                      THEN Regs(r, "newValid", reader[r].cur, 0, reader[r].i)
                      ELSE Goes(r, "subscribe"))
        /\ reader[r].pc = "claim"
    BY <1>0, <1>7, SubscriberMoves DEF Claim
  <2>2. CASE num_readers = reader[r].cur
    BY <1>0, <1>1, <2>1, <2>2, Ring DEF Regs
  <2>3. CASE num_readers # reader[r].cur
    BY <1>2, <2>1, <2>3
  <2> QED BY <2>2, <2>3
<1>8. CASE NewValid(r) \/ NewPointer(r) \/ NewUid(r) \/ SetValid(r) \/ StorePointer(r)
  <2>1. /\ \/ Becomes(r, Goes(r, "newPointer")) \/ Becomes(r, Goes(r, "newUid"))
           \/ Becomes(r, Goes(r, "setValid")) \/ Becomes(r, Goes(r, "loadPointer"))
           \/ Becomes(r, Fresh(r, "start"))
        /\ Id(r) # -1
    BY <1>0, <1>8, Updates DEF NewValid, NewPointer, NewUid, SetValid, StorePointer
  <2> QED BY <1>2, <2>1
<1>9. CASE LoadPointer(r)
  BY <1>0, <1>1, <1>9, ReceiverMoves DEF LoadPointer, Receives, HeaderTypes
<1>10. CASE CheckUid(r) \/ CheckValid(r)
  <2>1. /\ \/ Becomes(r, Goes(r, "subscribe")) \/ Becomes(r, Goes(r, "checkValid"))
           \/ Becomes(r, Goes(r, "loadRead")) \/ Becomes(r, Goes(r, "setValid"))
        /\ Id(r) # -1
    BY <1>0, <1>10, Updates DEF CheckUid, CheckValid
  <2> QED BY <1>2, <2>1
<1>11. CASE LoadRead(r)
  <2>1. reader[r].pc = "loadRead" /\ Id(r) \in Slots
    BY <1>0, <1>11 DEF LoadRead
  <2>2. read_pointers[Id(r)] \in Positions
    BY <1>0, <2>1 DEF HeaderTypes
  <2>3. Becomes(r, Receives(r, "loadWrite", read_pointers[Id(r)], reader[r].wp, reader[r].size, reader[r].buf))
    BY <1>0, <1>11, ReceiverMoves
  <2> QED BY <1>0, <1>1, <2>1, <2>2, <2>3 DEF Receives
<1>12. CASE LoadWrite(r)
  <2>1. reader[r].pc = "loadWrite" /\ write_pointer \in Positions
    BY <1>0, <1>12 DEF LoadWrite, HeaderTypes
  <2>2. CASE Becomes(r, Fresh(r, "start"))
    BY <1>0, <1>2, <2>1, <2>2
  <2>3. CASE Becomes(r, Receives(r, "loadSize", reader[r].rp, write_pointer, reader[r].size, reader[r].buf))
    BY <1>0, <1>1, <2>1, <2>3 DEF Receives
  <2> QED BY <1>0, <1>12, <2>2, <2>3, ReceiverMoves
<1>13. CASE LoadSize(r)
  <2>1. /\ Becomes(r, Receives(r, "checkSize", reader[r].rp, reader[r].wp, data[reader[r].rp.pos], reader[r].buf))
        /\ reader[r].pc = "loadSize"
    BY <1>0, <1>13, ReceiverMoves DEF LoadSize
  <2>2. reader[r].rp.pos \in 0..(Size - 1) /\ data[reader[r].rp.pos] \in Words
    BY <1>0, PositionIs DEF HeaderTypes
  <2>3. data[reader[r].rp.pos] \in Tags =>
          reader[r].rp.pos + data[reader[r].rp.pos].size + 1 < Size
    BY <2>2 DEF TagsFit, End
  <2> QED BY <1>0, <1>1, <2>1, <2>2, <2>3 DEF Receives
<1>14. CASE CheckSize(r)
  <2>1. reader[r].pc = "checkSize" /\ Id(r) # -1
    BY <1>0, <1>14 DEF CheckSize
  <2>2. CASE ~read_valids[Id(r)]
    BY <1>0, <1>2, <1>14, <2>1, <2>2, Updates DEF CheckSize
  <2>3. CASE read_valids[Id(r)]
    <3> DEFINE pc == CASE reader[r].size = Wrap -> "wrap"
                       [] reader[r].size.is = "tag" -> IF Skips(r) THEN "skip" ELSE "copy"
                       [] OTHER -> "dead"
    <3>1. Becomes(r, Goes(r, pc))
      BY <1>0, <1>14, <2>3, Updates DEF CheckSize
    <3>2. \/ pc = "wrap" /\ reader[r].size = Wrap
          \/ pc \in {"skip", "copy"} /\ reader[r].size \in Tags
          \/ pc = "dead"
      <4>1. CASE reader[r].size = Wrap
        BY <4>1 DEF Wrap
      <4>2. CASE reader[r].size # Wrap /\ reader[r].size.is = "tag"
        <5>1. reader[r].size \in Tags
          BY <1>0, <4>2, TagWords
        <5> QED BY <4>2, <5>1
      <4>3. CASE reader[r].size # Wrap /\ reader[r].size.is # "tag"
        BY <4>3
      <4> QED BY <4>1, <4>2, <4>3
    <3> HIDE DEF pc
    <3> QED BY <1>0, <1>1, <2>1, <3>1, <3>2, TagWords DEF Goes, Receives
  <2> QED BY <2>2, <2>3
<1>15. CASE WrapAround(r) \/ Skip(r)
  <2>1. Becomes(r, Fresh(r, "start")) /\ Id(r) # -1
    BY <1>0, <1>15, Updates DEF WrapAround, Skip
  <2> QED BY <1>2, <2>1
<1>16. CASE CopyOut(r)
  <2>1. PICK pc \in {"advance", "copy"} : \E word \in {Nothing} \cup {data[w] : w \in 0..(Size - 1)} :
          Becomes(r, Receives(r, pc, reader[r].rp, reader[r].wp, reader[r].size, Append(reader[r].buf, word)))
    BY <1>0, <1>16, ReceiverMoves
  <2>2. PICK word \in {Nothing} \cup {data[w] : w \in 0..(Size - 1)} :
          Becomes(r, Receives(r, pc, reader[r].rp, reader[r].wp, reader[r].size, Append(reader[r].buf, word)))
    BY <2>1
  <2>3. word \in Words
    BY <1>0 DEF HeaderTypes
  <2>4. Append(reader[r].buf, word) \in Seq(Words) /\ reader[r].pc = "copy"
    BY <1>0, <1>16, <2>3 DEF CopyOut
  <2> DEFINE new == Receives(r, pc, reader[r].rp, reader[r].wp, reader[r].size, Append(reader[r].buf, word))
  <2>5. /\ new \in Registers /\ new.pc = pc /\ new.size = reader[r].size /\ new.rp = reader[r].rp
        /\ new.id = Id(r)
    BY <1>0, <2>4 DEF Receives
  <2> HIDE DEF new
  <2>6. RegistersOK(new)
    BY <1>0, <2>4, <2>5
  <2> QED BY <1>1, <2>2, <2>6 DEF new
<1>17. CASE Advance(r)
  <2>1. Becomes(r, Goes(r, "checkCopy")) /\ Id(r) # -1
    BY <1>0, <1>17, Updates DEF Advance
  <2> QED BY <1>2, <2>1
<1>18. CASE CheckCopy(r)
  <2>1. (Becomes(r, Fresh(r, "start")) \/ Becomes(r, Fresh(r, "setValid"))) /\ Id(r) # -1
    BY <1>0, <1>18, Updates DEF CheckCopy
  <2> QED BY <1>2, <2>1
<1> QED
  BY <1>3, <1>4, <1>5, <1>6, <1>7, <1>8, <1>9, <1>10, <1>11, <1>12, <1>13, <1>14, <1>15, <1>16, <1>17, <1>18
  DEF Reader

\* What a reader's step leaves of the header and the slots.
LEMMA ReaderShared ==
  ASSUME Types, TagsFit, NEW r \in Readers, Reader(r)
  PROVE  HeaderTypes' /\ UNCHANGED <<write_pointer, write_uid, data, writer, started>>
<1>0. /\ HeaderTypes /\ RegistersOK(reader[r]) /\ At(0, 0) \in Positions /\ r \in Readers
      /\ 0 \in 0..NUM_READERS
  BY Ring, PositionIs DEF Types, ReaderTypes
<1> USE DEF HeaderTypes, header, slots
<1>1. CASE LoadNumReaders(r) \/ CheckUid(r) \/ CheckValid(r) \/ LoadRead(r) \/ LoadWrite(r) \/ LoadSize(r)
           \/ CheckSize(r) \/ CopyOut(r)
  BY <1>0, <1>1 DEF OnlyReader, LoadNumReaders, CheckUid, CheckValid, LoadRead, LoadWrite, LoadSize,
     CheckSize, CopyOut
<1>2. CASE Evict(r) \/ LoadPointer(r) \/ CheckCopy(r)
  BY <1>0, <1>2 DEF Evict, WipeSlots, LoadPointer, CheckCopy
<1>3. CASE WipeValid(r) \/ WipeUid(r)
  <2>1. reader[r].i \in Slots
    BY <1>0, <1>3, Ring DEF WipeValid, WipeUid, RegistersOK, Registers
  <2> QED BY <1>0, <1>3, <2>1 DEF WipeValid, WipeUid
<1>4. CASE Claim(r)
  <2>1. reader[r].cur \in Nat /\ reader[r].cur < NUM_READERS
    BY <1>0, <1>4 DEF Claim, RegistersOK, Registers
  <2> QED BY <1>0, <1>4, <2>1, Ring DEF Claim
<1>5. CASE NewValid(r) \/ NewPointer(r) \/ NewUid(r) \/ SetValid(r)
  <2>1. Id(r) \in Slots
    BY <1>0, <1>5 DEF NewValid, NewPointer, NewUid, SetValid, RegistersOK, Registers, Subscribing, Id
  <2> QED BY <1>0, <1>5, <2>1 DEF NewValid, NewPointer, NewUid, SetValid
<1>6. CASE StorePointer(r)
  <2>1. reader[r].wp \in Positions
    BY <1>0 DEF RegistersOK, Registers
  <2> QED BY <1>0, <1>6, <2>1 DEF StorePointer
<1>7. ASSUME NEW at \in Positions, MoveReadPointer(r, at)
      PROVE  HeaderTypes' /\ UNCHANGED <<write_pointer, write_uid, data, writer, started>>
  BY <1>0, <1>7 DEF MoveReadPointer
<1>8. CASE WrapAround(r)
  <2>1. At(reader[r].rp.cycles + 1, 0) \in Positions
    BY <1>0, Ring, PositionIs DEF RegistersOK, Registers
  <2> QED BY <1>7, <1>8, <2>1 DEF WrapAround
<1>9. CASE Skip(r) \/ Advance(r)
  <2>1. After(r) \in 0..(Size - 1) /\ reader[r].rp.cycles \in Nat
    <3>1. reader[r].size \in Tags /\ reader[r].rp.pos + reader[r].size.size + 1 < Size
      BY <1>0, <1>9 DEF Skip, Advance, RegistersOK, TagFollows
    <3>2. reader[r].size.size \in Nat /\ reader[r].rp.pos \in Nat /\ reader[r].rp.cycles \in Nat
      BY <1>0, <3>1, TagWords, PositionIs, Ring DEF RegistersOK, Registers
    <3> QED BY <3>1, <3>2, Ring DEF After
  <2>2. At(reader[r].rp.cycles, After(r)) \in Positions
    BY <2>1, PositionIs
  <2> QED BY <1>7, <1>9, <2>2 DEF Skip, Advance
<1> QED BY <1>1, <1>2, <1>3, <1>4, <1>5, <1>6, <1>8, <1>9 DEF Reader

\* Only a claim changes the slot that a reader takes for its own.
LEMMA SameSlot ==
  ASSUME reader \in [Readers -> Registers], NEW r \in Readers, Reader(r), ~Claim(r)
  PROVE  reader'[r].id = reader[r].id
<1> USE DEF Registers, Go, Restart, ReaderOff, Id
<1>1. CASE LoadNumReaders(r)
  BY <1>1 DEF LoadNumReaders
<1>2. CASE WipeValid(r)
  BY <1>2 DEF WipeValid
<1>3. CASE WipeUid(r)
  BY <1>3 DEF WipeUid
<1>4. CASE NewValid(r)
  BY <1>4 DEF NewValid
<1>5. CASE NewPointer(r)
  BY <1>5 DEF NewPointer
<1>6. CASE NewUid(r)
  BY <1>6 DEF NewUid
<1>7. CASE SetValid(r)
  BY <1>7 DEF SetValid
<1>8. CASE LoadPointer(r)
  BY <1>8 DEF LoadPointer
<1>9. CASE StorePointer(r)
  BY <1>9 DEF StorePointer
<1>10. CASE CheckUid(r)
  BY <1>10 DEF CheckUid
<1>11. CASE CheckValid(r)
  BY <1>11 DEF CheckValid
<1>12. CASE LoadRead(r)
  BY <1>12 DEF LoadRead
<1>13. CASE LoadWrite(r)
  BY <1>13 DEF LoadWrite
<1>14. CASE LoadSize(r)
  BY <1>14 DEF LoadSize
<1>15. CASE CheckSize(r)
  BY <1>15 DEF CheckSize
<1>16. CASE WrapAround(r)
  BY <1>16 DEF WrapAround
<1>17. CASE Skip(r)
  BY <1>17 DEF Skip
<1>18. CASE CopyOut(r)
  BY <1>18 DEF CopyOut
<1>19. CASE Advance(r)
  BY <1>19 DEF Advance
<1>20. CASE CheckCopy(r)
  BY <1>20 DEF CheckCopy
<1>0. CASE Evict(r)
  BY <1>0 DEF Evict
<1> QED
  BY <1>0, <1>1, <1>2, <1>3, <1>4, <1>5, <1>6, <1>7, <1>8, <1>9, <1>10, <1>11, <1>12, <1>13, <1>14, <1>15, <1>16, <1>17, <1>18, <1>19, <1>20
  DEF Reader

LEMMA ReaderKeepsTypes ==
  ASSUME Types, TagsFit, NEW r \in Readers, Reader(r)
  PROVE  Types'
<1>1. Becomes(r, reader'[r]) /\ RegistersOK(reader'[r])
  BY RegistersKept
<1>2. /\ reader \in [Readers -> Registers] /\ \A q \in Readers : RegistersOK(reader[q])
  BY DEF Types, ReaderTypes
<1>3. ReaderTypes'
  <2>1. reader' \in [Readers -> Registers] /\ \A q \in Readers \ {r} : reader'[q] = reader[q]
    BY <1>1, <1>2, BecomesTypes DEF RegistersOK
  <2>2. \A q \in Readers : RegistersOK(reader'[q])
    BY <1>1, <1>2, <2>1
  <2> QED BY <2>1, <2>2 DEF ReaderTypes
<1>4. HeaderTypes' /\ UNCHANGED <<write_pointer, write_uid, data, writer, started>>
  BY ReaderShared
<1>5. WriterInv'
  BY <1>4 DEF Types, WriterInv
<1>6. Owners'
  <2>1. \A q \in Readers \ {r} : reader'[q] = reader[q]
    BY <1>1, <1>2, BecomesTypes DEF RegistersOK
  <2>2. Owners /\ num_readers \in 0..NUM_READERS
    BY DEF Types, HeaderTypes
  <2>3. CASE Evict(r)
    <3>1. evicted' = evicted \cup {q \in Readers : reader[q].id # -1}
      BY <2>3 DEF Evict, WipeSlots
    <3>2. Becomes(r, Regs(r, "wipeValid", Id(r), reader[r].cur, 0))
      BY <1>2, <2>3, SubscriberMoves
    <3>3. reader'[r].id = reader[r].id
      BY <3>2 DEF Becomes, Regs, Id
    <3> QED BY <2>1, <3>1, <3>3 DEF Owners, Id
  <2>4. CASE Claim(r)
    <3>1. CASE num_readers = reader[r].cur
      <4>1. num_readers' = num_readers + 1 /\ evicted' = evicted \ {r}
        BY <2>4, <3>1 DEF Claim
      <4>2. Becomes(r, Regs(r, "newValid", reader[r].cur, 0, reader[r].i))
        BY <1>2, <2>4, <3>1, SubscriberMoves
      <4>3. reader'[r].id = num_readers
        BY <3>1, <4>2 DEF Becomes, Regs
      <4>4. \A q \in Readers : reader[q].id \in Int
        BY <1>2 DEF Registers, Slots
      <4> QED BY <2>1, <2>2, <4>1, <4>3, <4>4 DEF Owners, Id
    <3>2. CASE num_readers # reader[r].cur
      <4>1. num_readers' = num_readers /\ evicted' = evicted
        BY <2>4, <3>2 DEF Claim
      <4>2. Becomes(r, Goes(r, "subscribe"))
        BY <1>2, <2>4, <3>2, SubscriberMoves
      <4>3. reader'[r].id = reader[r].id
        BY <4>2 DEF Becomes, Goes, Receives, Id
      <4> QED BY <2>1, <2>2, <4>1, <4>3 DEF Owners, Id
    <3> QED BY <3>1, <3>2
  <2>5. CASE ~Evict(r) /\ ~Claim(r)
    <3>1. num_readers' = num_readers /\ evicted' = evicted
      BY <2>5 DEF Reader, header, history, OnlyReader, MoveReadPointer,
         LoadNumReaders, WipeValid, WipeUid, NewValid, NewPointer, NewUid, SetValid, LoadPointer, StorePointer, CheckUid,
         CheckValid, LoadRead, LoadWrite, LoadSize, CheckSize, WrapAround, Skip, CopyOut, Advance, CheckCopy
    <3>2. reader'[r].id = reader[r].id
      BY <2>5, SameSlot DEF Types, ReaderTypes
    <3> QED BY <2>1, <2>2, <3>1, <3>2 DEF Owners, Id
  <2> QED BY <2>3, <2>4, <2>5
<1> QED BY <1>3, <1>4, <1>5, <1>6 DEF Types

-----------------------------------------------------------------------------
(* The publisher: types and the layout                                     *)

\* Words of a message that the writer has room for.
LEMMA Beyond ==
  ASSUME NEW p \in 0..(Size - 1), NEW t \in Nat \ {0}, p + t + 1 < Size
  PROVE  p + t \in 0..(Size - 1) /\ p + t > p
  BY Ring

LEMMA Inside ==
  ASSUME NEW p \in 0..(Size - 1), NEW t \in Nat, NEW k \in 1..t, p + (t + 1) + 1 < Size
  PROVE  p + k \in 0..(Size - 1) /\ k \in 1..Size /\ p + k > p /\ p + k < p + (t + 1)
  BY Ring

LEMMA PublisherKeepsTypes == Types /\ Publishing => Types' /\ UNCHANGED <<reader, read_pointers>>
<1> SUFFICES ASSUME Types, Publishing PROVE Types' /\ UNCHANGED <<reader, read_pointers>>
  OBVIOUS
<1>0. /\ HeaderTypes /\ ReaderTypes /\ Owners /\ WriterInv /\ writer \in WriterRegisters
      /\ 0 \in 0..NUM_READERS
  BY Ring DEF Types, WriterInv
<1>1. WriterInv'
  BY WriterKept
<1>2. UNCHANGED <<reader, read_pointers>>
  BY DEF Publishing, Start, Send, Writer, ClearValid, ClearUid, WrapTag, WrapCheck, WrapInvalidate,
     WrapPtr, AreaCheck, AreaInvalidate, WriteTag, CopyIn, Publish, CheckReader, Invalidate, slots
<1>3. ReaderTypes'
  BY <1>0, <1>2 DEF ReaderTypes
<1>4. HeaderTypes' /\ Owners'
  <2> USE DEF HeaderTypes, header, slots, history, Owners, Id
  <2>1. ASSUME NEW p \in Publishers, Start(p) PROVE HeaderTypes' /\ Owners'
    BY <1>0, <2>1 DEF Start, WipeSlots
  <2>2. ASSUME NEW p \in Publishers, Send(p) PROVE HeaderTypes' /\ Owners'
    BY <1>0, <2>2 DEF Send
  <2>3. CASE ClearValid \/ ClearUid
    <3>1. writer.i \in Slots
      BY <1>0, <2>3, Ring DEF ClearValid, ClearUid, WriterInv, WriterRegisters
    <3> QED BY <1>0, <2>3, <3>1 DEF ClearValid, ClearUid
  <2>4. CASE WrapCheck \/ AreaCheck
    BY <1>0, <2>4 DEF WrapCheck, AreaCheck, CheckReader
  <2>5. CASE WrapInvalidate \/ AreaInvalidate
    <3>1. writer.i \in Slots
      BY <1>0, <2>5, Ring DEF WrapInvalidate, AreaInvalidate, Invalidate, WriterInv, WriterRegisters
    <3> QED BY <1>0, <2>5, <3>1 DEF WrapInvalidate, AreaInvalidate, Invalidate
  <2>6. CASE WrapTag \/ WriteTag
    <3>1. writer.at.pos \in 0..(Size - 1)
      BY <1>0, PositionIs DEF WriterRegisters
    <3>2. writer.pc = "tag" => Tag(writer.msg) \in Words
      BY <1>0, TagWord, TagWords DEF WriterInv, Writing
    <3> QED BY <1>0, <2>6, <3>1, <3>2, TagWords DEF WrapTag, WriteTag
  <2>7. CASE CopyIn
    <3>1. /\ writer.msg \in Msgs /\ writer.at.pos + Total(writer.msg) + 1 < Size
          /\ writer.k \in 1..MsgSize[writer.msg]
      BY <1>0, <2>7 DEF CopyIn, WriterInv, Writing
    <3>2. writer.at.pos \in 0..(Size - 1) /\ Total(writer.msg) = MsgSize[writer.msg] + 1
          /\ MsgSize[writer.msg] \in Nat
      BY <1>0, <3>1, PositionIs, Sizes DEF WriterRegisters
    <3>3. writer.at.pos + writer.k \in 0..(Size - 1) /\ writer.k \in 1..Size
      BY <3>1, <3>2, Inside
    <3>4. Unit(writer.msg, writer.k) \in Words
      BY <3>1, <3>3, UnitWords
    <3> QED BY <1>0, <2>7, <3>3, <3>4 DEF CopyIn
  <2>8. CASE WrapPtr
    <3>1. At(writer.at.cycles + 1, 0) \in Positions
      BY <1>0, Ring, PositionIs DEF WriterRegisters
    <3> QED BY <1>0, <2>8, <3>1 DEF WrapPtr, MoveWritePointer
  <2>9. CASE Publish
    <3>1. writer.msg \in Msgs /\ writer.at.pos + Total(writer.msg) + 1 < Size
      BY <1>0, <2>9 DEF Publish, WriterInv, Writing
    <3>2. writer.at.pos \in 0..(Size - 1) /\ writer.at.cycles \in Nat /\ Total(writer.msg) \in Nat
      BY <1>0, <3>1, PositionIs, Sizes DEF WriterRegisters
    <3>3. At(writer.at.cycles, writer.at.pos + Total(writer.msg)) \in Positions
      BY <3>1, <3>2, PositionIs, Ring
    <3> QED BY <1>0, <2>9, <3>3 DEF Publish, MoveWritePointer
  <2> QED BY <2>1, <2>2, <2>3, <2>4, <2>5, <2>6, <2>7, <2>8, <2>9 DEF Publishing, Writer
<1> QED BY <1>1, <1>2, <1>3, <1>4 DEF Types

\* Where the writer is, and what surrounds it.
LEMMA WriterAt ==
  ASSUME Types, writer.pc \in Wrapping \cup Writing
  PROVE  /\ writer.at = write_pointer /\ writer.msg \in Msgs /\ P \in 0..(Size - 1)
         /\ write_pointer.cycles \in Nat /\ writer.i \in Nat /\ writer.n \in Nat /\ writer.i <= writer.n
         /\ Total(writer.msg) \in Nat /\ Total(writer.msg) = MsgSize[writer.msg] + 1
         /\ MsgSize[writer.msg] \in Nat \ {0}
         /\ writer.pc \in Wrapping => P >= Total(writer.msg)
         /\ writer.pc \in Writing => P + Total(writer.msg) + 1 < Size
<1>1. writer.at = write_pointer /\ writer.msg \in Msgs /\ write_pointer \in Positions /\ writer.i <= writer.n
      /\ writer.i \in 0..NUM_READERS /\ writer.n \in 0..NUM_READERS
  BY DEF Types, WriterInv, HeaderTypes, WriterRegisters
<1>2. P \in 0..(Size - 1) /\ write_pointer.cycles \in Nat
  BY <1>1, PositionIs DEF P
<1>3. Total(writer.msg) \in Nat /\ Total(writer.msg) = MsgSize[writer.msg] + 1 /\ MsgSize[writer.msg] \in Nat \ {0}
  BY <1>1, Sizes
<1>4. /\ writer.pc \in Wrapping => P >= Total(writer.msg)
      /\ writer.pc \in Writing => P + Total(writer.msg) + 1 < Size
  BY <1>1 DEF Types, WriterInv, P
<1> QED BY <1>1, <1>2, <1>3, <1>4, Ring

\* The ends of messages are places in the ring.
LEMMA Ends ==
  ASSUME Types, TagsFit, NEW w \in 0..(Size - 1), data[w] \in Tags
  PROVE  End(w) \in 0..(Size - 1) /\ End(w) > w /\ End(w) = w + data[w].size + 1
<1>1. data[w].size \in Nat \ {0}
  BY TagWords
<1>2. End(w) < Size
  BY DEF TagsFit
<1> QED BY <1>1, <1>2, Ring DEF End

LEMMA LayoutStays ==
  ASSUME Types, Layout, UNCHANGED <<data, write_pointer>>,
         writer'.pc \in {"idle", "clearValid", "clearUid", "wrapTag", "check", "invalidate", "tag"}
           \/ (writer.pc \in Wrapping \ {"wrapTag"} /\ writer'.pc \in Wrapping)
  PROVE  Layout'
  BY DEF Layout, TagsFit, Front, Back, Written, P, End, Begins, Wrapping

LEMMA WriterKeepsLayout == Types /\ Layout /\ Publishing => Layout'
<1> SUFFICES ASSUME Types, Layout, Publishing PROVE Layout'
  OBVIOUS
<1>0. /\ data \in [0..(Size - 1) -> Words] /\ writer \in WriterRegisters
      /\ TagsFit /\ Front /\ Back /\ Written /\ P \in 0..(Size - 1)
  BY PositionIs DEF Types, HeaderTypes, WriterInv, Layout, P
<1> USE DEF Wrapping, Writing
<1>1. CASE ClearValid \/ ClearUid \/ WrapCheck \/ AreaCheck \/ WrapInvalidate \/ AreaInvalidate
           \/ \E p \in Publishers : Start(p) \/ Send(p)
  <2>1. CASE \E p \in Publishers : Start(p)
    <3>1. writer' = WriterWith("clearValid", 0, writer.k) /\ UNCHANGED <<data, write_pointer>>
      BY <1>0, <2>1, WriterUpdate DEF Start
    <3> QED BY <3>1, LayoutStays DEF WriterWith
  <2>2. CASE \E p \in Publishers : Send(p)
    <3>1. writer'.pc \in {"check", "wrapTag"} /\ UNCHANGED <<data, write_pointer>>
      BY <2>2 DEF Send, header
    <3> QED BY <3>1, LayoutStays
  <2>3. CASE ClearValid \/ ClearUid
    <3>1. writer'.pc \in {"idle", "clearValid", "clearUid"} /\ UNCHANGED <<data, write_pointer>>
      BY <1>0, <2>3, WriterUpdate DEF ClearValid, ClearUid, WriterWith, header
    <3> QED BY <3>1, LayoutStays
  <2>6. \A pc, i : WriterWith(pc, i, writer.k).pc = pc
    BY DEF WriterWith
  <2>7. ASSUME NEW pc, NEW hit, NEW inv, NEW done, CheckReader(pc, hit, inv, done)
        PROVE  writer.pc = pc /\ writer'.pc \in {pc, inv, done} /\ UNCHANGED <<data, write_pointer>>
    <3>1. /\ \/ writer' = WriterWith(done, 0, writer.k)
             \/ writer' = WriterWith(inv, writer.i, writer.k)
             \/ writer' = WriterWith(pc, writer.i + 1, writer.k)
          /\ writer.pc = pc /\ UNCHANGED <<data, write_pointer>>
      BY <1>0, <2>7, WriterUpdate DEF CheckReader, header
    <3> QED BY <2>6, <3>1
  <2>8. ASSUME NEW pc, NEW loop, Invalidate(pc, loop)
        PROVE  writer.pc = pc /\ writer'.pc = loop /\ UNCHANGED <<data, write_pointer>>
    <3>1. writer' = WriterWith(loop, writer.i + 1, writer.k) /\ writer.pc = pc /\ UNCHANGED <<data, write_pointer>>
      BY <1>0, <2>8, WriterUpdate DEF Invalidate, header
    <3> QED BY <2>6, <3>1
  <2>4. CASE WrapCheck \/ WrapInvalidate
    <3>1. /\ writer'.pc \in {"wrapCheck", "wrapInvalidate", "wrapPtr"}
          /\ writer.pc \in {"wrapCheck", "wrapInvalidate"} /\ UNCHANGED <<data, write_pointer>>
      BY <2>4, <2>7, <2>8 DEF WrapCheck, WrapInvalidate
    <3> QED BY <3>1, LayoutStays
  <2>5. CASE AreaCheck \/ AreaInvalidate
    <3>1. writer'.pc \in {"check", "invalidate", "tag"} /\ UNCHANGED <<data, write_pointer>>
      BY <2>5, <2>7, <2>8 DEF AreaCheck, AreaInvalidate
    <3> QED BY <3>1, LayoutStays
  <2> QED BY <1>1, <2>1, <2>2, <2>3, <2>4, <2>5
<1>2. CASE WrapTag \/ WriteTag
  <2>1. /\ writer.pc \in {"wrapTag", "tag"} /\ UNCHANGED write_pointer
        /\ writer.pc = "wrapTag" => writer' = WriterWith("wrapCheck", writer.i, writer.k)
                                    /\ data' = [data EXCEPT ![writer.at.pos] = Wrap]
        /\ writer.pc = "tag" => writer' = WriterWith("copy", writer.i, 1)
                                /\ data' = [data EXCEPT ![writer.at.pos] = Tag(writer.msg)]
    BY <1>0, <1>2, WriterUpdate DEF WrapTag, WriteTag, header
  <2>2. /\ writer.at.pos = P /\ P' = P /\ writer.msg \in Msgs /\ Total(writer.msg) = MsgSize[writer.msg] + 1
        /\ writer.pc = "tag" => P + Total(writer.msg) + 1 < Size
    BY <2>1, WriterAt DEF P
  <2>3. /\ \A w \in 0..(Size - 1) : w # P => data'[w] = data[w]
        /\ writer.pc = "wrapTag" => data'[P] = Wrap
        /\ writer.pc = "tag" => data'[P] = Tag(writer.msg)
    BY <1>0, <2>1, <2>2
  <2>4. data'[P] \in Tags => P + data'[P].size + 1 < Size
    <3>1. CASE writer.pc = "wrapTag"
      BY <2>3, <3>1, TagWords
    <3>2. CASE writer.pc = "tag"
      <4>1. data'[P].size = MsgSize[writer.msg]
        BY <2>2, <2>3, <3>2, TagWord
      <4>2. MsgSize[writer.msg] \in Nat
        BY <2>2, Sizes
      <4>3. P + (MsgSize[writer.msg] + 1) + 1 < Size
        BY <2>2, <3>2
      <4>4. P + MsgSize[writer.msg] + 1 < Size
        BY <1>0, <4>2, <4>3, Ring
      <4> QED BY <4>1, <4>4
    <3> QED BY <2>1, <3>1, <3>2
  <2>5. TagsFit'
    <3> SUFFICES ASSUME NEW w \in 0..(Size - 1), data'[w] \in Tags PROVE w + data'[w].size + 1 < Size
      BY DEF TagsFit, End
    <3>1. CASE w = P
      BY <2>4, <3>1
    <3>2. CASE w # P
      BY <1>0, <2>3, <3>2 DEF TagsFit, End
    <3> QED BY <3>1, <3>2
  <2>6. Front'
    <3>1. P > 0 => data'[0] \in Tags
      BY <1>0, <2>3, Ring DEF Front
    <3>2. ASSUME NEW w \in 0..(Size - 1), w < P
          PROVE  /\ data'[w] # Wrap
                 /\ data'[w] \in Tags => \/ w + data'[w].size + 1 = P
                                         \/ w + data'[w].size + 1 < P /\ data'[w + data'[w].size + 1] \in Tags
      <4>1. data'[w] = data[w] /\ data[w] # Wrap
        BY <1>0, <2>3, <3>2 DEF Front
      <4>2. ASSUME data[w] \in Tags
            PROVE  End(w) = P \/ (End(w) < P /\ data'[End(w)] \in Tags)
        BY <1>0, <2>3, <3>2, <4>2, Ends DEF Front
      <4> QED BY <4>1, <4>2 DEF End
    <3> QED BY <2>2, <3>1, <3>2 DEF Front, End
  <2>7. Back'
    <3> SUFFICES ASSUME NEW w \in 0..(Size - 1), w > P, data'[w] \in Tags
                 PROVE  data'[w + data'[w].size + 1] \in Tags \cup {Wrap}
      BY <2>2 DEF Back, End, Begins
    <3>1. data'[w] = data[w] /\ End(w) \in 0..(Size - 1) /\ End(w) > P
      BY <1>0, <2>3, Ends
    <3>2. data[End(w)] \in Tags \cup {Wrap}
      BY <1>0, <3>1 DEF Back, Begins
    <3> QED BY <2>3, <3>1, <3>2 DEF End
  <2>8. Written'
    BY <1>0, <2>1, <2>2, <2>3 DEF Written, WriterWith
  <2> QED BY <2>5, <2>6, <2>7, <2>8 DEF Layout
<1>3. CASE CopyIn
  <2> DEFINE v == P + writer.k
             unit == Unit(writer.msg, writer.k)
  <2>1. /\ writer.pc = "copy" /\ UNCHANGED write_pointer
        /\ data' = [data EXCEPT ![writer.at.pos + writer.k] = unit]
        /\ IF writer.k = MsgSize[writer.msg] THEN writer' = WriterWith("publish", writer.i, 0)
           ELSE writer' = WriterWith("copy", writer.i, writer.k + 1)
    BY <1>0, <1>3, WriterUpdate DEF CopyIn, header
  <2>2. /\ writer.at.pos = P /\ P' = P /\ writer.msg \in Msgs /\ Total(writer.msg) = MsgSize[writer.msg] + 1
        /\ P + Total(writer.msg) + 1 < Size /\ writer.k \in 1..MsgSize[writer.msg] /\ MsgSize[writer.msg] \in Nat
    BY <2>1, WriterAt DEF P, Types, WriterInv
  <2>3. v \in 0..(Size - 1) /\ v > P /\ v # P /\ unit \notin Tags \cup {Wrap}
    <3>1. v \in 0..(Size - 1) /\ v > P /\ writer.k \in 1..Size
      BY <1>0, <2>2, Ring
    <3> QED BY <2>2, <3>1, UnitWords
  <2>4. data'[v] = unit /\ \A w \in 0..(Size - 1) : w # v => data'[w] = data[w]
    BY <1>0, <2>1, <2>2, <2>3
  <2> HIDE DEF v, unit
  <2>5. TagsFit'
    <3> SUFFICES ASSUME NEW w \in 0..(Size - 1), data'[w] \in Tags PROVE w + data'[w].size + 1 < Size
      BY DEF TagsFit, End
    <3>1. w # v
      BY <2>3, <2>4
    <3> QED BY <1>0, <2>4, <3>1 DEF TagsFit, End
  <2>6. Front'
    <3>1. P > 0 => data'[0] \in Tags
      BY <1>0, <2>3, <2>4, Ring DEF Front
    <3>2. ASSUME NEW w \in 0..(Size - 1), w < P
          PROVE  /\ data'[w] # Wrap
                 /\ data'[w] \in Tags => \/ w + data'[w].size + 1 = P
                                         \/ w + data'[w].size + 1 < P /\ data'[w + data'[w].size + 1] \in Tags
      <4>1. data'[w] = data[w] /\ data[w] # Wrap
        BY <1>0, <2>3, <2>4, <3>2 DEF Front
      <4>2. ASSUME data[w] \in Tags
            PROVE  End(w) = P \/ (End(w) < P /\ data'[End(w)] \in Tags)
        BY <1>0, <2>3, <2>4, <3>2, <4>2, Ends DEF Front
      <4> QED BY <4>1, <4>2 DEF End
    <3> QED BY <2>2, <3>1, <3>2 DEF Front, End
  <2>7. Back'
    <3> SUFFICES ASSUME NEW w \in 0..(Size - 1), w > P, data'[w] \in Tags
                 PROVE  data'[w + data'[w].size + 1] \in Tags \cup {Wrap}
      BY <2>2 DEF Back, End, Begins
    <3>1. w # v /\ data'[w] = data[w] /\ End(w) \in 0..(Size - 1) /\ End(w) > w
      BY <1>0, <2>3, <2>4, Ends
    <3>2. data[End(w)] \in Tags \cup {Wrap}
      BY <1>0, <3>1 DEF Back, Begins
    <3>3. ~(w < v)
      BY <1>0, <2>1, <3>1 DEF Written, Begins, v
    <3>4. End(w) # v
      BY <2>3, <3>1, <3>3
    <3> QED BY <2>4, <3>1, <3>2, <3>4 DEF End
  <2>8. Written'
    <3>1. data'[P] = Tag(writer.msg)
      BY <1>0, <2>1, <2>3, <2>4 DEF Written
    <3>2. ASSUME NEW w \in 0..(Size - 1), P < w, w < v + 1 PROVE data'[w] \notin Tags \cup {Wrap}
      <4>1. CASE w = v
        BY <2>3, <2>4, <4>1
      <4>2. CASE w # v
        <5>1. w < v
          BY <2>3, <3>2, <4>2
        <5> QED BY <1>0, <2>1, <2>4, <3>2, <4>2, <5>1 DEF Written, Begins, v
      <4> QED BY <4>1, <4>2
    <3>3. CASE writer.k = MsgSize[writer.msg]
      <4>1. v + 1 = P + Total(writer.msg)
        BY <1>0, <2>2, <3>3 DEF v
      <4>2. writer'.pc = "publish" /\ writer'.msg = writer.msg
        BY <2>1, <3>3 DEF WriterWith
      <4> QED BY <2>2, <3>1, <3>2, <4>1, <4>2 DEF Written, Begins
    <3>4. CASE writer.k # MsgSize[writer.msg]
      <4>1. writer'.pc = "copy" /\ writer'.msg = writer.msg /\ writer'.k = writer.k + 1
        BY <2>1, <3>4 DEF WriterWith
      <4>2. P + (writer.k + 1) = v + 1
        BY <1>0, <2>2 DEF v
      <4> QED BY <2>2, <3>1, <3>2, <4>1, <4>2 DEF Written, Begins
    <3> QED BY <3>3, <3>4
  <2> QED BY <2>5, <2>6, <2>7, <2>8 DEF Layout
<1>4. CASE WrapPtr
  <2>1. /\ writer.pc = "wrapPtr" /\ UNCHANGED data /\ write_pointer' = At(writer.at.cycles + 1, 0)
        /\ writer' = [writer EXCEPT !.pc = "check", !.at = At(writer.at.cycles + 1, 0)]
    BY <1>4 DEF WrapPtr, MoveWritePointer
  <2>2. writer'.pc = "check" /\ P' = 0
    BY <1>0, <2>1 DEF P, At, WriterRegisters
  <2>3. TagsFit'
    BY <1>0, <2>1 DEF TagsFit, End
  <2>4. Front'
    BY <2>2, Ring DEF Front
  <2>5. Back'
    <3> SUFFICES ASSUME NEW w \in 0..(Size - 1), w > 0, data[w] \in Tags PROVE Begins(End(w))
      BY <2>1, <2>2 DEF Back, End, Begins
    <3>1. data[P] = Wrap
      BY <1>0, <2>1 DEF Written
    <3>2. CASE w < P
      BY <1>0, <3>1, <3>2 DEF Front, Begins
    <3>3. CASE w > P
      BY <1>0, <3>3 DEF Back
    <3>4. CASE w = P
      BY <3>1, <3>4, TagWords
    <3> QED BY <1>0, <3>2, <3>3, <3>4
  <2>6. Written'
    BY <2>2 DEF Written
  <2> QED BY <2>3, <2>4, <2>5, <2>6 DEF Layout
<1>5. CASE Publish
  <2>1. /\ writer.pc = "publish" /\ UNCHANGED data
        /\ write_pointer' = At(writer.at.cycles, writer.at.pos + Total(writer.msg))
        /\ writer' = [WriterIdle EXCEPT !.msg = writer.msg]
    BY <1>5 DEF Publish, MoveWritePointer
  <2>2. /\ writer.at.pos = P /\ writer.msg \in Msgs /\ Total(writer.msg) = MsgSize[writer.msg] + 1
        /\ P + Total(writer.msg) + 1 < Size /\ MsgSize[writer.msg] \in Nat \ {0}
    BY <2>1, WriterAt DEF P
  <2>3. writer'.pc = "idle" /\ P' = P + Total(writer.msg)
    BY <2>1, <2>2 DEF P, At, WriterIdle
  <2>4. TagsFit'
    BY <1>0, <2>1 DEF TagsFit, End
  <2>5. /\ data[P] = Tag(writer.msg) /\ data[P] \in Tags /\ data[P] # Wrap /\ End(P) = P + Total(writer.msg)
        /\ \A w \in 0..(Size - 1) : P < w /\ w < P + Total(writer.msg) => ~Begins(w)
    <3>1. data[P] = Tag(writer.msg) /\ \A w \in 0..(Size - 1) : P < w /\ w < P + Total(writer.msg) => ~Begins(w)
      BY <1>0, <2>1 DEF Written
    <3>2. data[P] \in Tags /\ data[P].size = MsgSize[writer.msg] /\ data[P] # Wrap
      BY <2>2, <3>1, TagWord, TagWords
    <3>3. End(P) = P + Total(writer.msg)
      BY <1>0, <2>2, <3>2 DEF End
    <3> QED BY <3>1, <3>2, <3>3
  <2>6. Front'
    <3>1. data[0] \in Tags
      BY <1>0, <2>5 DEF Front
    <3>2. ASSUME NEW w \in 0..(Size - 1), w < P + Total(writer.msg)
          PROVE  /\ data[w] # Wrap
                 /\ data[w] \in Tags => \/ End(w) = P + Total(writer.msg)
                                        \/ End(w) < P + Total(writer.msg) /\ data[End(w)] \in Tags
      <4>1. CASE w < P
        BY <1>0, <2>2, <2>5, <4>1, Ends DEF Front
      <4>2. CASE w = P
        BY <2>5, <4>2
      <4>3. CASE w > P
        BY <2>5, <3>2, <4>3 DEF Begins
      <4> QED BY <1>0, <4>1, <4>2, <4>3
    <3> QED BY <2>1, <2>3, <3>1, <3>2 DEF Front, End
  <2>7. Back'
    BY <1>0, <2>1, <2>2, <2>3 DEF Back, Begins, End
  <2>8. Written'
    BY <2>3 DEF Written
  <2> QED BY <2>4, <2>6, <2>7, <2>8 DEF Layout
<1> QED BY <1>1, <1>2, <1>3, <1>4, <1>5 DEF Publishing, Writer

-----------------------------------------------------------------------------
(* The publisher and the readers                                           *)

LEMMA ReaderKeepsLayout ==
  ASSUME Types, Layout, NEW r \in Readers, Reader(r)
  PROVE  Layout'
<1>1. UNCHANGED <<write_pointer, data, writer>>
  BY ReaderShared DEF Layout
<1> QED BY <1>1 DEF Layout, TagsFit, Front, Back, Written, P, End, Begins

LEMMA Places ==
  ASSUME Types, NEW r \in Readers, Id(r) # -1
  PROVE  /\ Id(r) \in Slots /\ Id(r) \in Nat /\ At0(r) \in Positions
         /\ At0(r).cycles \in Nat /\ At0(r).pos \in 0..(Size - 1)
         /\ P \in 0..(Size - 1) /\ write_pointer.cycles \in Nat
         /\ read_valids \in [Slots -> BOOLEAN] /\ read_pointers \in [Slots -> Positions]
         /\ data \in [0..(Size - 1) -> Words]
<1>1. Id(r) \in Slots /\ Id(r) \in Nat
  BY Ring DEF Types, ReaderTypes, Registers, Id
<1>2. /\ write_pointer \in Positions /\ read_pointers \in [Slots -> Positions]
      /\ read_valids \in [Slots -> BOOLEAN] /\ data \in [0..(Size - 1) -> Words]
  BY DEF Types, HeaderTypes
<1>3. At0(r) \in Positions
  BY <1>1, <1>2 DEF At0
<1> QED BY <1>1, <1>2, <1>3, PositionIs DEF P

\* Where a size tag in flight leads.
LEMMA Following ==
  ASSUME Types, NEW r \in Readers, Id(r) # -1, OnTheTrack(r),
         reader[r].pc \in TagFollows, reader[r].size \in Tags
  PROVE  After(r) \in 0..(Size - 1) /\ After(r) > At0(r).pos /\ Leads(r)
         /\ After(r) = At0(r).pos + reader[r].size.size + 1
<1>1. RegistersOK(reader[r])
  BY DEF Types, ReaderTypes
<1>2. reader[r].rp = At0(r) /\ Leads(r)
  BY DEF OnTheTrack, TagFollows, InFlight
<1>3. At0(r).pos + reader[r].size.size + 1 < Size
  BY <1>1, <1>2 DEF RegistersOK
<1>4. reader[r].size.size \in Nat \ {0}
  BY TagWords
<1> QED BY <1>2, <1>3, <1>4, Places, Ring DEF After

\* The writer takes flags away and disturbs readers, never the opposite.
LEMMA PublisherFrame ==
  ASSUME Types, Publishing, NEW r \in Readers
  PROVE  /\ Clean(r)' => Clean(r)
         /\ Attached(r)' => Attached(r)
         /\ UNCHANGED <<reader, read_pointers>>
<1>1. UNCHANGED <<reader, read_pointers>>
  BY PublisherKeepsTypes
<1>2. disturbed \subseteq disturbed' /\ evicted \subseteq evicted'
  BY DEF Publishing, Start, Send, Writer, ClearValid, ClearUid, WrapTag, WrapCheck, WrapInvalidate,
     WrapPtr, AreaCheck, AreaInvalidate, WriteTag, CopyIn, Publish, CheckReader, Invalidate, history,
     WipeSlots, MoveWritePointer
<1>3. Clean(r)' => Clean(r)
  BY <1>2 DEF Clean
<1>4. \/ UNCHANGED read_valids
      \/ \E i : read_valids' = [read_valids EXCEPT ![i] = FALSE]
  BY DEF Publishing, Start, Send, Writer, ClearValid, ClearUid, WrapTag, WrapCheck, WrapInvalidate,
     WrapPtr, AreaCheck, AreaInvalidate, WriteTag, CopyIn, Publish, CheckReader, Invalidate, slots
<1>5. ASSUME Attached(r)' PROVE Attached(r)
  <2>1. /\ Clean(r) /\ Id(r) # -1 /\ read_valids'[Id(r)]
        /\ reader[r].pc \in {"start", "checkValid", "loadRead", "loadWrite", "loadSize", "checkSize",
                       "wrap", "skip", "copy", "advance", "checkCopy"}
    BY <1>1, <1>3, <1>5 DEF Attached, Id
  <2>2. read_valids[Id(r)]
    BY <1>4, <2>1, Places
  <2> QED BY <2>1, <2>2 DEF Attached
<1> QED BY <1>1, <1>3, <1>5

\* While the ring and the write pointer stay, so does what the readers have found.
LEMMA TrackStays ==
  ASSUME NEW r \in Readers, OnTheTrack(r), UNCHANGED <<data, write_pointer, reader, read_pointers>>
  PROVE  OnTheTrack(r)'
  BY DEF OnTheTrack, NotAhead, Behind, Leads, At0, P, Begins, End, After, Id

LEMMA LoopsKeepReaders ==
  ASSUME Types, NEW r \in Readers, Attached(r), OnTheTrack(r), Cleared(r), Attached(r)',
         \/ \E p \in Publishers : Start(p) \/ Send(p)
         \/ ClearValid \/ ClearUid \/ WrapCheck \/ AreaCheck \/ WrapInvalidate \/ AreaInvalidate
  PROVE  OnTheTrack(r)' /\ Cleared(r)'
<1>0. /\ UNCHANGED <<data, write_pointer, reader, read_pointers>> /\ Id(r) # -1
      /\ writer \in WriterRegisters /\ r \notin evicted
  BY DEF Start, Send, ClearValid, ClearUid, WrapCheck, WrapInvalidate, AreaCheck, AreaInvalidate,
     CheckReader, Invalidate, slots, header, Attached, Clean, Types, WriterInv
<1>1. OnTheTrack(r)'
  BY <1>0, TrackStays
<1>2. /\ Id(r)' = Id(r) /\ At0(r)' = At0(r) /\ P' = P /\ reader' = reader
      /\ Id(r) \in Nat /\ P \in 0..(Size - 1)
  BY <1>0, Places DEF Id, At0, P
<1>3. Cleared(r)'
  <2>1. ASSUME writer'.pc \in {"clearValid", "clearUid", "idle"} PROVE Cleared(r)'
    BY <2>1 DEF Cleared, Passed, Wrapping
  <2>2. CASE \E p \in Publishers : Start(p)
    <3>1. writer' = WriterWith("clearValid", 0, writer.k)
      BY <1>0, <2>2, WriterUpdate DEF Start
    <3> QED BY <2>1, <3>1 DEF WriterWith
  <2>3. CASE ClearValid \/ ClearUid
    <3>1. writer'.pc \in {"idle", "clearValid", "clearUid"}
      BY <1>0, <2>3, WriterUpdate DEF ClearValid, ClearUid, WriterWith
    <3> QED BY <2>1, <3>1
  <2>4. CASE \E p \in Publishers : Send(p)
    <3>1. writer'.pc \in {"check", "wrapTag"} /\ writer'.n = num_readers /\ writer'.i = 0
      BY <2>4 DEF Send
    <3>2. Id(r) < num_readers /\ num_readers \in Nat
      BY <1>0 DEF Types, Owners, HeaderTypes
    <3>3. ~(Id(r) >= num_readers) /\ ~(Id(r) < 0)
      BY <1>2, <3>2
    <3> QED BY <1>2, <3>1, <3>3 DEF Cleared, Passed
  <2>5. CASE WrapCheck \/ WrapInvalidate
    <3>1. writer.pc \in Wrapping /\ writer'.pc \in Wrapping /\ writer'.n = writer.n
      <4>1. CASE WrapCheck
        <5>1. /\ \/ writer' = WriterWith("wrapPtr", 0, writer.k)
                 \/ writer' = WriterWith("wrapInvalidate", writer.i, writer.k)
                 \/ writer' = WriterWith("wrapCheck", writer.i + 1, writer.k)
              /\ writer.pc = "wrapCheck"
          BY <1>0, <4>1, WriterUpdate DEF WrapCheck, CheckReader
        <5> QED BY <5>1 DEF WriterWith, Wrapping
      <4>2. CASE WrapInvalidate
        <5>1. writer' = WriterWith("wrapCheck", writer.i + 1, writer.k) /\ writer.pc = "wrapInvalidate"
          BY <1>0, <4>2, WriterUpdate DEF WrapInvalidate, Invalidate
        <5> QED BY <5>1 DEF WriterWith, Wrapping
      <4> QED BY <2>5, <4>1, <4>2
    <3> QED BY <1>2, <3>1 DEF Cleared, Passed, Wrapping
  <2>6. CASE AreaCheck \/ AreaInvalidate
    <3>0. /\ writer.pc \in {"check", "invalidate"} /\ writer.n \in Nat /\ writer.i \in Nat
          /\ Total(writer.msg) \in Nat \ {0} /\ writer.at = write_pointer
      <4>1. writer.pc \in {"check", "invalidate"}
        BY <2>6 DEF AreaCheck, AreaInvalidate, CheckReader, Invalidate
      <4> QED BY <4>1, WriterAt DEF Writing
    <3>1. /\ writer'.pc \notin Wrapping /\ writer'.msg = writer.msg
          /\ Passed(r)' => Passed(r) \/ (AreaCheck /\ writer.i = Id(r) /\ ~InTheWay(read_pointers[writer.i]))
      <4>1. CASE AreaCheck
        <5>1. /\ \/ writer' = WriterWith("tag", 0, writer.k) /\ writer.i = writer.n
                 \/ writer' = WriterWith("invalidate", writer.i, writer.k)
                 \/ writer' = WriterWith("check", writer.i + 1, writer.k) /\ ~InTheWay(read_pointers[writer.i])
              /\ writer.pc = "check"
          BY <1>0, <4>1, WriterUpdate DEF AreaCheck, CheckReader
        <5>2. CASE writer' = WriterWith("tag", 0, writer.k) /\ writer.i = writer.n
          BY <1>2, <3>0, <5>1, <5>2 DEF WriterWith, Passed, Wrapping
        <5>3. CASE writer' = WriterWith("invalidate", writer.i, writer.k)
          BY <1>2, <3>0, <5>1, <5>3 DEF WriterWith, Passed, Wrapping
        <5>4. CASE writer' = WriterWith("check", writer.i + 1, writer.k) /\ ~InTheWay(read_pointers[writer.i])
          <6>1. writer'.pc = "check" /\ writer'.i = writer.i + 1 /\ writer'.n = writer.n /\ writer'.msg = writer.msg
            BY <5>4 DEF WriterWith
          <6>2. Id(r) < writer.i + 1 => Id(r) < writer.i \/ Id(r) = writer.i
            BY <1>2, <3>0
          <6> QED BY <1>2, <4>1, <5>1, <5>4, <6>1, <6>2 DEF Passed, Wrapping
        <5> QED BY <5>1, <5>2, <5>3, <5>4
      <4>2. CASE AreaInvalidate
        <5>1. /\ writer' = WriterWith("check", writer.i + 1, writer.k) /\ writer.pc = "invalidate"
              /\ read_valids' = [read_valids EXCEPT ![writer.i] = FALSE]
          BY <1>0, <4>2, WriterUpdate DEF AreaInvalidate, Invalidate
        <5>2. writer'.pc = "check" /\ writer'.i = writer.i + 1 /\ writer'.n = writer.n /\ writer'.msg = writer.msg
          BY <5>1 DEF WriterWith
        <5>3. read_valids'[Id(r)]
          BY <1>2 DEF Attached
        <5>4. Id(r) # writer.i
          BY <1>0, <5>1, <5>3, Places
        <5>5. Id(r) < writer.i + 1 => Id(r) < writer.i
          BY <1>2, <3>0, <5>4
        <5> QED BY <1>2, <5>1, <5>2, <5>5 DEF Passed, Wrapping
      <4> QED BY <2>6, <4>1, <4>2
    <3>2. ASSUME AreaCheck, writer.i = Id(r), ~InTheWay(read_pointers[writer.i]) PROVE OutOfTheWay(r)
      <4>1. ~(At0(r).pos >= P /\ At0(r).pos < P + Total(writer.msg) /\ At0(r).cycles # write_pointer.cycles)
        BY <3>0, <3>2 DEF InTheWay, At0, P
      <4>2. NotAhead(r) /\ (reader[r].pc \in InFlight => Behind(r))
        BY DEF OnTheTrack
      <4>3. ~(P < At0(r).pos /\ At0(r).pos < P + Total(writer.msg))
        BY <1>0, <3>0, <4>1, <4>2, Places DEF NotAhead
      <4>4. ~(At0(r).pos = P /\ reader[r].pc \in InFlight)
        BY <1>0, <3>0, <4>1, <4>2, Places DEF Behind
      <4> QED BY <4>3, <4>4 DEF OutOfTheWay
    <3>3. OutOfTheWay(r) => OutOfTheWay(r)'
      BY <1>2, <3>1 DEF OutOfTheWay
    <3> QED BY <3>1, <3>2, <3>3 DEF Cleared
  <2> QED BY <2>2, <2>3, <2>4, <2>5, <2>6
<1> QED BY <1>1, <1>3

\* A wrap tag is written where the readers wait, or where a message began.
LEMMA WrapTagKeepsReaders ==
  ASSUME Types, Layout, NEW r \in Readers, Attached(r), OnTheTrack(r), Cleared(r), WrapTag
  PROVE  OnTheTrack(r)' /\ Cleared(r)'
<1>0. /\ UNCHANGED <<write_pointer, reader, read_pointers>> /\ Id(r) # -1 /\ writer.pc = "wrapTag"
      /\ writer' = WriterWith("wrapCheck", writer.i, writer.k)
      /\ writer.at = write_pointer /\ data' = [data EXCEPT ![P] = Wrap]
  <2>1. writer.pc = "wrapTag" /\ writer \in WriterRegisters
    BY DEF WrapTag, Types, WriterInv
  <2>2. writer.at = write_pointer
    BY <2>1, WriterAt DEF Wrapping
  <2> QED BY <2>1, <2>2, WriterUpdate DEF WrapTag, header, slots, Attached, P
<1>1. /\ Id(r)' = Id(r) /\ At0(r)' = At0(r) /\ P' = P /\ After(r)' = After(r) /\ reader' = reader
      /\ At0(r).pos \in 0..(Size - 1) /\ P \in 0..(Size - 1)
  BY <1>0, Places DEF Id, At0, P, After
<1>2. data'[P] = Wrap /\ \A w \in 0..(Size - 1) : w # P => data'[w] = data[w]
  BY <1>0, <1>1, Places
<1>3. Begins(At0(r).pos)' \/ At0(r).pos = P
  BY <1>1, <1>2 DEF OnTheTrack, Begins
<1>4. reader[r].pc \in TagFollows /\ reader[r].size \in Tags => Leads(r)'
  <2> SUFFICES ASSUME reader[r].pc \in TagFollows, reader[r].size \in Tags PROVE Leads(r)'
    OBVIOUS
  <2>1. After(r) \in 0..(Size - 1) /\ Leads(r)
    BY <1>0, Following
  <2>2. After(r) # P => data'[After(r)] = data[After(r)]
    BY <1>2, <2>1
  <2>3. CASE At0(r).pos < P
    BY <1>1, <2>1, <2>2, <2>3 DEF Leads
  <2>4. CASE ~(At0(r).pos < P)
    BY <1>1, <1>2, <2>1, <2>2, <2>4 DEF Leads, Begins
  <2> QED BY <2>3, <2>4
<1>5. data'[P] \notin Tags
  BY <1>2, TagWords
<1>6. OnTheTrack(r)'
  BY <1>0, <1>1, <1>3, <1>4, <1>5 DEF OnTheTrack, NotAhead, Behind, Begins
<1>7. Cleared(r)'
  BY <1>0, <1>1 DEF Cleared, Passed, Wrapping, WriterWith
<1> QED BY <1>6, <1>7

\* The size tag and the payload are written where no valid reader looks.
LEMMA WritingKeepsReaders ==
  ASSUME Types, Layout, NEW r \in Readers, Attached(r), OnTheTrack(r), Cleared(r), WriteTag \/ CopyIn
  PROVE  OnTheTrack(r)' /\ Cleared(r)'
<1> DEFINE v == IF writer.pc = "tag" THEN P ELSE P + writer.k
<1>0. /\ UNCHANGED <<write_pointer, reader, read_pointers>> /\ Id(r) # -1
      /\ writer'.pc \in {"copy", "publish"} /\ writer.pc \in {"tag", "copy"} /\ writer'.msg = writer.msg
  <2>1. writer \in WriterRegisters
    BY DEF Types, WriterInv
  <2>2. CASE WriteTag
    <3>1. writer' = WriterWith("copy", writer.i, 1)
      BY <2>1, <2>2, WriterUpdate DEF WriteTag
    <3> QED BY <2>2, <3>1 DEF WriteTag, header, slots, Attached, WriterWith
  <2>3. CASE CopyIn
    <3>1. writer' = WriterWith("publish", writer.i, 0) \/ writer' = WriterWith("copy", writer.i, writer.k + 1)
      BY <2>1, <2>3, WriterUpdate DEF CopyIn
    <3> QED BY <2>3, <3>1 DEF CopyIn, header, slots, Attached, WriterWith
  <2> QED BY <2>2, <2>3
<1>1. /\ writer.at = write_pointer /\ writer.msg \in Msgs /\ P \in 0..(Size - 1)
      /\ Total(writer.msg) = MsgSize[writer.msg] + 1 /\ MsgSize[writer.msg] \in Nat \ {0}
      /\ P + Total(writer.msg) + 1 < Size
  BY <1>0, WriterAt DEF Writing
<1>2. writer.pc = "copy" => writer.k \in 1..MsgSize[writer.msg]
  BY DEF Types, WriterInv
<1>3. v \in 0..(Size - 1) /\ v >= P /\ v < P + Total(writer.msg)
  <2>1. CASE writer.pc = "tag"
    BY <1>1, <2>1
  <2>2. CASE writer.pc = "copy"
    <3>1. P + (MsgSize[writer.msg] + 1) + 1 < Size
      BY <1>1
    <3>2. /\ P + writer.k \in 0..(Size - 1) /\ P + writer.k > P
          /\ P + writer.k < P + (MsgSize[writer.msg] + 1)
      BY <1>1, <1>2, <2>2, <3>1, Inside
    <3> QED BY <1>1, <2>2, <3>2
  <2> QED BY <1>0, <2>1, <2>2
<1>4. \A w \in 0..(Size - 1) : w # v => data'[w] = data[w]
  <2>1. CASE WriteTag
    <3>1. data' = [data EXCEPT ![v] = Tag(writer.msg)]
      BY <1>1, <2>1 DEF WriteTag, P
    <3> QED BY <1>0, <3>1, Places
  <2>2. CASE CopyIn
    <3>1. data' = [data EXCEPT ![v] = Unit(writer.msg, writer.k)]
      BY <1>1, <2>2 DEF CopyIn, P
    <3> QED BY <1>0, <3>1, Places
  <2> QED BY <2>1, <2>2
<1>5. writer.pc = "tag" => data'[P] \in Tags
  <2> SUFFICES ASSUME writer.pc = "tag" PROVE data'[P] \in Tags
    OBVIOUS
  <2>1. data' = [data EXCEPT ![P] = Tag(writer.msg)]
    BY <1>1 DEF WriteTag, CopyIn, P
  <2> QED BY <1>0, <1>1, <2>1, Places, TagWord
<1>6. OutOfTheWay(r) /\ Total(writer.msg) \in Nat \ {0}
  BY <1>0, <1>1 DEF Cleared, Passed
<1>7. /\ Id(r)' = Id(r) /\ At0(r)' = At0(r) /\ P' = P /\ After(r)' = After(r) /\ reader' = reader
      /\ At0(r).pos \in 0..(Size - 1)
  BY <1>0, Places DEF Id, At0, P, After
<1> HIDE DEF v
<1>8. At0(r).pos = P \/ Begins(At0(r).pos)'
  <2>1. CASE At0(r).pos # P
    <3>1. At0(r).pos # v
      BY <1>1, <1>3, <1>6, <1>7, <2>1 DEF OutOfTheWay
    <3> QED BY <1>4, <1>7, <2>1, <3>1 DEF OnTheTrack, Begins
  <2> QED BY <2>1
<1>9. reader[r].pc \in TagFollows /\ reader[r].size \in Tags => Leads(r)'
  <2> SUFFICES ASSUME reader[r].pc \in TagFollows, reader[r].size \in Tags PROVE Leads(r)'
    OBVIOUS
  <2>1. After(r) \in 0..(Size - 1) /\ Leads(r) /\ After(r) > At0(r).pos
    BY <1>0, Following
  <2>2. CASE At0(r).pos < P
    <3>1. After(r) # P => After(r) # v
      BY <1>1, <1>3, <2>1, <2>2 DEF Leads
    <3> QED BY <1>4, <1>7, <2>1, <2>2, <3>1 DEF Leads
  <2>3. CASE ~(At0(r).pos < P)
    <3>1. At0(r).pos # P
      BY <1>6 DEF OutOfTheWay, TagFollows, InFlight
    <3>2. After(r) # v
      BY <1>1, <1>3, <1>6, <1>7, <2>1, <2>3, <3>1 DEF OutOfTheWay
    <3> QED BY <1>4, <1>7, <2>1, <2>3, <3>2 DEF Leads, Begins
  <2> QED BY <2>2, <2>3
<1>10. ~(At0(r).pos = P /\ reader[r].pc \in InFlight)
  BY <1>6 DEF OutOfTheWay
<1>11. OnTheTrack(r)'
  BY <1>0, <1>7, <1>8, <1>9, <1>10 DEF OnTheTrack, NotAhead, Behind, InFlight
<1>12. Cleared(r)'
  BY <1>0, <1>6, <1>7 DEF Cleared, OutOfTheWay, Wrapping
<1> QED BY <1>11, <1>12

\* The write pointer moves to the start: what the readers have before them now lies
\* beyond it.
LEMMA WrapPtrKeepsReaders ==
  ASSUME Types, Layout, NEW r \in Readers, Attached(r), OnTheTrack(r), Cleared(r), WrapPtr
  PROVE  OnTheTrack(r)' /\ Cleared(r)'
<1>0. /\ UNCHANGED <<data, reader, read_pointers>> /\ Id(r) # -1 /\ writer.pc = "wrapPtr"
      /\ writer' = [writer EXCEPT !.pc = "check", !.at = At(@.cycles + 1, 0)]
      /\ writer.at = write_pointer /\ writer.i = 0 /\ writer \in WriterRegisters
      /\ write_pointer' = At(write_pointer.cycles + 1, 0)
  <2>1. writer.pc = "wrapPtr" /\ writer \in WriterRegisters /\ writer.i = 0
    BY DEF WrapPtr, Types, WriterInv
  <2>2. writer.at = write_pointer
    BY <2>1, WriterAt DEF Wrapping
  <2> QED BY <2>1, <2>2 DEF WrapPtr, MoveWritePointer, slots, Attached
<1>1. /\ writer'.pc = "check" /\ writer'.i = 0 /\ writer'.n = writer.n /\ writer'.msg = writer.msg
  BY <1>0 DEF WriterRegisters
<1>2. /\ Id(r)' = Id(r) /\ At0(r)' = At0(r) /\ P' = 0 /\ After(r)' = After(r) /\ reader' = reader
      /\ write_pointer'.cycles = write_pointer.cycles + 1
  BY <1>0 DEF Id, At0, P, After, At
<1>3. /\ At0(r).cycles \in Nat /\ At0(r).pos \in 0..(Size - 1) /\ P \in 0..(Size - 1) /\ Id(r) \in Nat
      /\ write_pointer.cycles \in Nat
  BY <1>0, Places
<1>4. P >= Total(writer.msg) /\ Total(writer.msg) = MsgSize[writer.msg] + 1 /\ MsgSize[writer.msg] \in Nat \ {0}
  BY <1>0, WriterAt DEF Wrapping
<1>5. data[P] = Wrap /\ data[0] \in Tags /\ Begins(End(0))
  <2>1. data[P] = Wrap /\ P > 0
    BY <1>0, <1>3, <1>4 DEF Layout, Written, Wrapping
  <2>2. data[0] \in Tags /\ 0 \in 0..(Size - 1)
    BY <2>1, Ring DEF Layout, Front
  <2>3. End(0) = P \/ data[End(0)] \in Tags
    BY <2>1, <2>2 DEF Layout, Front
  <2> QED BY <2>1, <2>2, <2>3 DEF Begins
<1>6. NotAhead(r)' /\ Behind(r)' /\ At0(r).cycles < write_pointer.cycles + 1
  <2>1. At0(r).cycles <= write_pointer.cycles
    BY <1>3 DEF OnTheTrack, NotAhead
  <2>2. At0(r).cycles < write_pointer.cycles + 1
    BY <1>3, <2>1
  <2> QED BY <1>2, <2>2 DEF NotAhead, Behind
<1>7. Begins(At0(r).pos)
  BY <1>5 DEF OnTheTrack, Begins
<1>8. reader[r].pc \in TagFollows /\ reader[r].size \in Tags => Leads(r)'
  <2> SUFFICES ASSUME reader[r].pc \in TagFollows, reader[r].size \in Tags PROVE Leads(r)'
    OBVIOUS
  <2>1. Begins(After(r))
    BY <1>0, <1>5, Following DEF Leads, Begins
  <2>2. ~(At0(r).pos < 0)
    BY <1>3
  <2> QED BY <1>0, <1>2, <2>1, <2>2 DEF Leads, Begins
<1>9. OnTheTrack(r)'
  BY <1>0, <1>2, <1>5, <1>6, <1>7, <1>8 DEF OnTheTrack, Begins, End
<1>10. Cleared(r)'
  <2>1. writer'.pc \notin Wrapping
    BY <1>1 DEF Wrapping
  <2>2. ASSUME Passed(r)' PROVE OutOfTheWay(r)'
    <3>1. Id(r) >= writer.n
      BY <1>1, <1>2, <1>3, <2>2 DEF Passed
    <3>2. At0(r).pos = P /\ reader[r].pc \notin InFlight
      BY <1>0, <3>1 DEF Cleared, Wrapping
    <3>3. ~(0 < At0(r).pos /\ At0(r).pos < 0 + Total(writer.msg))
      BY <1>3, <1>4, <3>2
    <3> QED BY <1>1, <1>2, <3>2, <3>3 DEF OutOfTheWay
  <2> QED BY <2>1, <2>2 DEF Cleared
<1> QED BY <1>9, <1>10

\* The message becomes part of the lap.
LEMMA PublishKeepsReaders ==
  ASSUME Types, Layout, NEW r \in Readers, Attached(r), OnTheTrack(r), Cleared(r), Publish
  PROVE  OnTheTrack(r)' /\ Cleared(r)'
<1>0. /\ UNCHANGED <<data, reader, read_pointers>> /\ Id(r) # -1 /\ writer.pc = "publish"
      /\ writer' = [WriterIdle EXCEPT !.msg = writer.msg]
      /\ write_pointer' = At(write_pointer.cycles, P + Total(writer.msg))
  <2>1. writer.pc = "publish"
    BY DEF Publish
  <2>2. writer.at = write_pointer
    BY <2>1, WriterAt DEF Writing
  <2> QED BY <2>1, <2>2 DEF Publish, MoveWritePointer, slots, Attached, P
<1>1. writer'.pc = "idle"
  BY <1>0 DEF WriterIdle
<1>2. /\ Id(r)' = Id(r) /\ At0(r)' = At0(r) /\ P' = P + Total(writer.msg) /\ After(r)' = After(r) /\ reader' = reader
      /\ write_pointer'.cycles = write_pointer.cycles
  BY <1>0 DEF Id, At0, P, After, At
<1>3. /\ At0(r).cycles \in Nat /\ At0(r).pos \in 0..(Size - 1) /\ P \in 0..(Size - 1)
      /\ write_pointer.cycles \in Nat
  BY <1>0, Places
<1>4. /\ Total(writer.msg) = MsgSize[writer.msg] + 1 /\ MsgSize[writer.msg] \in Nat \ {0} /\ writer.msg \in Msgs
      /\ P + Total(writer.msg) + 1 < Size /\ Total(writer.msg) \in Nat
  BY <1>0, WriterAt DEF Writing
<1>5. data[P] \in Tags
  BY <1>0, <1>4, TagWord DEF Layout, Written
<1>6. OutOfTheWay(r)
  BY <1>0 DEF Cleared, Passed
<1>7. NotAhead(r)' /\ (Behind(r) => Behind(r)')
  <2>1. NotAhead(r)
    BY DEF OnTheTrack
  <2> QED BY <1>2, <1>3, <1>4, <2>1 DEF NotAhead, Behind
<1>8. Begins(At0(r).pos)
  BY <1>5 DEF OnTheTrack, Begins
<1>9. data[P + Total(writer.msg)] \in Tags => Begins(End(P + Total(writer.msg)))
  <2>0. Total(writer.msg) \in Nat \ {0}
    BY <1>4
  <2>1. P + Total(writer.msg) \in 0..(Size - 1) /\ P + Total(writer.msg) > P
    BY <1>3, <1>4, <2>0, Beyond
  <2> QED BY <2>1 DEF Layout, Back
<1>10. reader[r].pc \in TagFollows /\ reader[r].size \in Tags => Leads(r)'
  <2> SUFFICES ASSUME reader[r].pc \in TagFollows, reader[r].size \in Tags PROVE Leads(r)'
    OBVIOUS
  <2>1. After(r) \in 0..(Size - 1) /\ Leads(r) /\ After(r) > At0(r).pos
    BY <1>0, Following
  <2>2. CASE At0(r).pos < P
    <3>1. After(r) <= P /\ data[After(r)] \in Tags
      BY <1>3, <1>5, <2>1, <2>2 DEF Leads
    <3>2. After(r) < P + Total(writer.msg) /\ At0(r).pos < P + Total(writer.msg)
      BY <1>3, <1>4, <2>1, <2>2, <3>1
    <3> QED BY <1>0, <1>2, <3>1, <3>2 DEF Leads
  <2>3. CASE ~(At0(r).pos < P)
    <3>1. At0(r).pos # P
      BY <1>6 DEF OutOfTheWay, TagFollows, InFlight
    <3>2. ~(At0(r).pos < P + Total(writer.msg))
      BY <1>3, <1>4, <1>6, <2>3, <3>1 DEF OutOfTheWay
    <3> QED BY <1>0, <1>2, <2>1, <2>3, <3>2 DEF Leads, Begins
  <2> QED BY <2>2, <2>3
<1>11. OnTheTrack(r)'
  BY <1>0, <1>2, <1>7, <1>8, <1>9, <1>10 DEF OnTheTrack, Begins, End
<1>12. Cleared(r)'
  BY <1>1 DEF Cleared, Passed, Wrapping
<1> QED BY <1>11, <1>12

LEMMA PublisherKeepsReaders ==
  ASSUME Types, Layout, ReaderInv, Publishing
  PROVE  ReaderInv'
<1> SUFFICES ASSUME NEW r \in Readers PROVE ReaderOK(r)'
  BY DEF ReaderInv
<1>1. ReaderOK(r)
  BY DEF ReaderInv
<1>2. /\ Clean(r)' => Clean(r)
      /\ Attached(r)' => Attached(r)
      /\ UNCHANGED <<reader, read_pointers>>
  BY PublisherFrame
<1>3. ASSUME Clean(r)', reader[r].pc = "storePointer" PROVE reader[r].wp = write_pointer'
  <2>1. reader[r].wp = write_pointer
    BY <1>1, <1>2, <1>3 DEF ReaderOK
  <2>2. CASE WrapPtr \/ Publish
    <3>1. r \in disturbed'
      BY <1>3, <2>2 DEF WrapPtr, Publish, MoveWritePointer
    <3> QED BY <1>3, <3>1 DEF Clean
  <2>3. CASE ~(WrapPtr \/ Publish)
    <3>1. write_pointer' = write_pointer
      BY <2>3 DEF Publishing, Start, Send, Writer, ClearValid, ClearUid, WrapTag, WrapCheck, WrapInvalidate,
         AreaCheck, AreaInvalidate, WriteTag, CopyIn, CheckReader, Invalidate, header
    <3> QED BY <2>1, <3>1
  <2> QED BY <2>2, <2>3
<1>4. ASSUME Attached(r)' PROVE OnTheTrack(r)' /\ Cleared(r)'
  <2>1. Attached(r) /\ OnTheTrack(r) /\ Cleared(r)
    BY <1>1, <1>2, <1>4 DEF ReaderOK
  <2>2. CASE \/ \E p \in Publishers : Start(p) \/ Send(p)
             \/ ClearValid \/ ClearUid \/ WrapCheck \/ AreaCheck \/ WrapInvalidate \/ AreaInvalidate
    BY <1>4, <2>1, <2>2, LoopsKeepReaders
  <2>3. CASE WrapTag
    BY <2>1, <2>3, WrapTagKeepsReaders
  <2>4. CASE WrapPtr
    BY <2>1, <2>4, WrapPtrKeepsReaders
  <2>5. CASE WriteTag \/ CopyIn
    BY <2>1, <2>5, WritingKeepsReaders
  <2>6. CASE Publish
    BY <2>1, <2>6, PublishKeepsReaders
  <2> QED BY <2>2, <2>3, <2>4, <2>5, <2>6 DEF Publishing, Writer
<1> QED BY <1>2, <1>3, <1>4 DEF ReaderOK

-----------------------------------------------------------------------------
(* A step of a reader                                                      *)

\* To the other readers it may write their slot, which disturbs them.
LEMMA OthersAlone ==
  ASSUME Types, Layout, NEW q \in Readers, Reader(q), NEW r \in Readers, r # q
  PROVE  /\ reader'[r] = reader[r] /\ (Clean(r)' => Clean(r))
         /\ Clean(r)' /\ Id(r) # -1 => /\ read_pointers'[Id(r)] = read_pointers[Id(r)]
                                       /\ read_valids'[Id(r)] => read_valids[Id(r)]
<1>1. reader'[r] = reader[r]
  BY RegistersKept, BecomesTypes DEF Types, ReaderTypes, Layout, RegistersOK
<1>2. RegistersOK(reader[q]) /\ HeaderTypes /\ Id(q) \in Slots \cup {-1}
  BY DEF Types, ReaderTypes, RegistersOK, Registers, Id
<1>3. ASSUME Id(r) # -1
      PROVE  Id(r) \in Slots /\ read_valids \in [Slots -> BOOLEAN] /\ read_pointers \in [Slots -> Positions]
  BY <1>3, Places
<1> USE DEF Clean, header, slots, history
<1>4. CASE LoadNumReaders(q) \/ CheckUid(q) \/ CheckValid(q) \/ LoadRead(q) \/ LoadWrite(q) \/ LoadSize(q)
           \/ CheckSize(q) \/ CopyOut(q)
  BY <1>1, <1>4 DEF OnlyReader, LoadNumReaders, CheckUid, CheckValid, LoadRead, LoadWrite, LoadSize,
     CheckSize, CopyOut
<1>5. CASE Evict(q) \/ LoadPointer(q) \/ CheckCopy(q) \/ Claim(q) \/ WipeUid(q) \/ NewUid(q)
  BY <1>1, <1>5 DEF Evict, WipeSlots, LoadPointer, CheckCopy, Claim, WipeUid, NewUid
<1>6. CASE WipeValid(q) \/ NewValid(q)
  <2>1. \E i : read_valids' = [read_valids EXCEPT ![i] = FALSE]
    BY <1>6 DEF WipeValid, NewValid
  <2>2. UNCHANGED <<disturbed, evicted, read_pointers>>
    BY <1>6 DEF WipeValid, NewValid
  <2> QED BY <1>1, <1>3, <2>1, <2>2
<1>7. CASE NewPointer(q) \/ SetValid(q) \/ StorePointer(q) \/ WrapAround(q) \/ Skip(q) \/ Advance(q)
  <2>1. Id(r) = Id(q) => r \in disturbed'
    BY <1>7 DEF NewPointer, SetValid, StorePointer, WrapAround, Skip, Advance, MoveReadPointer, Disturb
  <2>2. disturbed \subseteq disturbed' /\ evicted' = evicted
    BY <1>7 DEF NewPointer, SetValid, StorePointer, WrapAround, Skip, Advance, MoveReadPointer, Disturb
  <2>3. /\ read_valids' = read_valids \/ read_valids' = [read_valids EXCEPT ![Id(q)] = TRUE]
        /\ read_pointers' = read_pointers \/ \E at : read_pointers' = [read_pointers EXCEPT ![Id(q)] = at]
    BY <1>7 DEF NewPointer, SetValid, StorePointer, WrapAround, Skip, Advance, MoveReadPointer
  <2> QED BY <1>1, <1>3, <2>1, <2>2, <2>3
<1> QED BY <1>4, <1>5, <1>6, <1>7 DEF Reader

LEMMA OthersOK ==
  ASSUME Types, Layout, ReaderInv, NEW q \in Readers, Reader(q), NEW r \in Readers, r # q
  PROVE  ReaderOK(r)'
<1>1. /\ reader'[r] = reader[r] /\ (Clean(r)' => Clean(r))
      /\ Clean(r)' /\ Id(r) # -1 => /\ read_pointers'[Id(r)] = read_pointers[Id(r)]
                                    /\ read_valids'[Id(r)] => read_valids[Id(r)]
  BY OthersAlone
<1>2. UNCHANGED <<write_pointer, data, writer>>
  BY ReaderShared DEF Layout
<1>3. ReaderOK(r)
  BY DEF ReaderInv
<1>4. Id(r)' = Id(r) /\ After(r)' = After(r)
  BY <1>1 DEF Id, After
<1>5. ASSUME Attached(r)' PROVE OnTheTrack(r)' /\ Cleared(r)'
  <2>1. Clean(r)' /\ Id(r) # -1 /\ read_valids'[Id(r)]
    BY <1>4, <1>5 DEF Attached
  <2>6. read_pointers'[Id(r)] = read_pointers[Id(r)] /\ read_valids[Id(r)] /\ Clean(r)
    BY <1>1, <2>1
  <2>7. At0(r)' = At0(r)
    BY <1>4, <2>6 DEF At0
  <2>8. Attached(r)
    BY <1>1, <1>5, <2>1, <2>6 DEF Attached
  <2>2. At0(r)' = At0(r) /\ Attached(r)
    BY <2>7, <2>8
  <2>9. OnTheTrack(r) /\ Cleared(r) /\ P' = P
    BY <1>2, <1>3, <2>2 DEF ReaderOK, P
  <2>10. OnTheTrack(r)'
    BY <1>1, <1>2, <1>4, <2>2, <2>9 DEF OnTheTrack, NotAhead, Behind, Leads, Begins, End
  <2>11. Cleared(r)'
    BY <1>1, <1>2, <1>4, <2>2, <2>9 DEF Cleared, Passed, OutOfTheWay
  <2> QED BY <2>10, <2>11
<1> QED BY <1>1, <1>2, <1>3, <1>5 DEF ReaderOK

\* What the registers of a step mean for its reader.
LEMMA Registered ==
  ASSUME NEW q \in Readers, NEW pc, NEW rp, NEW wp, NEW size, NEW buf,
         Becomes(q, Receives(q, pc, rp, wp, size, buf))
  PROVE  /\ reader'[q].pc = pc /\ reader'[q].rp = rp /\ reader'[q].wp = wp /\ reader'[q].size = size
         /\ Id(q)' = Id(q) /\ reader'[q].buf = buf
  BY DEF Becomes, Receives, Id

LEMMA Restarted ==
  ASSUME NEW q \in Readers, NEW pc, Becomes(q, Fresh(q, pc))
  PROVE  reader'[q].pc = pc /\ Id(q)' = Id(q) /\ reader'[q].buf = <<>>
  BY DEF Becomes, Fresh, Id

Listening == {"start", "checkValid", "loadRead", "loadWrite", "loadSize", "checkSize", "wrap", "skip",
              "copy", "advance", "checkCopy"}

\* Steps that only look: the reader was on the track before.
LEMMA LookingKeepsReader ==
  ASSUME Types, Layout, ReaderInv, NEW q \in Readers,
         CheckUid(q) \/ CheckValid(q) \/ LoadRead(q) \/ LoadWrite(q) \/ LoadSize(q)
           \/ CheckSize(q) \/ CopyOut(q) \/ CheckCopy(q),
         Attached(q)'
  PROVE  OnTheTrack(q)' /\ Cleared(q)'
<1>0. /\ UNCHANGED <<write_pointer, data, writer, read_pointers, read_valids, disturbed, evicted>>
      /\ reader \in [Readers -> Registers] /\ RegistersOK(reader[q]) /\ Reader(q)
  BY DEF CheckUid, CheckValid, LoadRead, LoadWrite, LoadSize, CheckSize, CopyOut, CheckCopy, OnlyReader,
     header, slots, history, Types, ReaderTypes, Reader
<1>1. reader'[q].id = reader[q].id
  <2>1. ~Claim(q)
    BY DEF Claim, CheckUid, CheckValid, LoadRead, LoadWrite, LoadSize, CheckSize, CopyOut, CheckCopy
  <2> QED BY <1>0, <2>1, SameSlot
<1>2. /\ Id(q)' = Id(q) /\ At0(q)' = At0(q) /\ P' = P /\ Clean(q) /\ Id(q) # -1 /\ read_valids[Id(q)]
      /\ reader'[q].pc \in Listening
  BY <1>0, <1>1 DEF Id, At0, P, Attached, Clean, Listening
<1>3. Attached(q) /\ OnTheTrack(q) /\ Cleared(q)
  <2>1. reader[q].pc \in Listening
    BY DEF Listening, CheckUid, CheckValid, LoadRead, LoadWrite, LoadSize, CheckSize, CopyOut, CheckCopy
  <2>2. Attached(q)
    BY <1>2, <2>1 DEF Attached, Listening
  <2> QED BY <2>2 DEF ReaderInv, ReaderOK
<1>4. /\ At0(q) \in Positions /\ At0(q).cycles \in Nat /\ At0(q).pos \in 0..(Size - 1)
      /\ P \in 0..(Size - 1) /\ write_pointer.cycles \in Nat /\ data \in [0..(Size - 1) -> Words]
  BY <1>2, Places
<1>5. (NotAhead(q)' <=> NotAhead(q)) /\ (Behind(q)' <=> Behind(q)) /\ (Passed(q)' <=> Passed(q))
      /\ \A w : (Begins(w)' <=> Begins(w)) /\ (End(w)' = End(w))
  BY <1>0, <1>2 DEF NotAhead, Behind, Passed, Begins, End
\* The reader has nothing in hand.
<1>6. ASSUME reader'[q].pc \in Listening \ (InFlight \cup {"loadWrite"}) PROVE OnTheTrack(q)' /\ Cleared(q)'
  <2>1. OnTheTrack(q)'
    BY <1>2, <1>3, <1>5, <1>6 DEF OnTheTrack, TagFollows, InFlight
  <2>2. Cleared(q)'
    BY <1>0, <1>2, <1>3, <1>5, <1>6 DEF Cleared, OutOfTheWay
  <2> QED BY <2>1, <2>2
<1>7. CASE CheckUid(q) \/ CheckValid(q)
  <2>1. \E pc \in {"subscribe", "checkValid", "setValid", "loadRead"} : Becomes(q, Goes(q, pc))
    BY <1>0, <1>7, Updates DEF CheckUid, CheckValid
  <2>2. reader'[q].pc \in {"checkValid", "loadRead"}
    BY <1>2, <2>1, Registered DEF Goes, Listening
  <2> QED BY <1>6, <2>2 DEF Listening, InFlight
<1>8. CASE LoadRead(q)
  <2>1. reader'[q].pc = "loadWrite" /\ reader'[q].rp = At0(q)
    BY <1>0, <1>8, ReceiverMoves, Registered DEF At0
  <2>2. OnTheTrack(q)'
    BY <1>2, <1>3, <1>5, <2>1 DEF OnTheTrack, TagFollows, InFlight
  <2>3. Cleared(q)'
    BY <1>0, <1>2, <1>3, <1>5, <2>1 DEF Cleared, OutOfTheWay, InFlight
  <2> QED BY <2>2, <2>3
<1>9. CASE LoadWrite(q)
  <2>1. reader[q].pc = "loadWrite" /\ reader[q].rp = At0(q)
    BY <1>3, <1>9 DEF LoadWrite, OnTheTrack
  <2>2. CASE At0(q).pos = P
    <3>1. Becomes(q, Fresh(q, "start"))
      BY <1>0, <1>9, <2>1, <2>2, ReceiverMoves DEF P
    <3> QED BY <1>6, <3>1, Restarted DEF Listening, InFlight
  <2>3. CASE At0(q).pos # P
    <3>1. Becomes(q, Receives(q, "loadSize", reader[q].rp, write_pointer, reader[q].size, reader[q].buf))
      BY <1>0, <1>9, <2>1, <2>3, ReceiverMoves DEF P
    <3>2. reader'[q].pc = "loadSize" /\ reader'[q].rp = At0(q)
      BY <2>1, <3>1, Registered
    <3>3. Behind(q)
      BY <1>3, <1>4, <2>3 DEF OnTheTrack, NotAhead, Behind
    <3>4. OnTheTrack(q)'
      BY <1>2, <1>3, <1>5, <2>3, <3>2, <3>3 DEF OnTheTrack, TagFollows
    <3>5. Cleared(q)'
      BY <1>0, <1>2, <1>3, <1>5, <2>3, <3>2 DEF Cleared, OutOfTheWay
    <3> QED BY <3>4, <3>5
  <2> QED BY <2>2, <2>3
<1>10. CASE LoadSize(q)
  <2>1. reader[q].pc = "loadSize" /\ reader[q].rp = At0(q) /\ Behind(q)
    BY <1>3, <1>10 DEF LoadSize, OnTheTrack, InFlight
  <2>2. /\ reader'[q].pc = "checkSize" /\ reader'[q].rp = At0(q) /\ reader'[q].size = data[At0(q).pos]
    BY <1>0, <1>10, <2>1, ReceiverMoves, Registered
  <2>3. ASSUME data[At0(q).pos] \in Tags PROVE Leads(q)'
    <3>1. After(q)' = End(At0(q).pos)
      BY <2>2 DEF After, End
    <3>2. CASE At0(q).pos < P
      <4>1. End(At0(q).pos) = P \/ (End(At0(q).pos) < P /\ data[End(At0(q).pos)] \in Tags)
        BY <1>4, <2>3, <3>2 DEF Layout, Front
      <4> QED BY <1>0, <1>2, <3>1, <3>2, <4>1 DEF Leads
    <3>3. CASE At0(q).pos = P
      <4>1. Begins(End(At0(q).pos))
        BY <1>3, <2>1, <2>3, <3>3 DEF OnTheTrack
      <4>2. ~(At0(q).pos < P)
        BY <1>4, <3>3
      <4> QED BY <1>2, <1>5, <3>1, <4>1, <4>2 DEF Leads
    <3>4. CASE At0(q).pos > P
      <4>1. Begins(End(At0(q).pos))
        BY <1>4, <2>3, <3>4 DEF Layout, Back
      <4>2. ~(At0(q).pos < P)
        BY <1>4, <3>4
      <4> QED BY <1>2, <1>5, <3>1, <4>1, <4>2 DEF Leads
    <3> QED BY <1>4, <3>2, <3>3, <3>4
  <2>4. ASSUME data[At0(q).pos] = Wrap PROVE At0(q).cycles < write_pointer.cycles
    <3>1. ~(At0(q).pos < P)
      BY <1>4, <2>4 DEF Layout, Front
    <3> QED BY <2>1, <3>1 DEF Behind
  <2>5. OnTheTrack(q)'
    BY <1>0, <1>2, <1>3, <1>5, <2>1, <2>2, <2>3, <2>4 DEF OnTheTrack, InFlight
  <2>6. Cleared(q)'
    BY <1>0, <1>2, <1>3, <1>5, <2>1, <2>2 DEF Cleared, OutOfTheWay, InFlight
  <2> QED BY <2>5, <2>6
\* The size in hand stays.
<1>11. ASSUME NEW pc, NEW pc2 \in {"wrap", "skip", "copy", "advance"}, reader[q].pc = pc,
              reader'[q].pc = pc2, reader'[q].rp = reader[q].rp, reader'[q].size = reader[q].size,
              pc \in TagFollows,
              pc2 = "wrap" => pc = "checkSize"
       PROVE  OnTheTrack(q)' /\ Cleared(q)'
  <2>1. /\ reader[q].rp = At0(q) /\ Behind(q)
        /\ reader[q].size \in Tags => Leads(q)
        /\ pc2 = "wrap" /\ reader[q].size = Wrap => At0(q).cycles < write_pointer.cycles
    BY <1>3, <1>11 DEF OnTheTrack, TagFollows, InFlight
  <2>2. After(q)' = After(q)
    BY <1>11 DEF After
  <2>3. Leads(q)' <=> Leads(q)
    BY <1>0, <1>2, <1>5, <2>2 DEF Leads
  <2>4. OnTheTrack(q)'
    BY <1>0, <1>2, <1>3, <1>5, <1>11, <2>1, <2>3 DEF OnTheTrack, InFlight
  <2>5. Cleared(q)'
    BY <1>0, <1>2, <1>3, <1>5, <1>11 DEF Cleared, OutOfTheWay, InFlight, TagFollows
  <2> QED BY <2>4, <2>5
<1>12. CASE CheckSize(q)
  <2>1. reader[q].pc = "checkSize"
    BY <1>12 DEF CheckSize
  <2>2. \E pc \in {"wrap", "skip", "copy", "dead"} : Becomes(q, Goes(q, pc))
    BY <1>0, <1>2, <1>12, Updates DEF CheckSize
  <2>3. PICK pc \in {"wrap", "skip", "copy", "dead"} : Becomes(q, Goes(q, pc))
    BY <2>2
  <2>4. reader'[q].pc = pc /\ reader'[q].rp = reader[q].rp /\ reader'[q].size = reader[q].size
    BY <2>3, Registered DEF Goes
  <2>5. pc # "dead"
    BY <1>2, <2>4 DEF Listening
  <2> QED BY <1>11, <2>1, <2>4, <2>5 DEF TagFollows
<1>13. CASE CopyOut(q)
  <2>1. reader[q].pc = "copy"
    BY <1>13 DEF CopyOut
  <2>2. PICK pc \in {"advance", "copy"} : \E word \in {Nothing} \cup {data[w] : w \in 0..(Size - 1)} :
          Becomes(q, Receives(q, pc, reader[q].rp, reader[q].wp, reader[q].size, Append(reader[q].buf, word)))
    BY <1>0, <1>13, ReceiverMoves
  <2>3. reader'[q].pc = pc /\ reader'[q].rp = reader[q].rp /\ reader'[q].size = reader[q].size
    BY <2>2, Registered
  <2> QED BY <1>11, <2>1, <2>3 DEF TagFollows
<1>14. CASE CheckCopy(q)
  <2>1. Becomes(q, Fresh(q, "start"))
    BY <1>0, <1>2, <1>14, Updates DEF CheckCopy
  <2> QED BY <1>6, <2>1, Restarted DEF Listening, InFlight
<1> QED BY <1>7, <1>8, <1>9, <1>10, <1>12, <1>13, <1>14

\* Where the reader goes on: the writer is not there, or has not looked yet.
LEMMA MovedOK ==
  ASSUME Types, NEW q \in Readers, UNCHANGED <<write_pointer, data, writer>>, Id(q)' # -1,
         reader'[q].pc \in {"start", "checkCopy"},
         NEW c \in Nat, NEW w \in 0..(Size - 1), At0(q)' = At(c, w),
         c < write_pointer.cycles \/ (c = write_pointer.cycles /\ w <= P),
         w = P \/ Begins(w),
         Passed(q)' => ~(P < w /\ w < P + Total(writer.msg)),
         writer.pc \in Wrapping /\ Id(q)' >= writer.n => w = P
  PROVE  OnTheTrack(q)' /\ Cleared(q)'
<1>1. At0(q)'.cycles = c /\ At0(q)'.pos = w /\ P' = P
  BY DEF At, P
<1>2. reader'[q].pc \notin InFlight \cup TagFollows \cup {"loadWrite", "wrap", "loadSize", "checkSize"}
  BY DEF InFlight, TagFollows
<1>3. OnTheTrack(q)'
  BY <1>1, <1>2 DEF OnTheTrack, NotAhead, Begins
<1>4. Cleared(q)'
  BY <1>1, <1>2 DEF Cleared, OutOfTheWay
<1> QED BY <1>3, <1>4

\* A reset that nothing disturbed ends at the write pointer.
LEMMA ResetKeepsReader ==
  ASSUME Types, Layout, ReaderInv, NEW q \in Readers, StorePointer(q), Attached(q)'
  PROVE  OnTheTrack(q)' /\ Cleared(q)'
<1>0. /\ UNCHANGED <<write_pointer, data, writer>> /\ reader \in [Readers -> Registers]
      /\ RegistersOK(reader[q]) /\ evicted' = evicted /\ reader[q].pc = "storePointer"
      /\ read_pointers' = [read_pointers EXCEPT ![Id(q)] = reader[q].wp]
  BY DEF StorePointer, header, Types, ReaderTypes
<1>1. reader'[q].pc = "start" /\ Id(q)' = Id(q)
  BY <1>0, Updates, Restarted DEF StorePointer
<1>2. Clean(q)
  BY DEF StorePointer, Disturb, Clean, Attached
<1>3. Id(q) # -1
  BY <1>0 DEF RegistersOK, Subscribing, Id
<1>4. reader[q].wp = write_pointer
  BY <1>0, <1>2 DEF ReaderInv, ReaderOK
<1>5. At0(q)' = write_pointer
  BY <1>0, <1>1, <1>3, <1>4, Places DEF At0
<1>6. write_pointer = At(write_pointer.cycles, P) /\ write_pointer.cycles \in Nat /\ P \in 0..(Size - 1)
  BY <1>3, Places, PositionIs DEF Types, HeaderTypes, P
<1>7. /\ ~(P < P /\ P < P + Total(writer.msg)) /\ P <= P
  BY <1>6
<1> QED BY <1>0, <1>1, <1>3, <1>5, <1>6, <1>7, MovedOK

\* The reader goes where the wrap or the size in its hand leads.
LEMMA MoveKeepsReader ==
  ASSUME Types, Layout, ReaderInv, NEW q \in Readers, WrapAround(q) \/ Skip(q) \/ Advance(q),
         Attached(q)'
  PROVE  OnTheTrack(q)' /\ Cleared(q)'
<1>0. /\ UNCHANGED <<write_pointer, data, writer, read_valids>> /\ reader \in [Readers -> Registers]
      /\ RegistersOK(reader[q]) /\ evicted' = evicted /\ reader[q].pc \in {"wrap", "skip", "advance"}
      /\ Reader(q)
  BY DEF WrapAround, Skip, Advance, MoveReadPointer, header, Types, ReaderTypes, Reader
<1>1. reader'[q].pc \in {"start", "checkCopy"} /\ Id(q)' = Id(q)
  <2>1. CASE Advance(q)
    BY <1>0, <2>1, Updates, Registered DEF Advance, Goes
  <2>2. CASE WrapAround(q) \/ Skip(q)
    BY <1>0, <2>2, Updates, Restarted DEF WrapAround, Skip
  <2> QED BY <2>1, <2>2
<1>2. Clean(q)
  BY DEF WrapAround, Skip, Advance, MoveReadPointer, Disturb, Clean, Attached
<1>3. Id(q) # -1
  BY <1>0 DEF RegistersOK, Subscribing, Id
<1>4. Attached(q) /\ OnTheTrack(q) /\ Cleared(q)
  <2>1. read_valids[Id(q)]
    BY <1>0, <1>1 DEF Attached
  <2>2. Attached(q)
    BY <1>0, <1>2, <1>3, <2>1 DEF Attached
  <2> QED BY <2>2 DEF ReaderInv, ReaderOK
<1>5. /\ At0(q).cycles \in Nat /\ At0(q).pos \in 0..(Size - 1) /\ P \in 0..(Size - 1)
      /\ write_pointer.cycles \in Nat /\ read_pointers \in [Slots -> Positions] /\ Id(q) \in Slots
  BY <1>3, Places
<1>6. reader[q].pc \in InFlight /\ reader[q].rp = At0(q) /\ Behind(q)
  BY <1>0, <1>4 DEF OnTheTrack, InFlight
<1>7. ~(writer.pc \in Wrapping /\ Id(q)' >= writer.n)
  BY <1>1, <1>4, <1>6 DEF Cleared
<1>8. Passed(q)' => OutOfTheWay(q)
  BY <1>0, <1>1, <1>4 DEF Cleared, Passed
<1>9. CASE WrapAround(q)
  <2>1. At0(q)' = At(At0(q).cycles + 1, 0)
    BY <1>1, <1>5, <1>6, <1>9 DEF WrapAround, MoveReadPointer, At0
  <2>2. At0(q).cycles < write_pointer.cycles
    BY <1>0, <1>4, <1>9 DEF OnTheTrack, WrapAround, RegistersOK
  <2>3. \/ At0(q).cycles + 1 < write_pointer.cycles
        \/ At0(q).cycles + 1 = write_pointer.cycles /\ 0 <= P
    BY <1>5, <2>2
  <2>4. 0 = P \/ Begins(0)
    BY <1>5 DEF Layout, Front, Begins
  <2>5. ~(P < 0) /\ 0 \in 0..(Size - 1) /\ At0(q).cycles + 1 \in Nat
    BY <1>5, Ring
  <2> QED BY <1>0, <1>1, <1>3, <1>7, <2>1, <2>3, <2>4, <2>5, MovedOK
<1>10. CASE Skip(q) \/ Advance(q)
  <2>1. At0(q)' = At(At0(q).cycles, After(q))
    BY <1>1, <1>5, <1>6, <1>10 DEF Skip, Advance, MoveReadPointer, At0
  <2>2. reader[q].size \in Tags /\ reader[q].pc \in TagFollows
    BY <1>0, <1>10 DEF Skip, Advance, RegistersOK, TagFollows
  <2>3. After(q) \in 0..(Size - 1) /\ After(q) > At0(q).pos /\ Leads(q)
    BY <1>3, <1>4, <2>2, Following
  <2>4. CASE At0(q).pos < P
    <3>1. After(q) <= P /\ (After(q) = P \/ Begins(After(q)))
      BY <1>5, <2>3, <2>4 DEF Leads, Begins
    <3>2. ~(P < After(q))
      BY <1>5, <2>3, <3>1
    <3>3. \/ At0(q).cycles < write_pointer.cycles
          \/ At0(q).cycles = write_pointer.cycles /\ After(q) <= P
      BY <1>6, <3>1 DEF Behind
    <3> QED BY <1>0, <1>1, <1>3, <1>5, <1>7, <2>1, <2>3, <3>1, <3>2, <3>3, MovedOK
  <2>5. CASE ~(At0(q).pos < P)
    <3>1. Begins(After(q)) /\ At0(q).cycles < write_pointer.cycles
      BY <1>6, <2>3, <2>5 DEF Leads, Behind
    <3>2. Passed(q)' => ~(P < After(q) /\ After(q) < P + Total(writer.msg))
      <4> SUFFICES ASSUME Passed(q)' PROVE ~(P < After(q) /\ After(q) < P + Total(writer.msg))
        OBVIOUS
      <4>1. Total(writer.msg) \in Nat
        <5>1. writer.pc \in Writing
          BY <1>0 DEF Passed, Writing
        <5> QED BY <5>1, WriterAt
      <4>2. At0(q).pos > P /\ ~(At0(q).pos < P + Total(writer.msg))
        BY <1>5, <1>6, <1>8, <2>5 DEF OutOfTheWay
      <4> QED BY <1>5, <2>3, <4>1, <4>2
    <3> QED BY <1>0, <1>1, <1>3, <1>5, <1>7, <2>1, <2>3, <3>1, <3>2, MovedOK
  <2> QED BY <2>4, <2>5
<1> QED BY <1>9, <1>10

LEMMA ReaderKeepsReaders ==
  ASSUME Types, Layout, ReaderInv, NEW q \in Readers, Reader(q)
  PROVE  ReaderInv'
<1> SUFFICES ReaderOK(q)'
  BY OthersOK DEF ReaderInv
<1>0. /\ UNCHANGED <<write_pointer, data, writer>> /\ reader \in [Readers -> Registers]
      /\ RegistersOK(reader[q])
  BY ReaderShared DEF Layout, Types, ReaderTypes
<1>1. ASSUME reader'[q].pc \notin Listening \cup {"storePointer"} PROVE ReaderOK(q)'
  BY <1>1 DEF ReaderOK, Attached, Listening
<1>2. ASSUME reader'[q].pc \in Listening, Attached(q)' => OnTheTrack(q)' /\ Cleared(q)' PROVE ReaderOK(q)'
  BY <1>2 DEF ReaderOK, Listening
<1>3. CASE LoadNumReaders(q) \/ Evict(q) \/ WipeUid(q) \/ Claim(q)
  <2>1. \/ \E pc \in {"wipe", "claim", "wipeValid", "subscribe", "newValid"} : \E id, cur, i :
             Becomes(q, Regs(q, pc, id, cur, i))
        \/ Becomes(q, Goes(q, "subscribe"))
    BY <1>0, <1>3, SubscriberMoves
  <2>2. \A pc, id, cur, i : Regs(q, pc, id, cur, i).pc = pc
    BY DEF Regs
  <2>3. reader'[q].pc \in {"wipe", "claim", "wipeValid", "subscribe", "newValid"}
    BY <2>1, <2>2, Registered DEF Becomes, Goes
  <2> QED BY <1>1, <2>3 DEF Listening
<1>4. CASE WipeValid(q) \/ NewValid(q) \/ NewPointer(q) \/ NewUid(q) \/ SetValid(q)
  <2>1. \E pc \in {"wipeUid", "newPointer", "newUid", "setValid", "loadPointer"} : Becomes(q, Goes(q, pc))
    BY <1>0, <1>4, Updates DEF WipeValid, NewValid, NewPointer, NewUid, SetValid
  <2>2. reader'[q].pc \in {"wipeUid", "newPointer", "newUid", "setValid", "loadPointer"}
    BY <2>1, Registered DEF Goes
  <2> QED BY <1>1, <2>2 DEF Listening
<1>5. CASE LoadPointer(q)
  <2>1. reader'[q].pc = "storePointer" /\ reader'[q].wp = write_pointer
    BY <1>0, <1>5, ReceiverMoves, Registered
  <2> QED BY <1>0, <2>1 DEF ReaderOK, Attached
<1>6. CASE StorePointer(q)
  <2>1. reader'[q].pc = "start"
    BY <1>0, <1>6, Updates, Restarted DEF StorePointer
  <2> QED BY <1>2, <1>6, <2>1, ResetKeepsReader DEF Listening
<1>7. CASE WrapAround(q) \/ Skip(q) \/ Advance(q)
  <2>1. reader'[q].pc \in {"start", "checkCopy"}
    <3>1. CASE Advance(q)
      BY <1>0, <3>1, Updates, Registered DEF Advance, Goes
    <3>2. CASE WrapAround(q) \/ Skip(q)
      BY <1>0, <3>2, Updates, Restarted DEF WrapAround, Skip
    <3> QED BY <1>7, <3>1, <3>2
  <2> QED BY <1>2, <1>7, <2>1, MoveKeepsReader DEF Listening
<1>8. CASE CheckUid(q) \/ CheckValid(q) \/ LoadRead(q) \/ LoadWrite(q) \/ LoadSize(q)
           \/ CheckSize(q) \/ CopyOut(q) \/ CheckCopy(q)
  <2>3. ASSUME NEW pc, Becomes(q, Goes(q, pc)) \/ Becomes(q, Fresh(q, pc)), pc # "storePointer"
        PROVE  reader'[q].pc # "storePointer"
    BY <2>3, Registered, Restarted DEF Goes
  <2>4. ASSUME CheckUid(q) \/ CheckValid(q) \/ CheckSize(q) \/ CheckCopy(q)
        PROVE  reader'[q].pc # "storePointer"
    <3>1. \E pc \in {"subscribe", "checkValid", "loadRead", "setValid", "wrap", "skip", "copy", "dead", "start"} :
            Becomes(q, Goes(q, pc)) \/ Becomes(q, Fresh(q, pc))
      BY <1>0, <2>4, Updates DEF CheckUid, CheckValid, CheckSize, CheckCopy
    <3> QED BY <2>3, <3>1
  <2>5. ASSUME LoadRead(q) \/ LoadSize(q) PROVE reader'[q].pc # "storePointer"
    BY <1>0, <2>5, ReceiverMoves, Registered
  <2>6. ASSUME LoadWrite(q) PROVE reader'[q].pc # "storePointer"
    <3>1. CASE reader[q].rp.pos = write_pointer.pos
      BY <1>0, <2>6, <3>1, ReceiverMoves, Restarted
    <3>2. CASE reader[q].rp.pos # write_pointer.pos
      BY <1>0, <2>6, <3>2, ReceiverMoves, Registered
    <3> QED BY <3>1, <3>2
  <2>7. ASSUME CopyOut(q) PROVE reader'[q].pc # "storePointer"
    BY <1>0, <2>7, ReceiverMoves, Registered
  <2>1. reader'[q].pc # "storePointer"
    BY <1>8, <2>4, <2>5, <2>6, <2>7
  <2>2. Attached(q)' => OnTheTrack(q)' /\ Cleared(q)'
    BY <1>8, LookingKeepsReader
  <2> QED BY <2>1, <2>2 DEF ReaderOK
<1> QED BY <1>3, <1>4, <1>5, <1>6, <1>7, <1>8 DEF Reader

-----------------------------------------------------------------------------
(* The theorems                                                            *)

LEMMA InitInv == Init => IInv
<1> SUFFICES ASSUME Init PROVE IInv
  OBVIOUS
<1>1. /\ At(0, 0) \in Positions /\ At(0, 0).pos = 0 /\ 0 \in 0..NUM_READERS
      /\ Nothing \in Words /\ Nothing \notin Tags \cup {Wrap} /\ <<>> \in Seq(Words)
  BY Ring, PositionIs, TagWords
<1>2. HeaderTypes
  BY <1>1 DEF HeaderTypes, Init
<1>3. writer = [pc |-> "idle", msg |-> 0, n |-> 0, i |-> 0, at |-> At(0, 0), k |-> 0]
  BY DEF Init, WriterIdle
<1>4. WriterInv
  BY <1>1, <1>3 DEF WriterInv, WriterRegisters, WriterSteps, Wrapping, Writing
<1>5. \A r \in Readers : reader[r] = [pc |-> "off", id |-> -1, cur |-> 0, i |-> 0, rp |-> At(0, 0),
                                     wp |-> At(0, 0), size |-> Nothing, buf |-> <<>>]
  BY DEF Init, ReaderOff
<1>6. ReaderTypes
  <2>1. reader = [r \in Readers |-> ReaderOff] /\ ReaderOff \in Registers
    BY <1>1 DEF Init, ReaderOff, Registers, ReaderSteps
  <2>2. \A r \in Readers : reader[r].pc = "off" /\ reader[r].size = Nothing
    BY <1>5
  <2> QED BY <1>1, <2>1, <2>2 DEF ReaderTypes, RegistersOK, Subscribing, TagFollows
<1>7. Owners
  BY <1>5 DEF Owners, Id
<1>8. P = 0 /\ writer.pc = "idle" /\ \A w \in 0..(Size - 1) : data[w] = Nothing
  BY <1>1, <1>3 DEF Init, P
<1>9. Layout
  BY <1>1, <1>8 DEF Layout, TagsFit, Front, Back, Written, Wrapping
<1>10. ReaderInv
  BY <1>5 DEF ReaderInv, ReaderOK, Attached, Id
<1> QED BY <1>2, <1>4, <1>6, <1>7, <1>9, <1>10 DEF IInv

LEMMA NextInv == IInv /\ [Next]_vars => IInv'
<1> SUFFICES ASSUME IInv, [Next]_vars PROVE IInv'
  OBVIOUS
<1>0. Types /\ Layout /\ ReaderInv /\ TagsFit
  BY DEF IInv, Types, Layout
<1>1. CASE Publishing
  BY <1>0, <1>1, PublisherKeepsTypes, WriterKeepsLayout, PublisherKeepsReaders DEF IInv, Types
<1>2. ASSUME NEW r \in Readers, Reader(r) PROVE IInv'
  BY <1>0, <1>2, ReaderKeepsTypes, ReaderKeepsLayout, ReaderKeepsReaders DEF IInv, Types
<1>3. CASE UNCHANGED vars
  BY <1>3
  DEF vars, header, slots, history, IInv, HeaderTypes, WriterInv, ReaderTypes, Owners, Layout, ReaderInv,
      ReaderOK, Attached, Clean, Id, OnTheTrack, Cleared, TagsFit, Front, Back, Written, P, End, Begins,
      NotAhead, Behind, Leads, After, At0, Passed, OutOfTheWay
<1> QED BY <1>1, <1>2, <1>3 DEF Next, Publishing

LEMMA Invariance == Spec => []IInv
  BY InitInv, NextInv, PTL DEF Spec

\* Pointers, loop counters and reads and writes of the ring stay in range, for every
\* ring and every sequence of messages that msgq_msg_send accepts.
THEOREM TypeCorrect == Spec => []TypeOK
<1>1. IInv => TypeOK
  BY DEF IInv, TypeOK, HeaderTypes, WriterInv, WriterRegisters, ReaderTypes, Registers
<1> QED BY Invariance, <1>1, PTL

\* The valid flag protects the next message of its reader, however the steps of the
\* publishers and of any number of readers interleave: with publishers that take the
\* queue over in the middle of a send, and with readers that evict each other.
THEOREM Intact == Spec => []ValidMeansIntact
<1>1. IInv => ValidMeansIntact
  <2> SUFFICES ASSUME IInv, NEW r \in Readers, Attached(r)
               PROVE  At0(r).pos = P \/ data[At0(r).pos] \in Tags \cup {Wrap}
    BY DEF ValidMeansIntact, At0, P
  <2> QED BY DEF IInv, ReaderInv, ReaderOK, OnTheTrack, Begins
<1> QED BY Invariance, <1>1, PTL

-----------------------------------------------------------------------------
(* The contents of the ring                                                *)

LEMMA Numbers ==
  ASSUME Types
  PROVE  /\ Published \in Nat
         /\ writer.pc \in Wrapping \cup Writing =>
              Published = writer.msg - 1 /\ writer.msg \in Nat /\ writer.msg \in Msgs
         /\ writer.pc \notin Wrapping \cup Writing => Published = writer.msg
<1>1. writer.msg \in Msgs \cup {0} /\ (writer.pc \in Wrapping \cup Writing => writer.msg \in Msgs)
  BY DEF Types, WriterInv, WriterRegisters
<1> QED BY <1>1, MsgNumbers DEF Published

\* A message in the ring, and the place of its payload.
LEMMA MessageAt ==
  ASSUME Types, Layout, Ordered, NEW w \in 0..(Size - 1), w # P, data[w] \in Tags
  PROVE  /\ Holds(w) /\ M(w) \in Msgs /\ M(w) \in Nat /\ M(w) <= Published
         /\ data[w].size = MsgSize[M(w)] /\ End(w) = w + MsgSize[M(w)] + 1 /\ MsgSize[M(w)] \in Nat \ {0}
         /\ End(w) \in 0..(Size - 1) /\ (w < P => End(w) <= P)
         /\ \A k \in 1..MsgSize[M(w)] : w + k \in 0..(Size - 1) /\ w + k > w /\ w + k < End(w)
<1>1. Holds(w) /\ M(w) \in Msgs /\ M(w) <= Published
  BY DEF Ordered, Holds, Payload
<1>2. M(w) \in Nat /\ MsgSize[M(w)] \in Nat \ {0} /\ data[w].size = MsgSize[M(w)]
  BY <1>1, MsgNumbers, Sizes, TagWord DEF Holds
<1>3. End(w) \in 0..(Size - 1) /\ End(w) = w + MsgSize[M(w)] + 1
  BY <1>2, Ends DEF Layout
<1>4. P \in 0..(Size - 1)
  BY PositionIs DEF Types, HeaderTypes, P
<1>5. w < P => End(w) <= P
  BY <1>3, <1>4 DEF Layout, Front
<1>6. \A k \in 1..MsgSize[M(w)] : w + k \in 0..(Size - 1) /\ w + k > w /\ w + k < End(w)
  BY <1>2, <1>3, Ring
<1> QED BY <1>1, <1>2, <1>3, <1>5, <1>6

\* One word is written: a payload elsewhere stays.
LEMMA PayloadStays ==
  ASSUME NEW v \in 0..(Size - 1), \A u \in 0..(Size - 1) : u # v => data'[u] = data[u],
         NEW w, Payload(w), \A k \in 1..MsgSize[M(w)] : w + k \in 0..(Size - 1) /\ w + k # v
  PROVE  M(w)' = M(w) /\ Payload(w)'
<1>1. M(w) \in Msgs /\ 1 \in 1..MsgSize[M(w)]
  BY Sizes DEF Payload
<1>2. M(w)' = M(w)
  BY <1>1 DEF M
<1> QED BY <1>2 DEF Payload

\* What the writer writes lies between the messages of this lap and those of earlier ones.
WritesAt(v) ==
  /\ v \in 0..(Size - 1) /\ v >= P /\ P' = P
  /\ \A u \in 0..(Size - 1) : u # v => data'[u] = data[u]
  /\ v = P \/ (data'[v] \notin Tags /\ \A u \in 0..(Size - 1) : P < u /\ u < v => data[u] \notin Tags)
  /\ Published' = Published

LEMMA MessagesStay ==
  ASSUME Types, Layout, Ordered, NEW v, WritesAt(v), NEW w \in 0..(Size - 1), w # P, data'[w] \in Tags
  PROVE  data'[w] = data[w] /\ data[w] \in Tags /\ M(w)' = M(w) /\ Holds(w)' /\ End(w)' = End(w)
         /\ (w < P \/ w > v)
<1>1. w # v /\ data'[w] = data[w] /\ data[w] \in Tags
  BY DEF WritesAt
<1>2. P \in 0..(Size - 1)
  BY PositionIs DEF Types, HeaderTypes, P
<1>3. w < P \/ w > v
  BY <1>1, <1>2 DEF WritesAt
<1>4. Holds(w) /\ \A k \in 1..MsgSize[M(w)] : w + k \in 0..(Size - 1) /\ w + k # v
  <2>1. v \in 0..(Size - 1) /\ v >= P
    BY DEF WritesAt
  <2> QED BY <1>1, <1>2, <1>3, <2>1, MessageAt
<1>5. M(w)' = M(w) /\ Payload(w)'
  BY <1>4, PayloadStays DEF WritesAt, Holds
<1>6. Holds(w)' /\ End(w)' = End(w)
  BY <1>1, <1>4, <1>5 DEF Holds, End
<1> QED BY <1>1, <1>3, <1>5, <1>6

LEMMA FrontStays ==
  ASSUME Types, Layout, Ordered, NEW v, WritesAt(v), NEW n, NewerThanFront(n)
  PROVE  NewerThanFront(n)'
<1> SUFFICES ASSUME NEW w \in 0..(Size - 1), w < P, data'[w] \in Tags PROVE n < M(w)'
  BY DEF NewerThanFront, WritesAt
<1>1. w # P
  BY PositionIs DEF Types, HeaderTypes, P
<1>2. data[w] \in Tags /\ M(w)' = M(w)
  BY <1>1, MessagesStay
<1> QED BY <1>2 DEF NewerThanFront

LEMMA WritingKeepsOrder ==
  ASSUME Types, Layout, Ordered, NEW v, WritesAt(v)
  PROVE  Ordered'
<1>0. P \in 0..(Size - 1) /\ P' = P /\ Published' = Published /\ v \in 0..(Size - 1) /\ v >= P
  BY PositionIs DEF Types, HeaderTypes, P, WritesAt
<1>1. ASSUME NEW w \in 0..(Size - 1), w # P, data'[w] \in Tags
      PROVE  Holds(w)' /\ M(w)' <= Published
  BY <1>1, MessagesStay DEF Ordered
<1>2. ASSUME NEW u \in 0..(Size - 1), NEW w \in 0..(Size - 1), u < w, w < P, data'[u] \in Tags, data'[w] \in Tags
      PROVE  M(u)' < M(w)'
  <2>1. u # P /\ w # P /\ u < P
    BY <1>0, <1>2
  <2>2. data[u] \in Tags /\ data[w] \in Tags /\ M(u)' = M(u) /\ M(w)' = M(w)
    BY <1>2, <2>1, MessagesStay
  <2> QED BY <1>2, <2>2 DEF Ordered
<1>3. ASSUME NEW u \in 0..(Size - 1), u > P, data'[u] \in Tags
      PROVE  NewerThanFront(M(u))' /\ (data'[End(u)'] \in Tags => M(u)' < M(End(u))')
  <2>1. u # P
    BY <1>0, <1>3
  <2>2. data[u] \in Tags /\ M(u)' = M(u) /\ End(u)' = End(u)
    BY <1>3, <2>1, MessagesStay
  <2>3. NewerThanFront(M(u)) /\ (data[End(u)] \in Tags => M(u) < M(End(u)))
    BY <1>3, <2>2 DEF Ordered
  <2>4. PICK e \in 0..(Size - 1) : e = End(u) /\ e # P
    BY <1>0, <1>3, <2>1, <2>2, Ends DEF Layout
  <2>5. data'[e] \in Tags => data[e] \in Tags /\ M(e)' = M(e)
    BY <2>4, MessagesStay
  <2>6. \A n : NewerThanFront(n) => NewerThanFront(n)'
    BY FrontStays
  <2>7. NewerThanFront(M(u))'
    BY <2>2, <2>3, <2>6 DEF NewerThanFront
  <2>8. End(u)' = e /\ M(End(u))' = M(e)'
    BY <2>2, <2>4 DEF M
  <2> QED BY <2>2, <2>3, <2>4, <2>5, <2>7, <2>8
<1> QED BY <1>0, <1>1, <1>2, <1>3 DEF Ordered

\* The words that a step of the writer writes.
LEMMA WritesAre ==
  ASSUME Types, Layout, WrapTag \/ WriteTag \/ CopyIn
  PROVE  \E v : /\ WritesAt(v)
                /\ v = P <=> ~CopyIn
                /\ CopyIn => v = P + writer.k /\ v < P + Total(writer.msg) /\ v > P
                             /\ data'[v] = Unit(writer.msg, writer.k)
                /\ WrapTag => data'[P] \notin Tags
<1>0. /\ P \in 0..(Size - 1) /\ P' = P /\ writer \in WriterRegisters
      /\ writer.at = write_pointer /\ writer.msg \in Msgs /\ data \in [0..(Size - 1) -> Words]
      /\ Total(writer.msg) = MsgSize[writer.msg] + 1 /\ MsgSize[writer.msg] \in Nat \ {0}
  <2>1. writer.pc \in Wrapping \cup Writing /\ UNCHANGED write_pointer
    BY DEF WrapTag, WriteTag, CopyIn, Wrapping, Writing, header
  <2> QED BY <2>1, WriterAt DEF Types, WriterInv, HeaderTypes, P
<1>1. Published' = Published
  <2>1. \/ writer' = WriterWith("wrapCheck", writer.i, writer.k) \/ writer' = WriterWith("copy", writer.i, 1)
        \/ writer' = WriterWith("publish", writer.i, 0) \/ writer' = WriterWith("copy", writer.i, writer.k + 1)
    <3>1. CASE WrapTag
      BY <1>0, <3>1, WriterUpdate DEF WrapTag
    <3>2. ASSUME WriteTag PROVE writer' = WriterWith("copy", writer.i, 1)
      BY <1>0, <3>2, WriterUpdate DEF WriteTag
    <3>3. ASSUME CopyIn
          PROVE  \/ writer' = WriterWith("publish", writer.i, 0) \/ writer' = WriterWith("copy", writer.i, writer.k + 1)
      BY <1>0, <3>3, WriterUpdate DEF CopyIn
    <3> QED BY <3>1, <3>2, <3>3
  <2>2. writer'.pc \in Wrapping \cup Writing /\ writer'.msg = writer.msg
    BY <2>1 DEF WriterWith, Wrapping, Writing
  <2>3. writer.pc \in Wrapping \cup Writing
    BY DEF WrapTag, WriteTag, CopyIn, Wrapping, Writing
  <2> QED BY <2>2, <2>3 DEF Published
<1>2. CASE WrapTag \/ WriteTag
  <2>1. PICK word : data' = [data EXCEPT ![P] = word] /\ (WrapTag => word = Wrap)
    BY <1>0, <1>2 DEF WrapTag, WriteTag, P
  <2>2. WritesAt(P)
    BY <1>0, <1>1, <2>1 DEF WritesAt
  <2>3. WrapTag => data'[P] \notin Tags
    BY <1>0, <2>1, TagWords
  <2>4. ~CopyIn
    BY <1>2 DEF CopyIn, WrapTag, WriteTag
  <2> QED BY <2>2, <2>3, <2>4
<1>3. CASE CopyIn
  <2>1. /\ writer.pc = "copy" /\ writer.k \in 1..MsgSize[writer.msg] /\ P + Total(writer.msg) + 1 < Size
    BY <1>3, WriterAt DEF CopyIn, Types, WriterInv, Writing
  <2>2. P + (MsgSize[writer.msg] + 1) + 1 < Size
    BY <1>0, <2>1
  <2> DEFINE v == P + writer.k
  <2>3. v \in 0..(Size - 1) /\ v > P /\ writer.k \in 1..Size /\ v < P + (MsgSize[writer.msg] + 1)
    BY <1>0, <2>1, <2>2, Inside
  <2>4. data' = [data EXCEPT ![v] = Unit(writer.msg, writer.k)]
    BY <1>0, <1>3 DEF CopyIn, P
  <2>5. \A u \in 0..(Size - 1) : P < u /\ u < v => data[u] \notin Tags
    BY <2>1 DEF Layout, Written, Begins
  <2> HIDE DEF v
  <2>6. data'[v] = Unit(writer.msg, writer.k) /\ \A u \in 0..(Size - 1) : u # v => data'[u] = data[u]
    BY <1>0, <2>3, <2>4
  <2>7. data'[v] \notin Tags
    BY <1>0, <2>3, <2>6, UnitWords
  <2>8. v >= P /\ v # P
    BY <1>0, <2>3
  <2>9. WritesAt(v)
    BY <1>0, <1>1, <2>3, <2>5, <2>6, <2>7, <2>8 DEF WritesAt
  <2>10. v < P + Total(writer.msg)
    BY <1>0, <2>3
  <2>11. ~WrapTag
    BY <1>3 DEF CopyIn, WrapTag
  <2> QED BY <1>3, <2>3, <2>6, <2>8, <2>9, <2>10, <2>11 DEF v
<1> QED BY <1>2, <1>3

\* The last message published does not go back.
LEMMA PublishedGrows ==
  ASSUME Types, Publishing
  PROVE  Published <= Published' /\ Published' \in Nat
<1>1. Types'
  BY PublisherKeepsTypes
<1>2. Published \in Nat /\ Published' \in Nat
  <2>1. writer'.msg \in Msgs \cup {0} /\ (writer'.pc \in Wrapping \cup Writing => writer'.msg \in Msgs)
    BY <1>1 DEF Types, WriterInv, WriterRegisters
  <2> QED BY <2>1, MsgNumbers, Numbers DEF Published
<1>3. writer.msg \in Nat /\ writer' \in WriterRegisters /\ writer \in WriterRegisters
  BY <1>1, MsgNumbers DEF Types, WriterInv, WriterRegisters
<1>4. CASE \E p \in Publishers : Send(p)
  <2>1. writer'.msg = writer.msg + 1 /\ writer.pc = "idle" /\ writer'.pc \in {"check", "wrapTag"}
    BY <1>4 DEF Send
  <2> QED BY <1>2, <1>3, <2>1 DEF Published, Wrapping, Writing
<1>5. CASE ~\E p \in Publishers : Send(p)
  <2>1. writer'.msg = writer.msg
    BY <1>3, <1>5 DEF Publishing, Start, Writer, ClearValid, ClearUid, WrapTag, WrapCheck, WrapInvalidate,
     WrapPtr, AreaCheck, AreaInvalidate, WriteTag, CopyIn, Publish, CheckReader, Invalidate, WriterIdle,
     WriterRegisters
  <2>2. writer'.pc \in Wrapping \cup Writing => writer.pc \in Wrapping \cup Writing
    BY <1>3, <1>5 DEF Publishing, Start, Writer, ClearValid, ClearUid, WrapTag, WrapCheck, WrapInvalidate,
     WrapPtr, AreaCheck, AreaInvalidate, WriteTag, CopyIn, Publish, CheckReader, Invalidate, WriterIdle,
     WriterRegisters, Wrapping, Writing
  <2> QED BY <1>2, <1>3, <2>1, <2>2 DEF Published
<1> QED BY <1>4, <1>5

LEMMA WrapPtrKeepsOrder ==
  ASSUME Types, Layout, Ordered, WrapPtr
  PROVE  Ordered'
<1>0. /\ UNCHANGED data /\ P' = 0 /\ P \in 0..(Size - 1) /\ data[P] = Wrap
      /\ Published <= Published' /\ Published \in Nat /\ Published' \in Nat
  <2>1. write_pointer' = At(writer.at.cycles + 1, 0) /\ UNCHANGED data /\ writer.pc = "wrapPtr" /\ Publishing
    BY DEF WrapPtr, MoveWritePointer, Publishing, Writer
  <2> QED BY <2>1, PublishedGrows, Numbers, PositionIs
          DEF At, P, Types, HeaderTypes, Layout, Written, Wrapping
<1>1. \A w : M(w)' = M(w) /\ Holds(w)' = Holds(w) /\ End(w)' = End(w)
  BY <1>0 DEF M, Holds, Payload, End
<1>2. ASSUME NEW w \in 0..(Size - 1), data[w] \in Tags
      PROVE  Holds(w) /\ M(w) <= Published'
  <2>1. w # P
    BY <1>0, <1>2, TagWords
  <2> QED BY <1>0, <1>2, <2>1, MessageAt
<1>3. ASSUME NEW u \in 0..(Size - 1), u > 0, data[u] \in Tags
      PROVE  data[End(u)] \in Tags => M(u) < M(End(u))
  <2>1. u # P /\ End(u) \in 0..(Size - 1) /\ End(u) > u
    BY <1>0, <1>3, TagWords, Ends DEF Layout
  <2>2. CASE u > P
    BY <1>3, <2>2 DEF Ordered
  <2>3. CASE u < P
    <3>1. End(u) = P \/ End(u) < P
      BY <1>3, <2>3 DEF Layout, Front
    <3>2. data[P] \notin Tags
      BY <1>0, TagWords
    <3> QED BY <1>3, <2>1, <2>3, <3>1, <3>2 DEF Ordered
  <2> QED BY <1>0, <2>1, <2>2, <2>3
<1>4. ASSUME NEW u \in 0..(Size - 1), u > 0, data[u] \in Tags
      PROVE  NewerThanFront(M(u))' /\ (data'[End(u)'] \in Tags => M(u)' < M(End(u))')
  <2>1. NewerThanFront(M(u))'
    BY <1>0 DEF NewerThanFront
  <2>2. M(End(u))' = M(End(u)) /\ M(u)' = M(u) /\ End(u)' = End(u)
    BY <1>0 DEF M, End
  <2> QED BY <1>0, <1>3, <1>4, <2>1, <2>2
<1> QED BY <1>0, <1>1, <1>2, <1>4 DEF Ordered

\* What the publication adds.
LEMMA Publication ==
  ASSUME Types, Layout, Ordered, CopiedIn, Publish
  PROVE  /\ UNCHANGED data /\ P' = P + Total(writer.msg) /\ P \in 0..(Size - 1) /\ P' \in 0..(Size - 1) /\ P' > P
         /\ Published = writer.msg - 1 /\ Published' = writer.msg /\ writer.msg \in Nat
         /\ data[P] \in Tags /\ Holds(P) /\ M(P) = writer.msg /\ End(P) = P'
         /\ \A w \in 0..(Size - 1) : P < w /\ w < P' => data[w] \notin Tags
<1>0. /\ writer.pc = "publish" /\ UNCHANGED data /\ P \in 0..(Size - 1)
      /\ writer' = [WriterIdle EXCEPT !.msg = writer.msg]
      /\ write_pointer' = At(writer.at.cycles, writer.at.pos + Total(writer.msg))
  BY PositionIs DEF Publish, MoveWritePointer, P, Types, HeaderTypes
<1>1. /\ writer.at = write_pointer /\ writer.msg \in Msgs /\ P + Total(writer.msg) + 1 < Size
      /\ Total(writer.msg) = MsgSize[writer.msg] + 1 /\ MsgSize[writer.msg] \in Nat \ {0}
  BY <1>0, WriterAt DEF Writing
<1>2. P' = P + Total(writer.msg)
  BY <1>0, <1>1 DEF At, P
<1>3. P' \in 0..(Size - 1) /\ P' > P
  <2>1. Total(writer.msg) \in Nat \ {0}
    BY <1>1
  <2> QED BY <1>0, <1>1, <1>2, <2>1, Beyond
<1>4. Published = writer.msg - 1 /\ writer.msg \in Nat
  BY <1>0, Numbers DEF Writing
<1>5. Published' = writer.msg
  BY <1>0 DEF Published, WriterIdle, Wrapping, Writing
<1>6. data[P] = Tag(writer.msg) /\ \A w \in 0..(Size - 1) : P < w /\ w < P' => data[w] \notin Tags
  BY <1>0, <1>2 DEF Layout, Written, Begins
<1>7. data[P] \in Tags /\ data[P].size = MsgSize[writer.msg]
  BY <1>1, <1>6, TagWord
<1>8. \A k \in 1..MsgSize[writer.msg] : data[P + k] = Unit(writer.msg, k)
  BY <1>0 DEF CopiedIn
<1>9. M(P) = writer.msg
  <2>1. 1 \in 1..MsgSize[writer.msg]
    BY <1>1
  <2>2. data[P + 1] = Unit(writer.msg, 1)
    BY <1>8, <2>1
  <2> QED BY <2>2 DEF M, Unit
<1>10. Holds(P)
  BY <1>1, <1>6, <1>8, <1>9 DEF Holds, Payload
<1>11. End(P) = P'
  BY <1>0, <1>1, <1>2, <1>7 DEF End
<1> QED BY <1>0, <1>2, <1>3, <1>4, <1>5, <1>6, <1>7, <1>9, <1>10, <1>11

\* It is newer than what was published before.
LEMMA FrontGrows ==
  ASSUME Types, Layout, Ordered, CopiedIn, Publish, NEW n \in Nat, n <= Published, NewerThanFront(n)
  PROVE  NewerThanFront(n)'
<1> SUFFICES ASSUME NEW w \in 0..(Size - 1), w < P', data[w] \in Tags PROVE n < M(w)
  BY Publication DEF NewerThanFront, M
<1>1. CASE w < P
  BY <1>1 DEF NewerThanFront
<1>2. CASE w = P
  BY <1>2, Publication
<1> QED BY <1>1, <1>2, Publication

LEMMA PublishKeepsOrder ==
  ASSUME Types, Layout, Ordered, CopiedIn, Publish
  PROVE  Ordered'
<1>0. /\ UNCHANGED data /\ P \in 0..(Size - 1) /\ P' \in 0..(Size - 1) /\ P' > P
      /\ Published = writer.msg - 1 /\ Published' = writer.msg /\ writer.msg \in Nat
      /\ data[P] \in Tags /\ Holds(P) /\ M(P) = writer.msg
      /\ \A w \in 0..(Size - 1) : P < w /\ w < P' => data[w] \notin Tags
  BY Publication
<1>1. \A w : M(w)' = M(w) /\ Holds(w)' = Holds(w) /\ End(w)' = End(w)
  BY <1>0 DEF M, Holds, Payload, End
<1>2. ASSUME NEW w \in 0..(Size - 1), w # P', data[w] \in Tags
      PROVE  Holds(w) /\ M(w) <= Published'
  <2>1. CASE w = P
    BY <1>0, <2>1
  <2>2. CASE w # P
    <3>1. Holds(w) /\ M(w) <= Published /\ M(w) \in Nat
      BY <1>2, <2>2, MessageAt
    <3> QED BY <1>0, <3>1
  <2> QED BY <2>1, <2>2
<1>3. ASSUME NEW u \in 0..(Size - 1), NEW w \in 0..(Size - 1), u < w, w < P', data[u] \in Tags, data[w] \in Tags
      PROVE  M(u) < M(w)
  <2>1. w < P \/ w = P
    BY <1>0, <1>3
  <2>2. CASE w < P
    BY <1>3, <2>2 DEF Ordered
  <2>3. CASE w = P
    <3>1. u # P
      BY <1>3, <2>3
    <3>2. M(u) <= Published /\ M(u) \in Nat
      BY <1>3, <3>1, MessageAt
    <3> QED BY <1>0, <2>3, <3>2
  <2> QED BY <2>1, <2>2, <2>3
<1>4. ASSUME NEW u \in 0..(Size - 1), u > P', data[u] \in Tags
      PROVE  NewerThanFront(M(u))' /\ (data'[End(u)'] \in Tags => M(u)' < M(End(u))')
  <2>1. u > P /\ u # P
    BY <1>0, <1>4
  <2>2. NewerThanFront(M(u)) /\ (data[End(u)] \in Tags => M(u) < M(End(u)))
    BY <1>4, <2>1 DEF Ordered
  <2>3. M(u) \in Nat /\ M(u) <= Published
    BY <1>4, <2>1, MessageAt
  <2>4. PICK n \in Nat : n = M(u)
    BY <2>3
  <2>5. NewerThanFront(n)'
    BY <2>2, <2>3, <2>4, FrontGrows
  <2>6. NewerThanFront(M(u))'
    BY <1>1, <2>4, <2>5 DEF NewerThanFront
  <2>7. M(End(u))' = M(End(u)) /\ M(u)' = M(u) /\ End(u)' = End(u)
    BY <1>0 DEF M, End
  <2> QED BY <1>0, <2>2, <2>6, <2>7
<1> QED BY <1>0, <1>1, <1>2, <1>3, <1>4 DEF Ordered

LEMMA OrderStays ==
  ASSUME Types, Ordered, UNCHANGED <<data, write_pointer>>, Published <= Published', Published' \in Nat
  PROVE  Ordered'
<1>1. \A w : M(w)' = M(w) /\ Holds(w)' = Holds(w) /\ End(w)' = End(w)
  BY DEF M, Holds, Payload, End
<1>2. P' = P
  BY DEF P
<1>3. ASSUME NEW w \in 0..(Size - 1), w # P, data[w] \in Tags PROVE Holds(w) /\ M(w) <= Published'
  <2>1. Holds(w) /\ M(w) <= Published /\ M(w) \in Nat
    BY <1>3, MsgNumbers DEF Ordered, Holds, Payload
  <2> QED BY <2>1, Numbers
<1>4. ASSUME NEW u \in 0..(Size - 1), u > P, data[u] \in Tags
      PROVE  NewerThanFront(M(u))' /\ (data'[End(u)'] \in Tags => M(u)' < M(End(u))')
  <2>1. NewerThanFront(M(u)) /\ (data[End(u)] \in Tags => M(u) < M(End(u)))
    BY <1>4 DEF Ordered
  <2>2. NewerThanFront(M(u))' /\ M(End(u))' = M(End(u))
    BY <1>2, <2>1 DEF NewerThanFront, M, End
  <2> QED BY <1>1, <2>1, <2>2
<1> QED BY <1>1, <1>2, <1>3, <1>4 DEF Ordered

LEMMA WriterKeepsContents ==
  ASSUME Types, Layout, Ordered, CopiedIn, Publishing
  PROVE  Ordered' /\ CopiedIn'
<1>0. Published <= Published' /\ Published' \in Nat /\ writer \in WriterRegisters
  BY PublishedGrows DEF Types, WriterInv
<1>1. CASE WrapTag \/ WriteTag \/ CopyIn
  <2>1. PICK v : /\ WritesAt(v)
                 /\ CopyIn => v = P + writer.k /\ data'[v] = Unit(writer.msg, writer.k)
    BY <1>1, WritesAre
  <2>2. Ordered'
    BY <2>1, WritingKeepsOrder
  <2>3. CASE WrapTag
    <3>1. writer' = WriterWith("wrapCheck", writer.i, writer.k)
      BY <1>0, <2>3, WriterUpdate DEF WrapTag
    <3>2. writer'.pc = "wrapCheck"
      BY <3>1 DEF WriterWith
    <3> QED BY <2>2, <3>2 DEF CopiedIn
  <2>4. CASE WriteTag
    <3>1. writer' = WriterWith("copy", writer.i, 1)
      BY <1>0, <2>4, WriterUpdate DEF WriteTag
    <3>2. writer'.pc = "copy" /\ writer'.k = 1
      BY <3>1 DEF WriterWith
    <3>3. \A k \in 1..MsgSize[writer'.msg] : ~(k < 1)
      OBVIOUS
    <3> QED BY <2>2, <3>2, <3>3 DEF CopiedIn
  <2>5. CASE CopyIn
    <3>1. writer.pc = "copy" /\ writer.k \in 1..MsgSize[writer.msg] /\ P \in 0..(Size - 1)
          /\ P + Total(writer.msg) + 1 < Size /\ Total(writer.msg) = MsgSize[writer.msg] + 1
          /\ MsgSize[writer.msg] \in Nat \ {0}
      BY <2>5, WriterAt DEF CopyIn, Types, WriterInv, Writing
    <3>2. \A k \in 1..MsgSize[writer.msg] : k < writer.k + 1 => data'[P + k] = Unit(writer.msg, k)
      <4> SUFFICES ASSUME NEW k \in 1..MsgSize[writer.msg], k < writer.k + 1
                   PROVE  data'[P + k] = Unit(writer.msg, k)
        OBVIOUS
      <4>1. CASE k = writer.k
        BY <2>1, <2>5, <4>1
      <4>2. CASE k # writer.k
        <5>1. k < writer.k
          BY <3>1, <4>2
        <5>2. data[P + k] = Unit(writer.msg, k)
          BY <3>1, <5>1 DEF CopiedIn
        <5>3. P + (MsgSize[writer.msg] + 1) + 1 < Size
          BY <3>1
        <5>4. P + k \in 0..(Size - 1)
          BY <3>1, <5>3, Inside
        <5>5. P + k # P + writer.k
          BY <3>1, <5>1
        <5> QED BY <2>1, <2>5, <5>2, <5>4, <5>5 DEF WritesAt
      <4> QED BY <4>1, <4>2
    <3>3. IF writer.k = MsgSize[writer.msg] THEN writer' = WriterWith("publish", writer.i, 0)
          ELSE writer' = WriterWith("copy", writer.i, writer.k + 1)
      BY <1>0, <2>5, WriterUpdate DEF CopyIn
    <3>4. P' = P
      BY <2>1 DEF WritesAt
    <3>5. CASE writer.k = MsgSize[writer.msg]
      <4>1. writer'.pc = "publish" /\ writer'.msg = writer.msg
        BY <3>3, <3>5 DEF WriterWith
      <4>2. \A k \in 1..MsgSize[writer.msg] : data'[P + k] = Unit(writer.msg, k)
        BY <3>1, <3>2, <3>5
      <4> QED BY <2>2, <3>4, <4>1, <4>2 DEF CopiedIn
    <3>6. CASE writer.k # MsgSize[writer.msg]
      <4>1. writer'.pc = "copy" /\ writer'.msg = writer.msg /\ writer'.k = writer.k + 1
        BY <3>3, <3>6 DEF WriterWith
      <4> QED BY <2>2, <3>2, <3>4, <4>1 DEF CopiedIn
    <3> QED BY <3>5, <3>6
  <2> QED BY <1>1, <2>3, <2>4, <2>5
<1>2. CASE WrapPtr
  <2>1. writer' = [writer EXCEPT !.pc = "check", !.at = At(writer.at.cycles + 1, 0)]
    BY <1>2 DEF WrapPtr
  <2>2. writer'.pc = "check"
    BY <1>0, <2>1 DEF WriterRegisters
  <2> QED BY <1>2, <2>2, WrapPtrKeepsOrder DEF CopiedIn
<1>3. CASE Publish
  <2>1. writer'.pc = "idle"
    BY <1>3 DEF Publish, WriterIdle
  <2> QED BY <1>3, <2>1, PublishKeepsOrder DEF CopiedIn
<1>4. CASE ~(WrapTag \/ WriteTag \/ CopyIn \/ WrapPtr \/ Publish)
  <2>1. UNCHANGED <<data, write_pointer>>
    BY <1>4 DEF Publishing, Start, Send, Writer, ClearValid, ClearUid, WrapCheck, WrapInvalidate,
     AreaCheck, AreaInvalidate, CheckReader, Invalidate, header
  <2>2. writer'.pc \notin {"copy", "publish"}
    <3>1. CASE \E p \in Publishers : Start(p)
      BY <1>0, <3>1 DEF Start, WriterRegisters
    <3>2. CASE \E p \in Publishers : Send(p)
      BY <3>2 DEF Send
    <3>3. CASE ClearValid \/ ClearUid
      BY <1>0, <3>3 DEF ClearValid, ClearUid, WriterRegisters
    <3>4. CASE WrapCheck \/ AreaCheck
      BY <1>0, <3>4 DEF WrapCheck, AreaCheck, CheckReader, WriterRegisters
    <3>5. CASE WrapInvalidate \/ AreaInvalidate
      BY <1>0, <3>5 DEF WrapInvalidate, AreaInvalidate, Invalidate, WriterRegisters
    <3> QED BY <1>4, <3>1, <3>2, <3>3, <3>4, <3>5 DEF Publishing, Writer
  <2>3. Ordered'
    BY <1>0, <2>1, OrderStays
  <2> QED BY <2>2, <2>3 DEF CopiedIn
<1> QED BY <1>1, <1>2, <1>3, <1>4

-----------------------------------------------------------------------------
(* The publisher and what the readers deliver                              *)

LEMMA WholeIs ==
  ASSUME NEW buf, Whole(buf)
  PROVE  /\ buf[1].msg \in Msgs /\ buf[1].msg \in Nat /\ buf # <<>>
         /\ buf = [k \in 1..MsgSize[buf[1].msg] |-> Unit(buf[1].msg, k)]
<1>1. PICK m \in Msgs : buf = [k \in 1..MsgSize[m] |-> Unit(m, k)]
  BY DEF Whole
<1>2. 1 \in 1..MsgSize[m] /\ m \in Nat
  BY Sizes, MsgNumbers
<1>3. buf[1] = Unit(m, 1)
  BY <1>1, <1>2
<1>4. buf[1].msg = m
  BY <1>3 DEF Unit
<1>5. DOMAIN buf # {}
  BY <1>1, <1>2
<1>6. buf # <<>>
  BY <1>5
<1> QED BY <1>1, <1>2, <1>4, <1>6

LEMMA LastIs ==
  ASSUME NEW r \in Readers, Got(r) \in Nat, NEW w, DeliveryAt(r, w)
  PROVE  Last(r) \in Nat
<1>1. CASE reader[r].pc = "checkCopy"
  BY <1>1, WholeIs DEF DeliveryAt, Last
<1>2. CASE reader[r].pc # "checkCopy"
  BY <1>2 DEF Last
<1> QED BY <1>1, <1>2

\* The message in hand.
LEMMA InHand ==
  ASSUME Types, NEW r \in Readers, Id(r) # -1, OnTheTrack(r), NEW w, w = At0(r).pos, DeliveryAt(r, w),
         reader[r].pc \in TagFollows, reader[r].size \in Tags
  PROVE  /\ w \in 0..(Size - 1) /\ P \in 0..(Size - 1) /\ M(w) \in Msgs /\ M(w) \in Nat
         /\ MsgSize[M(w)] \in Nat \ {0} /\ reader[r].size.size = MsgSize[M(w)]
         /\ After(r) = w + MsgSize[M(w)] + 1 /\ After(r) \in 0..(Size - 1) /\ After(r) > w
         /\ w < P => After(r) <= P
         /\ \A k \in 1..MsgSize[M(w)] : w + k \in 0..(Size - 1) /\ w + k > w /\ w + k < After(r)
<1>1. After(r) \in 0..(Size - 1) /\ Leads(r) /\ After(r) = w + reader[r].size.size + 1
  BY Following
<1>2. M(w) \in Msgs /\ reader[r].size = Tag(M(w))
  BY DEF DeliveryAt, Reading, Payload
<1>3. MsgSize[M(w)] \in Nat \ {0} /\ reader[r].size.size = MsgSize[M(w)] /\ M(w) \in Nat
  BY <1>2, Sizes, TagWord, MsgNumbers
<1>4. w \in 0..(Size - 1) /\ P \in 0..(Size - 1)
  BY Places
<1>5. w < P => After(r) <= P
  BY <1>1, <1>4 DEF Leads
<1>6. \A k \in 1..MsgSize[M(w)] : w + k \in 0..(Size - 1) /\ w + k > w /\ w + k < After(r)
  BY <1>1, <1>3, <1>4, Ring
<1> QED BY <1>1, <1>2, <1>3, <1>4, <1>5, <1>6

LEMMA WritingKeepsDelivery ==
  ASSUME Types, Layout, Ordered, NEW r \in Readers, Got(r) \in Nat,
         Attached(r), OnTheTrack(r), Cleared(r), NEW w, w = At0(r).pos, DeliveryAt(r, w),
         WrapTag \/ WriteTag \/ CopyIn
  PROVE  DeliveryAt(r, w)'
<1>1. PICK v : /\ WritesAt(v)
               /\ v = P <=> ~CopyIn
               /\ CopyIn => v < P + Total(writer.msg)
               /\ WrapTag => data'[P] \notin Tags
  BY WritesAre
<1>2. UNCHANGED <<reader, read_pointers, got>> /\ Id(r) # -1
  BY DEF WrapTag, WriteTag, CopyIn, slots, history, Attached
<1>3. /\ P' = P /\ Published' = Published /\ Last(r)' = Last(r) /\ Got(r)' = Got(r) /\ After(r)' = After(r)
      /\ P \in 0..(Size - 1) /\ w \in 0..(Size - 1) /\ v \in 0..(Size - 1) /\ v >= P
  BY <1>1, <1>2, Places DEF WritesAt, Last, Got, After
<1>4. \A n : NewerThanFront(n) => NewerThanFront(n)'
  BY <1>1, FrontStays
<1>5. \A u \in 0..(Size - 1) : u # P /\ data'[u] \in Tags => data[u] \in Tags /\ M(u)' = M(u)
  BY <1>1, MessagesStay
\* A reader in flight is not where the writer writes.
<1>6. reader[r].pc \in InFlight => w < P \/ w >= v
  <2>1. CASE v = P
    BY <1>3, <2>1
  <2>2. CASE CopyIn
    <3>1. OutOfTheWay(r) /\ Total(writer.msg) \in Nat
      <4>1. writer.pc = "copy"
        BY <2>2 DEF CopyIn
      <4> QED BY <4>1, WriterAt DEF Cleared, Passed, Writing
    <3> QED BY <1>1, <1>3, <2>2, <3>1 DEF OutOfTheWay
  <2> QED BY <1>1, <2>1, <2>2
<1>7. reader[r].pc \in InFlight /\ w = P => data'[w] \notin Tags
  <2>1. CASE WrapTag
    BY <1>1, <2>1
  <2>2. CASE WriteTag \/ CopyIn
    <3>1. OutOfTheWay(r)
      BY <2>2 DEF Cleared, Passed, WriteTag, CopyIn
    <3> QED BY <3>1 DEF OutOfTheWay
  <2> QED BY <2>1, <2>2
<1>8. ASSUME reader[r].pc \in TagFollows, reader[r].size \in Tags
      PROVE  M(w)' = M(w) /\ Reading(r, w)' /\ NextIsNewer(w, After(r))'
  <2>2. Reading(r, w) /\ NextIsNewer(w, After(r))
    BY <1>8 DEF DeliveryAt
  <2>3. \A k \in 1..MsgSize[M(w)] : w + k \in 0..(Size - 1) /\ w + k # v
    <3>1. /\ w < P => After(r) <= P
          /\ \A k \in 1..MsgSize[M(w)] : w + k \in 0..(Size - 1) /\ w + k > w /\ w + k < After(r)
          /\ After(r) \in 0..(Size - 1)
      BY <1>2, <1>8, InHand
    <3>2. w < P \/ w >= v
      BY <1>6, <1>8 DEF TagFollows, InFlight
    <3> QED BY <1>3, <3>1, <3>2
  <2>4. M(w)' = M(w) /\ Payload(w)'
    BY <1>1, <2>2, <2>3, PayloadStays DEF Reading, WritesAt
  <2>5. NewerThanFront(M(w)) => NewerThanFront(M(w))'
    BY <1>4, <2>4 DEF NewerThanFront
  <2>6. Reading(r, w)'
    BY <1>3, <2>2, <2>4, <2>5 DEF Reading
  <2>7. PICK a \in 0..(Size - 1) : a = After(r)
    BY <1>2, <1>8, InHand
  <2>8. NextIsNewer(w, a)'
    BY <1>3, <1>5, <2>2, <2>4, <2>7 DEF NextIsNewer
  <2>9. NextIsNewer(w, After(r))'
    BY <1>3, <2>7, <2>8 DEF NextIsNewer, M
  <2> QED BY <2>4, <2>6, <2>9
<1>9. reader[r].pc \in {"copy", "advance"} => reader[r].pc \in TagFollows /\ reader[r].size \in Tags
  BY DEF TagFollows, Types, ReaderTypes, RegistersOK
<1>10. w # P /\ data'[w] \in Tags => Last(r) < M(w)'
  BY <1>3, <1>5 DEF DeliveryAt
<1>11. /\ NewerThanFront(Last(r)) => NewerThanFront(Last(r))'
  BY <1>3, <1>4 DEF NewerThanFront
<1>12. CopiedOut(r, w) /\ M(w)' = M(w) => CopiedOut(r, w)'
  BY <1>2 DEF CopiedOut
<1>13. reader[r].pc = "loadSize" => ~(w = P /\ data'[w] \in Tags)
  BY <1>7 DEF InFlight
<1> QED BY <1>2, <1>3, <1>8, <1>9, <1>10, <1>11, <1>12, <1>13 DEF DeliveryAt

\* Publishing more leaves what a reader delivers.
LEMMA GrowthKeepsDelivery ==
  ASSUME Types, NEW r \in Readers, Got(r) \in Nat, NEW w, DeliveryAt(r, w),
         UNCHANGED <<data, write_pointer, reader, got>>, Published <= Published', Published' \in Nat
  PROVE  DeliveryAt(r, w)'
<1>1. /\ P' = P /\ Last(r)' = Last(r) /\ Got(r)' = Got(r) /\ After(r)' = After(r)
      /\ \A v : M(v)' = M(v) /\ End(v)' = End(v) /\ Holds(v)' = Holds(v) /\ Payload(v)' = Payload(v)
  BY DEF P, Last, Got, After, M, End, Holds, Payload
<1>2. \A n : NewerThanFront(n) => NewerThanFront(n)'
  BY <1>1 DEF NewerThanFront
<1>3. Last(r) <= Published'
  BY LastIs, Numbers DEF DeliveryAt
<1>4. Reading(r, w) => Reading(r, w)'
  <2> SUFFICES ASSUME Reading(r, w) PROVE Reading(r, w)'
    OBVIOUS
  <2>1. M(w) \in Nat /\ M(w) <= Published
    BY MsgNumbers DEF Reading, Payload
  <2>2. M(w) <= Published'
    BY <2>1, Numbers
  <2> QED BY <1>1, <1>2, <2>2 DEF Reading, NewerThanFront
<1>5. \A a : NextIsNewer(w, a) => NextIsNewer(w, a)'
  BY <1>1 DEF NextIsNewer
<1>6. /\ NextIsNewer(w, After(r)) => NextIsNewer(w, After(r))'
      /\ NextIsNewer(w, End(w)) => NextIsNewer(w, End(w))'
      /\ NewerThanFront(Last(r)) => NewerThanFront(Last(r))'
      /\ CopiedOut(r, w) => CopiedOut(r, w)'
  BY <1>1, <1>2 DEF NextIsNewer, NewerThanFront, CopiedOut
<1> QED BY <1>1, <1>3, <1>4, <1>6 DEF DeliveryAt

LEMMA WrapPtrKeepsDelivery ==
  ASSUME Types, Layout, Ordered, NEW r \in Readers, Got(r) \in Nat,
         Attached(r), OnTheTrack(r), NEW w, w = At0(r).pos, DeliveryAt(r, w), WrapPtr
  PROVE  DeliveryAt(r, w)'
<1>1. /\ UNCHANGED <<data, reader, got>> /\ P' = 0 /\ writer.pc = "wrapPtr" /\ Id(r) # -1
      /\ P >= Total(writer.msg) /\ P \in 0..(Size - 1) /\ w \in 0..(Size - 1)
      /\ Total(writer.msg) = MsgSize[writer.msg] + 1 /\ MsgSize[writer.msg] \in Nat \ {0}
      /\ Published <= Published' /\ Published' \in Nat
  <2>1. UNCHANGED <<data, reader, got>> /\ writer.pc = "wrapPtr" /\ Publishing /\ Id(r) # -1
        /\ write_pointer' = At(writer.at.cycles + 1, 0)
    BY DEF WrapPtr, MoveWritePointer, Publishing, Writer, Attached
  <2> QED BY <2>1, WriterAt, Places, PublishedGrows DEF Wrapping, At, P
<1>2. P > 0 /\ data[P] = Wrap /\ data[P] \notin Tags
  BY <1>1, TagWords DEF Layout, Written, Wrapping
<1>3. /\ Last(r)' = Last(r) /\ Got(r)' = Got(r) /\ After(r)' = After(r)
      /\ \A v : M(v)' = M(v) /\ End(v)' = End(v) /\ Holds(v)' = Holds(v) /\ Payload(v)' = Payload(v)
  BY <1>1 DEF Last, Got, After, M, End, Holds, Payload
<1>4. \A n : NewerThanFront(n)'
  BY <1>1 DEF NewerThanFront
<1>5. Last(r) <= Published'
  BY <1>1, LastIs, Numbers DEF DeliveryAt
<1>6. data[w] \in Tags => Holds(w) /\ Last(r) < M(w) /\ M(w) \in Nat /\ M(w) <= Published
  BY <1>1, <1>2, MessageAt DEF DeliveryAt
<1>7. reader[r].pc = "loadSize" /\ w = 0 /\ data[w] \in Tags =>
        Reading(r, w)' /\ Holds(w)' /\ NextIsNewer(w, End(w))'
  <2> SUFFICES ASSUME reader[r].pc = "loadSize", w = 0, data[w] \in Tags
               PROVE  Reading(r, w)' /\ Holds(w)' /\ NextIsNewer(w, End(w))'
    OBVIOUS
  <2>1. Last(r) = Got(r) /\ M(w) <= Published'
    BY <1>1, <1>6, Numbers DEF Last
  <2>2. Reading(r, w)' /\ Holds(w)'
    BY <1>3, <1>4, <1>6, <2>1 DEF Reading, Holds, NewerThanFront
  <2>3. data[End(w)] \in Tags => M(w) < M(End(w))
    <3>1. End(w) = P \/ End(w) < P
      BY <1>1, <1>2 DEF Layout, Front
    <3>2. End(w) \in 0..(Size - 1) /\ End(w) > w
      BY <1>1, Ends DEF Layout
    <3> QED BY <1>1, <1>2, <3>1, <3>2 DEF Ordered
  <2> QED BY <1>1, <1>3, <2>2, <2>3 DEF NextIsNewer
<1>8. reader[r].pc \in TagFollows /\ reader[r].size \in Tags => Reading(r, w)' /\ NextIsNewer(w, After(r))'
  <2> SUFFICES ASSUME reader[r].pc \in TagFollows, reader[r].size \in Tags
               PROVE  Reading(r, w)' /\ NextIsNewer(w, After(r))'
    OBVIOUS
  <2>1. Reading(r, w) /\ NextIsNewer(w, After(r))
    BY DEF DeliveryAt
  <2>2. M(w) \in Nat /\ M(w) <= Published'
    BY <1>1, <2>1, MsgNumbers, Numbers DEF Reading, Payload
  <2>3. Reading(r, w)'
    BY <1>3, <1>4, <2>1, <2>2 DEF Reading, NewerThanFront
  <2> QED BY <1>1, <1>2, <1>3, <2>1, <2>3 DEF NextIsNewer
<1>9. CopiedOut(r, w)' = CopiedOut(r, w) /\ NewerThanFront(Last(r))'
  BY <1>1, <1>3, <1>4 DEF CopiedOut, NewerThanFront
<1> QED BY <1>1, <1>3, <1>5, <1>6, <1>7, <1>8, <1>9 DEF DeliveryAt

LEMMA PublishKeepsDelivery ==
  ASSUME Types, Layout, Ordered, CopiedIn, NEW r \in Readers, Got(r) \in Nat,
         Attached(r), OnTheTrack(r), Cleared(r), NEW w, w = At0(r).pos, DeliveryAt(r, w), Publish
  PROVE  DeliveryAt(r, w)'
<1>1. /\ UNCHANGED <<data, reader, got>> /\ writer.pc = "publish" /\ Id(r) # -1
      /\ w \in 0..(Size - 1) /\ P \in 0..(Size - 1) /\ P' \in 0..(Size - 1) /\ P' > P
      /\ P' = P + Total(writer.msg)
      /\ Published = writer.msg - 1 /\ Published' = writer.msg /\ writer.msg \in Nat
      /\ data[P] \in Tags /\ M(P) = writer.msg
  <2>1. UNCHANGED <<data, reader, got>> /\ writer.pc = "publish" /\ Id(r) # -1
    BY DEF Publish, Attached
  <2> QED BY <2>1, Places, Publication
<1>2. OutOfTheWay(r)
  BY <1>1 DEF Cleared, Passed
<1>3. /\ Last(r)' = Last(r) /\ Got(r)' = Got(r) /\ After(r)' = After(r)
      /\ \A v : M(v)' = M(v) /\ End(v)' = End(v) /\ Holds(v)' = Holds(v) /\ Payload(v)' = Payload(v)
  BY <1>1 DEF Last, Got, After, M, End, Holds, Payload
<1>4. \A n \in Nat : n <= Published /\ NewerThanFront(n) => NewerThanFront(n)'
  BY FrontGrows
<1>5. Last(r) \in Nat /\ Last(r) <= Published /\ Last(r) <= Published'
  BY <1>1, LastIs DEF DeliveryAt
<1>6. NewerThanFront(Last(r)) => NewerThanFront(Last(r))'
  BY <1>3, <1>4, <1>5 DEF NewerThanFront
<1>7. data[w] \in Tags => Last(r) < M(w)
  BY <1>1, <1>5 DEF DeliveryAt
<1>8. ASSUME M(w) \in Nat, M(w) <= Published, NewerThanFront(M(w)) PROVE NewerThanFront(M(w))'
  BY <1>3, <1>4, <1>8 DEF NewerThanFront
<1>9. reader[r].pc = "loadSize" /\ w = P' /\ data[w] \in Tags =>
        Reading(r, w)' /\ Holds(w)' /\ NextIsNewer(w, End(w))'
  <2> SUFFICES ASSUME reader[r].pc = "loadSize", w = P', data[w] \in Tags
               PROVE  Reading(r, w)' /\ Holds(w)' /\ NextIsNewer(w, End(w))'
    OBVIOUS
  <2>1. w > P /\ w # P
    BY <1>1
  <2>2. Holds(w) /\ M(w) \in Nat /\ M(w) <= Published
    BY <1>1, <2>1, MessageAt
  <2>3. NewerThanFront(M(w)) /\ (data[End(w)] \in Tags => M(w) < M(End(w)))
    BY <1>1, <2>1 DEF Ordered
  <2>4. Last(r) = Got(r) /\ M(w) <= Published'
    BY <1>1, <2>2 DEF Last
  <2>5. Reading(r, w)'
    BY <1>3, <1>7, <1>8, <2>2, <2>3, <2>4 DEF Reading, Holds
  <2> QED BY <1>1, <1>3, <2>2, <2>3, <2>5 DEF NextIsNewer
<1>10. reader[r].pc \in TagFollows /\ reader[r].size \in Tags => Reading(r, w)' /\ NextIsNewer(w, After(r))'
  <2> SUFFICES ASSUME reader[r].pc \in TagFollows, reader[r].size \in Tags
               PROVE  Reading(r, w)' /\ NextIsNewer(w, After(r))'
    OBVIOUS
  <2>1. Reading(r, w) /\ NextIsNewer(w, After(r))
    BY DEF DeliveryAt
  <2>2. M(w) \in Nat /\ M(w) <= Published /\ M(w) <= Published' /\ M(w) < writer.msg
    BY <1>1, <2>1, MsgNumbers DEF Reading, Payload
  <2>3. w >= P' => NewerThanFront(M(w))'
    <3>1. w >= P' => w >= P
      BY <1>1
    <3> QED BY <1>8, <2>1, <2>2, <3>1 DEF Reading
  <2>4. Reading(r, w)'
    BY <1>3, <2>1, <2>2, <2>3 DEF Reading
  <2>5. NextIsNewer(w, After(r))'
    BY <1>1, <1>3, <2>1, <2>2 DEF NextIsNewer
  <2> QED BY <2>4, <2>5
<1>11. w > P' \/ (w = P' /\ reader[r].pc \in InFlight) => NewerThanFront(Last(r))'
  <2>1. w > P' \/ w = P' => w > P
    BY <1>1
  <2> QED BY <1>6, <2>1 DEF DeliveryAt
<1>12. CopiedOut(r, w)' = CopiedOut(r, w)
  BY <1>1, <1>3 DEF CopiedOut
<1>13. reader[r].pc \in {"checkSize", "wrap"} /\ reader[r].size = Wrap => NewerThanFront(Last(r))'
  BY <1>6 DEF DeliveryAt
<1> QED BY <1>1, <1>3, <1>5, <1>7, <1>9, <1>10, <1>11, <1>12, <1>13 DEF DeliveryAt

\* What holds of the readers' messages.
LEMMA WriterKeepsDelivery ==
  ASSUME Types, Layout, ReaderInv, CInv, Publishing
  PROVE  GotInv' /\ DeliveryInv'
<1>1. /\ Ordered /\ CopiedIn /\ GotInv /\ DeliveryInv
      /\ Published <= Published' /\ Published' \in Nat /\ Published \in Nat
      /\ UNCHANGED <<reader, read_pointers>>
  BY PublishedGrows, Numbers, PublisherKeepsTypes DEF CInv
<1>2. UNCHANGED got
  BY DEF Publishing, Start, Send, Writer, ClearValid, ClearUid, WrapTag, WrapCheck, WrapInvalidate,
     WrapPtr, AreaCheck, AreaInvalidate, WriteTag, CopyIn, Publish, CheckReader, Invalidate, history
<1>3. GotInv'
  <2>1. \A r \in Readers : Got(r)' = Got(r)
    BY <1>2 DEF Got
  <2>2. \A r \in Readers : Got(r) \in Nat /\ Got(r) <= Published'
    BY <1>1 DEF GotInv
  <2> QED BY <1>1, <1>2, <2>1, <2>2 DEF GotInv
<1>4. ASSUME NEW r \in Readers PROVE Empty(r)' /\ (Attached(r)' => Delivery(r)')
  <2>1. Empty(r)'
    BY <1>1 DEF DeliveryInv, Empty
  <2>2. ASSUME Attached(r)' PROVE Delivery(r)'
    <3>1. Attached(r)
      BY <2>2, PublisherFrame
    <3>2. OnTheTrack(r) /\ Cleared(r)
      BY <3>1 DEF ReaderInv, ReaderOK
    <3>3. PICK w : w = At0(r).pos
      OBVIOUS
    <3>4. DeliveryAt(r, w) /\ Got(r) \in Nat
      BY <1>1, <3>1, <3>3 DEF DeliveryInv, Delivery, GotInv
    <3>5. DeliveryAt(r, w)'
      <4>1. CASE WrapTag \/ WriteTag \/ CopyIn
        BY <1>1, <3>1, <3>2, <3>3, <3>4, <4>1, WritingKeepsDelivery
      <4>2. CASE WrapPtr
        BY <1>1, <3>1, <3>2, <3>3, <3>4, <4>2, WrapPtrKeepsDelivery
      <4>3. CASE Publish
        BY <1>1, <3>1, <3>2, <3>3, <3>4, <4>3, PublishKeepsDelivery
      <4>4. CASE ~(WrapTag \/ WriteTag \/ CopyIn \/ WrapPtr \/ Publish)
        <5>1. UNCHANGED <<data, write_pointer>>
          BY <4>4 DEF Publishing, Start, Send, Writer, ClearValid, ClearUid, WrapCheck, WrapInvalidate,
           AreaCheck, AreaInvalidate, CheckReader, Invalidate, header
        <5> QED BY <1>1, <1>2, <3>4, <5>1, GrowthKeepsDelivery
      <4> QED BY <4>1, <4>2, <4>3, <4>4
    <3>6. At0(r)'.pos = w
      BY <1>1, <3>3 DEF At0, Id
    <3> QED BY <3>5, <3>6 DEF Delivery
  <2> QED BY <2>1, <2>2
<1> QED BY <1>3, <1>4 DEF DeliveryInv

-----------------------------------------------------------------------------
(* The readers and what they deliver                                       *)

\* A reader's step leaves the ring as it is.
LEMMA RingStays ==
  ASSUME UNCHANGED <<data, write_pointer, writer>>
  PROVE  /\ P' = P /\ Published' = Published
         /\ \A v : M(v)' = M(v) /\ End(v)' = End(v) /\ Holds(v)' = Holds(v) /\ Payload(v)' = Payload(v)
         /\ \A n : NewerThanFront(n)' = NewerThanFront(n)
         /\ \A v, a : NextIsNewer(v, a)' = NextIsNewer(v, a)
  BY DEF P, Published, M, End, Holds, Payload, NewerThanFront, NextIsNewer

LEMMA ReaderKeepsContents ==
  ASSUME Types, Layout, Ordered, CopiedIn, NEW q \in Readers, Reader(q)
  PROVE  Ordered' /\ CopiedIn'
<1>1. UNCHANGED <<data, write_pointer, writer>>
  BY ReaderShared DEF Layout
<1>2. Published' = Published /\ Published \in Nat /\ P' = P
  BY <1>1, RingStays, Numbers
<1>3. Ordered'
  BY <1>1, <1>2, OrderStays
<1> QED BY <1>1, <1>2, <1>3 DEF CopiedIn

LEMMA SameDelivery ==
  ASSUME NEW r \in Readers, NEW w, DeliveryAt(r, w), UNCHANGED <<data, write_pointer, writer>>,
         reader'[r] = reader[r], got'[r] = got[r]
  PROVE  DeliveryAt(r, w)'
<1>1. Last(r)' = Last(r) /\ Got(r)' = Got(r) /\ After(r)' = After(r)
  BY DEF Last, Got, After
<1>2. /\ P' = P /\ Published' = Published /\ data' = data
      /\ \A v : M(v)' = M(v) /\ End(v)' = End(v) /\ Holds(v)' = Holds(v) /\ Payload(v)' = Payload(v)
  BY RingStays
<1>3. \A n : NewerThanFront(n)' = NewerThanFront(n)
  BY RingStays
<1>4. Reading(r, w)' = Reading(r, w)
  BY <1>1, <1>2, <1>3 DEF Reading, NewerThanFront
<1>5. /\ NextIsNewer(w, End(w))' = NextIsNewer(w, End(w))
      /\ NextIsNewer(w, After(r))' = NextIsNewer(w, After(r))
      /\ NewerThanFront(Last(r))' = NewerThanFront(Last(r))
      /\ CopiedOut(r, w)' = CopiedOut(r, w)
  BY <1>1, <1>2 DEF NextIsNewer, NewerThanFront, CopiedOut
<1> QED BY <1>1, <1>2, <1>4, <1>5 DEF DeliveryAt

\* Only the end of a call returns a message.
LEMMA GotStays ==
  ASSUME NEW q \in Readers, Reader(q)
  PROVE  /\ ~CheckCopy(q) => UNCHANGED got
         /\ \A r \in Readers \ {q} : got \in [Readers -> Seq(Words)] => got'[r] = got[r]
<1>1. CASE CheckCopy(q)
  BY <1>1 DEF CheckCopy
<1>2. CASE ~CheckCopy(q)
  <2>1. UNCHANGED got
    BY <1>2 DEF Reader, LoadNumReaders, Evict, WipeValid, WipeUid, Claim, NewValid, NewPointer, NewUid, SetValid,
     LoadPointer, StorePointer, CheckUid, CheckValid, LoadRead, LoadWrite, LoadSize, CheckSize, WrapAround, Skip,
     CopyOut, Advance, MoveReadPointer, OnlyReader, history
  <2> QED BY <1>2, <2>1
<1> QED BY <1>1, <1>2

LEMMA OthersDeliver ==
  ASSUME Types, Layout, CInv, NEW q \in Readers, Reader(q), NEW r \in Readers, r # q
  PROVE  Empty(r)' /\ (Attached(r)' => Delivery(r)')
<1>1. /\ reader'[r] = reader[r] /\ (Clean(r)' => Clean(r))
      /\ Clean(r)' /\ Id(r) # -1 => /\ read_pointers'[Id(r)] = read_pointers[Id(r)]
                                    /\ read_valids'[Id(r)] => read_valids[Id(r)]
  BY OthersAlone
<1>2. UNCHANGED <<write_pointer, data, writer>>
  BY ReaderShared DEF Layout
<1>3. Empty(r) /\ (Attached(r) => Delivery(r)) /\ got'[r] = got[r]
  BY GotStays DEF CInv, DeliveryInv, GotInv
<1>4. Empty(r)'
  BY <1>1, <1>3 DEF Empty
<1>5. ASSUME Attached(r)' PROVE Delivery(r)'
  <2>1. Id(r)' = Id(r)
    BY <1>1 DEF Id
  <2>2. Clean(r)' /\ Id(r) # -1 /\ read_valids'[Id(r)]
    BY <1>5, <2>1 DEF Attached
  <2>3. read_pointers'[Id(r)] = read_pointers[Id(r)] /\ read_valids[Id(r)] /\ Clean(r)
    BY <1>1, <2>2
  <2>4. Attached(r)
    BY <1>1, <1>5, <2>2, <2>3 DEF Attached
  <2>5. PICK w : w = At0(r).pos
    OBVIOUS
  <2>6. DeliveryAt(r, w)
    BY <1>3, <2>4, <2>5 DEF Delivery
  <2>7. DeliveryAt(r, w)'
    BY <1>1, <1>2, <1>3, <2>6, SameDelivery
  <2>8. At0(r)'.pos = w
    BY <2>1, <2>3, <2>5 DEF At0
  <2> QED BY <2>7, <2>8 DEF Delivery
<1> QED BY <1>4, <1>5

\* A reader that has no message in hand.
LEMMA AtRest ==
  ASSUME UNCHANGED <<data, write_pointer, writer>>, NEW q \in Readers, NEW n, NEW w, At0(q)'.pos = w,
         reader'[q].pc \in {"start", "checkValid", "loadRead", "loadWrite"}, Got(q)' = n,
         n <= Published, w # P /\ data[w] \in Tags => n < M(w), w > P => NewerThanFront(n)
  PROVE  Delivery(q)'
<1>1. Last(q)' = n /\ reader'[q].pc \notin InFlight \cup TagFollows \cup {"checkCopy"}
  BY DEF Last, InFlight, TagFollows
<1>2. /\ P' = P /\ Published' = Published /\ data' = data /\ \A v : M(v)' = M(v)
  BY RingStays
<1>3. NewerThanFront(n) => NewerThanFront(Last(q))'
  BY <1>1, <1>2 DEF NewerThanFront
<1>4. DeliveryAt(q, w)'
  BY <1>1, <1>2, <1>3 DEF DeliveryAt, InFlight, TagFollows
<1> QED BY <1>4 DEF Delivery

\* What a step of a reader in the middle of a call starts from.
LEMMA InCall ==
  ASSUME Types, Layout, ReaderInv, CInv, NEW q \in Readers, Attached(q)',
         CheckUid(q) \/ CheckValid(q) \/ LoadRead(q) \/ LoadWrite(q) \/ LoadSize(q) \/ CheckSize(q)
           \/ WrapAround(q) \/ Skip(q) \/ CopyOut(q) \/ Advance(q) \/ CheckCopy(q)
  PROVE  /\ UNCHANGED <<write_pointer, data, writer>>
         /\ reader \in [Readers -> Registers] /\ RegistersOK(reader[q])
         /\ Id(q)' = Id(q) /\ Id(q) # -1
         /\ At0(q).pos \in 0..(Size - 1) /\ P \in 0..(Size - 1)
         /\ Attached(q) /\ OnTheTrack(q) /\ DeliveryAt(q, At0(q).pos) /\ Empty(q)
         /\ Got(q) \in Nat /\ Last(q) \in Nat /\ Got(q) <= Published
         /\ Clean(q) /\ got \in [Readers -> Seq(Words)]
<1>1. /\ UNCHANGED <<write_pointer, data, writer>> /\ Reader(q)
      /\ reader \in [Readers -> Registers] /\ RegistersOK(reader[q])
  BY ReaderShared DEF Layout, Types, ReaderTypes, Reader
<1>2. reader[q].pc \in Listening
  BY DEF CheckUid, CheckValid, LoadRead, LoadWrite, LoadSize, CheckSize, WrapAround, Skip, CopyOut, Advance,
     CheckCopy, Listening
<1>3. Id(q)' = Id(q) /\ Id(q) # -1
  <2>1. ~Claim(q)
    BY <1>2 DEF Claim, Listening
  <2>2. reader'[q].id = reader[q].id
    BY <1>1, <2>1, SameSlot
  <2> QED BY <2>2 DEF Id, Attached
<1>4. read_valids' = read_valids /\ disturbed \subseteq disturbed' /\ evicted' = evicted
  BY DEF CheckUid, CheckValid, LoadRead, LoadWrite, LoadSize, CheckSize, WrapAround, Skip, CopyOut, Advance,
     CheckCopy, MoveReadPointer, Disturb, OnlyReader, history, slots
<1>5. Attached(q) /\ Clean(q)
  BY <1>2, <1>3, <1>4 DEF Attached, Clean, Listening
<1>6. OnTheTrack(q) /\ DeliveryAt(q, At0(q).pos) /\ Empty(q) /\ Got(q) \in Nat /\ Got(q) <= Published
      /\ got \in [Readers -> Seq(Words)]
  BY <1>5 DEF ReaderInv, ReaderOK, CInv, DeliveryInv, Delivery, GotInv
<1>7. At0(q).pos \in 0..(Size - 1) /\ P \in 0..(Size - 1)
  BY <1>3, Places
<1>8. Last(q) \in Nat
  BY <1>6, LastIs
<1> QED BY <1>1, <1>3, <1>5, <1>6, <1>7, <1>8

\* A reset forgets what came before the write pointer, and nothing that comes after.
LEMMA ResetDelivers ==
  ASSUME Types, Layout, ReaderInv, CInv, NEW q \in Readers, StorePointer(q), Attached(q)'
  PROVE  Delivery(q)'
<1>0. /\ UNCHANGED <<write_pointer, data, writer, got>> /\ reader \in [Readers -> Registers]
      /\ RegistersOK(reader[q]) /\ evicted' = evicted /\ reader[q].pc = "storePointer"
      /\ read_pointers' = [read_pointers EXCEPT ![Id(q)] = reader[q].wp]
  BY DEF StorePointer, header, Types, ReaderTypes
<1>1. reader'[q].pc = "start" /\ Id(q)' = Id(q)
  BY <1>0, Updates, Restarted DEF StorePointer
<1>2. Clean(q)
  BY DEF StorePointer, Disturb, Clean, Attached
<1>3. Id(q) # -1
  BY <1>0 DEF RegistersOK, Subscribing, Id
<1>4. reader[q].wp = write_pointer
  BY <1>0, <1>2 DEF ReaderInv, ReaderOK
<1>5. At0(q)'.pos = P
  BY <1>0, <1>1, <1>3, <1>4, Places DEF At0, P
<1>6. Got(q)' = Got(q) /\ Got(q) <= Published /\ ~(P > P)
  BY <1>0, <1>3, Places DEF Got, CInv, GotInv
<1> QED BY <1>0, <1>1, <1>5, <1>6, AtRest

LEMMA LookingDelivers ==
  ASSUME Types, Layout, ReaderInv, CInv, NEW q \in Readers,
         CheckUid(q) \/ CheckValid(q) \/ LoadRead(q) \/ LoadWrite(q), Attached(q)'
  PROVE  Delivery(q)'
<1>0. /\ UNCHANGED <<write_pointer, data, writer>>
      /\ reader \in [Readers -> Registers]
      /\ Id(q)' = Id(q) /\ OnTheTrack(q) /\ DeliveryAt(q, At0(q).pos) /\ Got(q) <= Published
  BY InCall
<1>1. UNCHANGED <<got, read_pointers>> /\ reader[q].pc \in {"start", "checkValid", "loadRead", "loadWrite"}
  BY DEF CheckUid, CheckValid, LoadRead, LoadWrite, OnlyReader, slots, history
<1>2. PICK w : w = At0(q).pos
  OBVIOUS
<1>3. At0(q)'.pos = w /\ Got(q)' = Got(q) /\ Last(q) = Got(q)
  BY <1>0, <1>1, <1>2 DEF At0, Got, Last
<1>4. /\ w # P /\ data[w] \in Tags => Got(q) < M(w)
      /\ w > P => NewerThanFront(Got(q))
  BY <1>0, <1>3, <1>2 DEF DeliveryAt
<1>5. ASSUME reader'[q].pc \in {"start", "checkValid", "loadRead", "loadWrite"} PROVE Delivery(q)'
  BY <1>0, <1>3, <1>4, <1>5, AtRest
<1>6. CASE CheckUid(q) \/ CheckValid(q)
  <2>1. \E pc \in {"subscribe", "checkValid", "setValid", "loadRead"} : Becomes(q, Goes(q, pc))
    BY <1>0, <1>6, Updates DEF CheckUid, CheckValid
  <2>2. reader'[q].pc \in {"checkValid", "loadRead"}
    BY <2>1, Registered DEF Goes, Attached
  <2> QED BY <1>5, <2>2
<1>7. CASE LoadRead(q)
  <2>1. reader'[q].pc = "loadWrite"
    BY <1>0, <1>7, ReceiverMoves, Registered
  <2> QED BY <1>5, <2>1
<1>8. CASE LoadWrite(q)
  <2>1. reader[q].pc = "loadWrite" /\ reader[q].rp = At0(q)
    BY <1>0, <1>8 DEF LoadWrite, OnTheTrack
  <2>2. CASE w = P
    <3>1. reader'[q].pc = "start"
      BY <1>0, <1>8, <1>2, <2>1, <2>2, ReceiverMoves, Restarted DEF P
    <3> QED BY <1>5, <3>1
  <2>3. CASE w # P
    <3>1. Becomes(q, Receives(q, "loadSize", reader[q].rp, write_pointer, reader[q].size, reader[q].buf))
      BY <1>0, <1>8, <1>2, <2>1, <2>3, ReceiverMoves DEF P
    <3>2. reader'[q].pc = "loadSize"
      BY <3>1, Registered
    <3>3. Last(q)' = Got(q) /\ P' = P /\ Published' = Published /\ data' = data /\ M(w)' = M(w)
      BY <1>0, <1>3, <3>2, RingStays DEF Last
    <3>4. NewerThanFront(Got(q)) => NewerThanFront(Last(q))'
      BY <1>0, <3>3, RingStays DEF NewerThanFront
    <3>5. DeliveryAt(q, w)'
      BY <1>0, <1>4, <2>3, <3>2, <3>3, <3>4 DEF DeliveryAt, TagFollows
    <3> QED BY <1>3, <3>5 DEF Delivery
  <2> QED BY <2>2, <2>3
<1> QED BY <1>6, <1>7, <1>8

\* The size that is loaded is that of a message newer than the last.
LEMMA LoadSizeDelivers ==
  ASSUME Types, Layout, ReaderInv, CInv, NEW q \in Readers, LoadSize(q), Attached(q)'
  PROVE  Delivery(q)'
<1>1. PICK w : w = At0(q).pos
  OBVIOUS
<1>2. /\ UNCHANGED <<write_pointer, data, writer>>
      /\ reader \in [Readers -> Registers] /\ Id(q)' = Id(q) /\ OnTheTrack(q) /\ DeliveryAt(q, w)
      /\ w \in 0..(Size - 1) /\ P \in 0..(Size - 1)
  BY <1>1, InCall
<1>3. UNCHANGED <<got, read_pointers>> /\ reader[q].pc = "loadSize" /\ reader[q].rp = At0(q)
  BY <1>2 DEF LoadSize, OnlyReader, slots, history, OnTheTrack, InFlight
<1>4. reader'[q].pc = "checkSize" /\ reader'[q].size = data[w] /\ reader'[q].rp = At0(q)
  BY <1>1, <1>2, <1>3, ReceiverMoves, Registered
<1>5. /\ P' = P /\ Published' = Published
      /\ \A v : M(v)' = M(v) /\ End(v)' = End(v) /\ Payload(v)' = Payload(v)
      /\ \A n : NewerThanFront(n)' = NewerThanFront(n)
  BY <1>2, RingStays
<1>6. At0(q)'.pos = w /\ Got(q)' = Got(q) /\ Last(q) = Got(q) /\ Last(q)' = Got(q) /\ After(q)' = End(w)
  BY <1>1, <1>2, <1>3, <1>4 DEF At0, Got, Last, After, End
<1>7. NewerThanFront(Last(q)) => NewerThanFront(Last(q))'
  BY <1>5, <1>6 DEF NewerThanFront
<1>8. data[w] \in Tags => Reading(q, w) /\ data[w] = Tag(M(w)) /\ NextIsNewer(w, End(w))
  <2> SUFFICES ASSUME data[w] \in Tags
               PROVE  Reading(q, w) /\ data[w] = Tag(M(w)) /\ NextIsNewer(w, End(w))
    OBVIOUS
  <2>1. CASE w = P
    BY <1>2, <1>3, <2>1 DEF DeliveryAt, Holds
  <2>2. CASE w # P
    <3>1. Ordered
      BY DEF CInv
    <3>2. Holds(w) /\ M(w) <= Published /\ Got(q) < M(w)
      BY <1>2, <1>6, <2>2, <3>1, MessageAt DEF DeliveryAt
    <3>3. w > P => NewerThanFront(M(w)) /\ (data[End(w)] \in Tags => M(w) < M(End(w)))
      BY <1>2, <3>1 DEF Ordered
    <3>4. Reading(q, w)
      BY <1>2, <2>2, <3>2, <3>3 DEF Reading, Holds
    <3>5. NextIsNewer(w, End(w))
      <4>1. CASE w > P
        BY <3>3, <4>1 DEF NextIsNewer
      <4>2. CASE w < P
        <5>1. End(w) \in 0..(Size - 1) /\ End(w) > w
          BY <1>2, Ends DEF Layout
        <5>2. End(w) = P \/ End(w) < P
          BY <1>2, <4>2 DEF Layout, Front
        <5> QED BY <1>2, <3>1, <5>1, <5>2 DEF NextIsNewer, Ordered
      <4> QED BY <1>2, <2>2, <4>1, <4>2
    <3> QED BY <3>2, <3>4, <3>5 DEF Holds
  <2> QED BY <2>1, <2>2
<1>9. data[w] \in Tags => Reading(q, w)' /\ NextIsNewer(w, After(q))'
  <2>1. Reading(q, w) => Reading(q, w)'
    BY <1>5, <1>6 DEF Reading, NewerThanFront
  <2>2. NextIsNewer(w, End(w)) => NextIsNewer(w, After(q))'
    BY <1>2, <1>5, <1>6 DEF NextIsNewer, M
  <2> QED BY <1>8, <2>1, <2>2
<1>10. data[w] = Wrap => NewerThanFront(Last(q))
  <2> SUFFICES ASSUME data[w] = Wrap PROVE NewerThanFront(Last(q))
    OBVIOUS
  <2>1. w > P \/ w = P
    BY <1>2 DEF Layout, Front
  <2> QED BY <1>2, <1>3, <2>1 DEF DeliveryAt, InFlight
<1>11. w # P /\ data[w] \in Tags => Last(q)' < M(w)'
  BY <1>2, <1>5, <1>6 DEF DeliveryAt
<1>12. w > P \/ w = P => NewerThanFront(Last(q))'
  BY <1>2, <1>3, <1>7 DEF DeliveryAt, InFlight
<1>13. Last(q)' <= Published
  BY <1>2, <1>6 DEF DeliveryAt
<1>14. DeliveryAt(q, w)'
  BY <1>2, <1>4, <1>5, <1>7, <1>8, <1>9, <1>10, <1>11, <1>12, <1>13 DEF DeliveryAt
<1> QED BY <1>6, <1>14 DEF Delivery

\* The size stays in hand.
LEMMA InHandStays ==
  ASSUME NEW q \in Readers, NEW w, DeliveryAt(q, w), UNCHANGED <<data, write_pointer, writer, got>>,
         reader[q].pc \in {"checkSize", "copy"}, reader'[q].pc \in {"wrap", "skip", "copy", "advance"},
         reader'[q].rp = reader[q].rp, reader'[q].size = reader[q].size,
         reader'[q].pc \in TagFollows => reader[q].size \in Tags,
         reader'[q].pc = "wrap" => reader[q].pc = "checkSize",
         reader'[q].pc = "copy" => Len(reader'[q].buf) < MsgSize[M(w)] /\ CopiedOut(q, w)',
         reader'[q].pc = "advance" => Len(reader'[q].buf) = MsgSize[M(w)] /\ CopiedOut(q, w)'
  PROVE  DeliveryAt(q, w)'
<1>1. /\ P' = P /\ Published' = Published /\ \A v : M(v)' = M(v) /\ Payload(v)' = Payload(v)
      /\ \A n : NewerThanFront(n)' = NewerThanFront(n)
  BY RingStays
<1>2. Got(q)' = Got(q) /\ Last(q) = Got(q) /\ Last(q)' = Got(q) /\ After(q)' = After(q)
  BY DEF Got, Last, After
<1>3. NewerThanFront(Last(q)) => NewerThanFront(Last(q))'
  BY <1>1, <1>2 DEF NewerThanFront
<1>4. reader[q].pc \in InFlight \cap TagFollows
  BY DEF InFlight, TagFollows
<1>5. reader[q].size \in Tags => Reading(q, w)' /\ reader[q].size = Tag(M(w))' /\ NextIsNewer(w, After(q))'
  <2> SUFFICES ASSUME reader[q].size \in Tags
               PROVE  Reading(q, w)' /\ reader[q].size = Tag(M(w)) /\ NextIsNewer(w, After(q))'
    BY <1>1 DEF Tag
  <2>1. Reading(q, w) /\ reader[q].size = Tag(M(w)) /\ NextIsNewer(w, After(q))
    BY <1>4 DEF DeliveryAt
  <2>2. Reading(q, w)'
    BY <1>1, <1>2, <2>1 DEF Reading, NewerThanFront
  <2>3. NextIsNewer(w, After(q))'
    BY <1>1, <1>2, <2>1 DEF NextIsNewer
  <2> QED BY <2>1, <2>2, <2>3
<1>6. w # P /\ data[w] \in Tags => Last(q)' < M(w)'
  BY <1>1, <1>2 DEF DeliveryAt
<1>7. w > P \/ w = P => NewerThanFront(Last(q))'
  BY <1>3, <1>4 DEF DeliveryAt
<1>8. Last(q)' <= Published'
  BY <1>1, <1>2 DEF DeliveryAt
<1>9. reader'[q].pc = "wrap" /\ reader[q].size = Wrap => NewerThanFront(Last(q))'
  BY <1>3 DEF DeliveryAt
<1> QED BY <1>1, <1>5, <1>6, <1>7, <1>8, <1>9 DEF DeliveryAt

LEMMA CheckSizeDelivers ==
  ASSUME Types, Layout, ReaderInv, CInv, NEW q \in Readers, CheckSize(q), Attached(q)'
  PROVE  Delivery(q)'
<1>1. PICK w : w = At0(q).pos
  OBVIOUS
<1>2. /\ UNCHANGED <<write_pointer, data, writer>>
      /\ reader \in [Readers -> Registers] /\ Id(q)' = Id(q) /\ Id(q) # -1 /\ Attached(q)
      /\ OnTheTrack(q) /\ DeliveryAt(q, w) /\ Empty(q)
  BY <1>1, InCall
<1>3. UNCHANGED <<got, read_pointers>> /\ reader[q].pc = "checkSize"
  BY DEF CheckSize, OnlyReader, slots, history
<1>4. At0(q)'.pos = w
  BY <1>1, <1>2, <1>3 DEF At0
<1>5. PICK pc \in {"wrap", "skip", "copy"} : Becomes(q, Goes(q, pc)) /\ (pc # "wrap" => reader[q].size.is = "tag")
  <2>1. read_valids[Id(q)]
    BY <1>2 DEF Attached
  <2>2. \E pc \in {"wrap", "skip", "copy", "dead"} :
           Becomes(q, Goes(q, pc)) /\ (pc \in {"skip", "copy"} => reader[q].size.is = "tag")
    BY <1>2, <2>1, Updates DEF CheckSize
  <2>3. PICK pc \in {"wrap", "skip", "copy", "dead"} :
           Becomes(q, Goes(q, pc)) /\ (pc \in {"skip", "copy"} => reader[q].size.is = "tag")
    BY <2>2
  <2>4. pc # "dead"
    BY <2>3, Registered DEF Goes, Attached
  <2> QED BY <2>3, <2>4
<1>6. reader'[q].pc = pc /\ reader'[q].rp = reader[q].rp /\ reader'[q].size = reader[q].size /\ reader'[q].buf = <<>>
  BY <1>2, <1>3, <1>5, Registered DEF Goes, Empty
<1>7. pc # "wrap" => reader[q].size \in Tags
  BY <1>2, <1>5, TagWords DEF Registers
<1>8. pc = "copy" => Len(reader'[q].buf) < MsgSize[M(w)] /\ CopiedOut(q, w)'
  <2> SUFFICES ASSUME pc = "copy" PROVE Len(reader'[q].buf) < MsgSize[M(w)] /\ CopiedOut(q, w)'
    OBVIOUS
  <2>1. MsgSize[M(w)] \in Nat \ {0}
    BY <1>1, <1>2, <1>3, <1>7, InHand DEF TagFollows
  <2>2. Len(reader'[q].buf) = 0
    BY <1>6
  <2> QED BY <2>1, <2>2 DEF CopiedOut
<1>9. DeliveryAt(q, w)'
  BY <1>2, <1>3, <1>6, <1>7, <1>8, InHandStays DEF TagFollows
<1> QED BY <1>4, <1>9 DEF Delivery

LEMMA CopyOutDelivers ==
  ASSUME Types, Layout, ReaderInv, CInv, NEW q \in Readers, CopyOut(q), Attached(q)'
  PROVE  Delivery(q)'
<1>1. PICK w : w = At0(q).pos
  OBVIOUS
<1>2. /\ UNCHANGED <<write_pointer, data, writer>>
      /\ reader \in [Readers -> Registers] /\ RegistersOK(reader[q]) /\ Id(q)' = Id(q) /\ Id(q) # -1
      /\ OnTheTrack(q) /\ DeliveryAt(q, w)
  BY <1>1, InCall
<1>3. UNCHANGED <<got, read_pointers>> /\ reader[q].pc = "copy" /\ reader[q].rp = At0(q)
  BY <1>2 DEF CopyOut, OnlyReader, slots, history, OnTheTrack, InFlight
<1>4. At0(q)'.pos = w
  BY <1>1, <1>2, <1>3 DEF At0
<1>5. reader[q].size \in Tags /\ reader[q].buf \in Seq(Words)
  BY <1>2, <1>3 DEF RegistersOK, Registers
<1>6. /\ M(w) \in Msgs /\ MsgSize[M(w)] \in Nat \ {0} /\ reader[q].size.size = MsgSize[M(w)]
      /\ \A k \in 1..MsgSize[M(w)] : w + k \in 0..(Size - 1)
  BY <1>1, <1>2, <1>3, <1>5, InHand DEF TagFollows
<1>7. Len(reader[q].buf) < MsgSize[M(w)] /\ CopiedOut(q, w) /\ Payload(w)
  BY <1>2, <1>3, <1>5 DEF DeliveryAt, Reading, TagFollows
<1> DEFINE k == Len(reader[q].buf) + 1
           unit == Unit(M(w), k)
           pc == IF k = MsgSize[M(w)] THEN "advance" ELSE "copy"
<1>8. k \in 1..MsgSize[M(w)] /\ k \in Nat
  BY <1>5, <1>6, <1>7
<1>9. data[w + k] = unit /\ w + k < Size
  <2>1. w + k \in 0..(Size - 1)
    BY <1>6, <1>8
  <2> QED BY <1>7, <1>8, <2>1, Ring DEF Payload
<1>10. reader' = [reader EXCEPT ![q].buf = Append(@, unit), ![q].pc = pc]
  BY <1>1, <1>3, <1>6, <1>9 DEF CopyOut
<1> HIDE DEF unit, pc
<1>11. /\ reader'[q].pc = pc /\ reader'[q].rp = reader[q].rp /\ reader'[q].size = reader[q].size
       /\ reader'[q].buf = Append(reader[q].buf, unit)
  BY <1>2, <1>10 DEF Registers
<1>12. Len(reader'[q].buf) = k
  BY <1>5, <1>11
<1>13. \A j \in 1..k : reader'[q].buf[j] = Unit(M(w), j)
  <2> SUFFICES ASSUME NEW j \in 1..k PROVE reader'[q].buf[j] = Unit(M(w), j)
    OBVIOUS
  <2>1. CASE j = k
    BY <1>5, <1>11, <2>1 DEF unit
  <2>2. CASE j # k
    <3>1. j \in 1..Len(reader[q].buf)
      BY <1>5, <2>2
    <3>2. reader[q].buf[j] = Unit(M(w), j)
      BY <1>7, <3>1 DEF CopiedOut
    <3> QED BY <1>5, <1>11, <3>1, <3>2
  <2> QED BY <2>1, <2>2
<1>14. M(w)' = M(w)
  BY <1>2 DEF M
<1>15. CopiedOut(q, w)'
  BY <1>12, <1>13, <1>14 DEF CopiedOut
<1>16. /\ pc = "copy" => k < MsgSize[M(w)]
       /\ pc = "advance" => k = MsgSize[M(w)]
       /\ pc \in {"copy", "advance"}
  BY <1>6, <1>8 DEF pc
<1> HIDE DEF k
<1>17. DeliveryAt(q, w)'
  BY <1>2, <1>3, <1>5, <1>11, <1>12, <1>15, <1>16, InHandStays
<1> QED BY <1>4, <1>17 DEF Delivery

\* What a call returns is the last message from then on.
LEMMA CheckCopyDelivers ==
  ASSUME Types, Layout, ReaderInv, CInv, NEW q \in Readers, CheckCopy(q), Attached(q)'
  PROVE  Delivery(q)'
<1>1. PICK w : w = At0(q).pos
  OBVIOUS
<1>2. /\ UNCHANGED <<write_pointer, data, writer>>
      /\ reader \in [Readers -> Registers] /\ Id(q)' = Id(q) /\ Attached(q) /\ Clean(q)
      /\ DeliveryAt(q, w) /\ got \in [Readers -> Seq(Words)]
  BY <1>1, InCall
<1>3. /\ UNCHANGED read_pointers /\ reader[q].pc = "checkCopy" /\ read_valids[Id(q)]
      /\ got' = [got EXCEPT ![q] = reader[q].buf]
  BY <1>2 DEF CheckCopy, slots, Attached
<1>4. At0(q)'.pos = w
  BY <1>1, <1>2, <1>3 DEF At0
<1>5. reader'[q].pc = "start"
  BY <1>2, <1>3, Updates, Restarted DEF CheckCopy
<1>6. reader[q].buf # <<>>
  BY <1>2, <1>3, WholeIs DEF DeliveryAt
<1>7. Got(q)' = Last(q)
  BY <1>2, <1>3, <1>6 DEF Got, Last
<1>8. /\ Last(q) <= Published
      /\ w # P /\ data[w] \in Tags => Last(q) < M(w)
      /\ w > P => NewerThanFront(Last(q))
  BY <1>2 DEF DeliveryAt
<1>9. PICK n : n = Last(q)
  OBVIOUS
<1> QED BY <1>2, <1>4, <1>5, <1>7, <1>8, <1>9, AtRest

\* A reader that moves on has the messages before it in front of it.
LEMMA RestartDelivers ==
  ASSUME Types, Layout, ReaderInv, CInv, NEW q \in Readers, WrapAround(q) \/ Skip(q), Attached(q)'
  PROVE  Delivery(q)'
<1>1. PICK w : w = At0(q).pos
  OBVIOUS
<1>2. /\ UNCHANGED <<write_pointer, data, writer>>
      /\ reader \in [Readers -> Registers] /\ RegistersOK(reader[q]) /\ Id(q)' = Id(q) /\ Id(q) # -1
      /\ OnTheTrack(q) /\ DeliveryAt(q, w) /\ w \in 0..(Size - 1) /\ P \in 0..(Size - 1)
      /\ Got(q) \in Nat /\ Got(q) <= Published
  BY <1>1, InCall
<1>3. UNCHANGED got /\ reader[q].pc \in {"wrap", "skip"} /\ reader[q].rp = At0(q)
  BY <1>2 DEF WrapAround, Skip, MoveReadPointer, OnTheTrack, InFlight
<1>4. reader'[q].pc = "start"
  BY <1>2, Updates, Restarted DEF WrapAround, Skip
<1>5. Got(q)' = Got(q) /\ Last(q) = Got(q)
  BY <1>3 DEF Got, Last
<1>6. Id(q) \in Slots /\ read_pointers \in [Slots -> Positions]
  BY <1>2, Places
<1>7. CASE WrapAround(q)
  <2>1. At0(q)' = At(At0(q).cycles + 1, 0)
    BY <1>2, <1>3, <1>6, <1>7 DEF WrapAround, MoveReadPointer, At0
  <2>2. At0(q)'.pos = 0
    BY <2>1 DEF At
  <2>3. reader[q].pc = "wrap" /\ reader[q].size = Wrap
    BY <1>2, <1>7 DEF WrapAround, RegistersOK
  <2>4. NewerThanFront(Got(q))
    BY <1>2, <1>5, <2>3 DEF DeliveryAt
  <2>5. 0 # P /\ data[0] \in Tags => Got(q) < M(0)
    BY <1>2, <2>4, Ring DEF NewerThanFront
  <2> QED BY <1>2, <1>4, <1>5, <2>2, <2>4, <2>5, AtRest
<1>8. CASE Skip(q)
  <2>1. PICK a : a = After(q)
    OBVIOUS
  <2>2. At0(q)' = At(At0(q).cycles, a)
    BY <1>2, <1>3, <1>6, <1>8, <2>1 DEF Skip, MoveReadPointer, At0
  <2>3. At0(q)'.pos = a
    BY <2>2 DEF At
  <2>4. reader[q].pc = "skip" /\ reader[q].size \in Tags
    BY <1>2, <1>8 DEF Skip, RegistersOK
  <2>5. Reading(q, w) /\ NextIsNewer(w, a)
    BY <1>2, <2>1, <2>4 DEF DeliveryAt, TagFollows
  <2>6. /\ w < P => a <= P
        /\ a \in 0..(Size - 1) /\ M(w) \in Nat
    BY <1>1, <1>2, <2>1, <2>4, InHand DEF TagFollows
  <2>7. a # P /\ data[a] \in Tags => Got(q) < M(a)
    <3> SUFFICES ASSUME a # P, data[a] \in Tags PROVE Got(q) < M(a)
      OBVIOUS
    <3>1. M(w) < M(a) /\ Got(q) < M(w)
      BY <2>5 DEF NextIsNewer, Reading
    <3>2. M(a) \in Nat
      BY <2>6, MessageAt DEF CInv
    <3> QED BY <1>2, <2>6, <3>1, <3>2
  <2>8. a > P => NewerThanFront(Got(q))
    <3>1. a > P => w > P \/ w = P
      BY <1>2, <2>6
    <3> QED BY <1>2, <1>5, <2>4, <3>1 DEF DeliveryAt, InFlight
  <2> QED BY <1>2, <1>4, <1>5, <2>3, <2>7, <2>8, AtRest
<1> QED BY <1>7, <1>8

LEMMA AdvanceDelivers ==
  ASSUME Types, Layout, ReaderInv, CInv, NEW q \in Readers, Advance(q), Attached(q)'
  PROVE  Delivery(q)'
<1>1. PICK w, a : w = At0(q).pos /\ a = After(q)
  OBVIOUS
<1>2. /\ UNCHANGED <<write_pointer, data, writer>>
      /\ reader \in [Readers -> Registers] /\ RegistersOK(reader[q]) /\ Id(q)' = Id(q) /\ Id(q) # -1
      /\ OnTheTrack(q) /\ DeliveryAt(q, w) /\ w \in 0..(Size - 1) /\ P \in 0..(Size - 1)
  BY <1>1, InCall
<1>3. UNCHANGED got /\ reader[q].pc = "advance" /\ reader[q].rp = At0(q)
  BY <1>2 DEF Advance, MoveReadPointer, OnTheTrack, InFlight
<1>4. reader'[q].pc = "checkCopy" /\ reader'[q].buf = reader[q].buf
  BY <1>2, Updates, Registered DEF Advance, Goes
<1>5. At0(q)'.pos = a
  <2>1. Id(q) \in Slots /\ read_pointers \in [Slots -> Positions]
    BY <1>2, Places
  <2>2. At0(q)' = At(At0(q).cycles, a)
    BY <1>1, <1>2, <1>3, <2>1 DEF Advance, MoveReadPointer, At0
  <2> QED BY <2>2 DEF At
<1>6. reader[q].size \in Tags /\ reader[q].buf \in Seq(Words)
  BY <1>2, <1>3 DEF RegistersOK, Registers
<1>7. /\ Reading(q, w) /\ NextIsNewer(w, a)
      /\ Len(reader[q].buf) = MsgSize[M(w)] /\ CopiedOut(q, w)
  BY <1>1, <1>2, <1>3, <1>6 DEF DeliveryAt, TagFollows
<1>8. /\ M(w) \in Msgs /\ M(w) \in Nat /\ MsgSize[M(w)] \in Nat \ {0}
      /\ w < P => a <= P
      /\ a \in 0..(Size - 1)
  BY <1>1, <1>2, <1>3, <1>6, InHand DEF TagFollows
<1>9. reader[q].buf = [k \in 1..MsgSize[M(w)] |-> Unit(M(w), k)]
  BY <1>6, <1>7 DEF CopiedOut
<1>10. Whole(reader[q].buf) /\ reader[q].buf[1].msg = M(w)
  <2>1. 1 \in 1..MsgSize[M(w)]
    BY <1>8
  <2>2. reader[q].buf[1] = Unit(M(w), 1)
    BY <1>9, <2>1
  <2> QED BY <1>8, <1>9, <2>2 DEF Whole, Unit
<1>11. Newer(reader[q].buf, got[q])
  BY <1>7, <1>10 DEF Newer, Reading, Got
<1>12. Last(q)' = M(w) /\ M(w) <= Published /\ P' = P /\ Published' = Published /\ data' = data /\ M(a)' = M(a)
  BY <1>2, <1>4, <1>7, <1>10, RingStays DEF Last, Reading
<1>13. a # P /\ data[a] \in Tags => M(w) < M(a)
  BY <1>7 DEF NextIsNewer
<1>14. a > P => NewerThanFront(Last(q))'
  <2>1. a > P => w >= P
    BY <1>2, <1>8
  <2>2. a > P => NewerThanFront(M(w))
    BY <1>7, <2>1 DEF Reading
  <2> QED BY <1>12, <1>2, <2>2, RingStays DEF NewerThanFront
<1>15. DeliveryAt(q, a)'
  BY <1>3, <1>4, <1>10, <1>11, <1>12, <1>13, <1>14 DEF DeliveryAt, InFlight, TagFollows
<1> QED BY <1>5, <1>15 DEF Delivery

\* A call starts with an empty buffer.
LEMMA BufferKept ==
  ASSUME Types, NEW q \in Readers, Reader(q), Empty(q)
  PROVE  Empty(q)'
<1>0. reader \in [Readers -> Registers]
  BY DEF Types, ReaderTypes
<1>1. CASE LoadNumReaders(q) \/ Evict(q) \/ WipeUid(q) \/ Claim(q)
  <2>1. \/ \E pc \in {"wipe", "claim", "wipeValid", "subscribe", "newValid"} : \E id, cur, i :
             Becomes(q, Regs(q, pc, id, cur, i))
        \/ Becomes(q, Goes(q, "subscribe"))
    BY <1>0, <1>1, SubscriberMoves
  <2>2. \A pc, id, cur, i : Regs(q, pc, id, cur, i).pc = pc
    BY DEF Regs
  <2>3. reader'[q].pc \in {"wipe", "claim", "wipeValid", "subscribe", "newValid"}
    BY <2>1, <2>2, Registered DEF Becomes, Goes
  <2> QED BY <2>3 DEF Empty
<1>2. CASE WipeValid(q) \/ NewValid(q) \/ NewPointer(q) \/ NewUid(q) \/ SetValid(q) \/ Advance(q)
  <2>1. \E pc \in {"wipeUid", "newPointer", "newUid", "setValid", "loadPointer", "checkCopy"} :
          Becomes(q, Goes(q, pc))
    BY <1>0, <1>2, Updates DEF WipeValid, NewValid, NewPointer, NewUid, SetValid, Advance
  <2>2. reader'[q].pc \in {"wipeUid", "newPointer", "newUid", "setValid", "loadPointer", "checkCopy"}
    BY <2>1, Registered DEF Goes
  <2> QED BY <2>2 DEF Empty
<1>3. CASE LoadPointer(q)
  <2>1. reader'[q].pc = "storePointer"
    BY <1>0, <1>3, ReceiverMoves, Registered
  <2> QED BY <2>1 DEF Empty
<1>4. CASE CopyOut(q)
  <2>1. \E pc \in {"advance", "copy"} : reader'[q].pc = pc
    BY <1>0, <1>4, ReceiverMoves, Registered
  <2> QED BY <2>1 DEF Empty
<1>5. CASE StorePointer(q) \/ WrapAround(q) \/ Skip(q) \/ CheckCopy(q)
  <2>1. \E pc : Becomes(q, Fresh(q, pc))
    BY <1>0, <1>5, Updates DEF StorePointer, WrapAround, Skip, CheckCopy
  <2> QED BY <2>1, Restarted DEF Empty
<1>6. ASSUME reader[q].pc \in {"start", "checkValid", "loadRead", "loadWrite", "loadSize", "checkSize"},
             reader'[q].buf \in {reader[q].buf, <<>>}
      PROVE  Empty(q)'
  BY <1>6 DEF Empty
<1>7. CASE CheckUid(q) \/ CheckValid(q) \/ CheckSize(q)
  <2>1. \E pc : Becomes(q, Goes(q, pc)) \/ Becomes(q, Fresh(q, pc))
    BY <1>0, <1>7, Updates DEF CheckUid, CheckValid, CheckSize
  <2>2. reader'[q].buf \in {reader[q].buf, <<>>}
    BY <2>1, Registered, Restarted DEF Goes
  <2> QED BY <1>6, <1>7, <2>2 DEF CheckUid, CheckValid, CheckSize
<1>8. CASE LoadRead(q) \/ LoadSize(q)
  <2>1. reader'[q].buf = reader[q].buf
    BY <1>0, <1>8, ReceiverMoves, Registered
  <2> QED BY <1>6, <1>8, <2>1 DEF LoadRead, LoadSize
<1>9. CASE LoadWrite(q)
  <2>1. CASE reader[q].rp.pos = write_pointer.pos
    BY <1>0, <1>6, <1>9, <2>1, ReceiverMoves, Restarted DEF LoadWrite
  <2>2. CASE reader[q].rp.pos # write_pointer.pos
    <3>1. reader'[q].buf = reader[q].buf
      BY <1>0, <1>9, <2>2, ReceiverMoves, Registered
    <3> QED BY <1>6, <1>9, <3>1 DEF LoadWrite
  <2> QED BY <2>1, <2>2
<1> QED BY <1>1, <1>2, <1>3, <1>4, <1>5, <1>7, <1>8, <1>9 DEF Reader

LEMMA ReaderKeepsGot ==
  ASSUME Types, Layout, CInv, NEW q \in Readers, Reader(q)
  PROVE  GotInv'
<1>1. UNCHANGED <<write_pointer, data, writer>> /\ GotInv
  BY ReaderShared DEF Layout, CInv
<1>2. Published' = Published /\ 0 <= Published /\ <<>> \in Seq(Words)
  BY <1>1, RingStays, Numbers
<1>3. ASSUME UNCHANGED got PROVE GotInv'
  BY <1>1, <1>2, <1>3 DEF GotInv, Got
<1>4. ASSUME NEW buf \in Seq(Words), got' = [got EXCEPT ![q] = buf],
             buf # <<>> => buf[1].msg \in Nat /\ buf[1].msg <= Published
      PROVE  GotInv'
  <2>1. got' \in [Readers -> Seq(Words)]
    BY <1>1, <1>4 DEF GotInv
  <2>2. ASSUME NEW r \in Readers PROVE Got(r)' \in Nat /\ Got(r)' <= Published
    <3>1. CASE r = q
      BY <1>1, <1>2, <1>4, <3>1 DEF GotInv, Got
    <3>2. CASE r # q
      BY <1>1, <1>4, <3>2 DEF GotInv, Got
    <3> QED BY <3>1, <3>2
  <2> QED BY <1>2, <2>1, <2>2 DEF GotInv
<1>5. CASE CheckCopy(q) /\ read_valids[Id(q)]
  <2>1. reader[q].buf \in Seq(Words) /\ reader[q].pc = "checkCopy" /\ Id(q) # -1
    BY <1>5 DEF CheckCopy, Types, ReaderTypes, RegistersOK, Registers, Subscribing, Id
  <2>2. CASE Clean(q)
    <3>1. Attached(q)
      BY <1>5, <2>1, <2>2 DEF Attached
    <3>2. PICK w : DeliveryAt(q, w)
      BY <3>1 DEF CInv, DeliveryInv, Delivery
    <3>3. reader[q].buf[1].msg \in Nat /\ reader[q].buf[1].msg <= Published
      BY <2>1, <3>2, WholeIs DEF DeliveryAt, Last
    <3>4. got' = [got EXCEPT ![q] = reader[q].buf]
      BY <1>5, <2>2 DEF CheckCopy
    <3> QED BY <1>4, <2>1, <3>3, <3>4
  <2>3. CASE ~Clean(q)
    <3>1. got' = [got EXCEPT ![q] = <<>>]
      BY <1>5, <2>3 DEF CheckCopy
    <3> QED BY <1>2, <1>4, <3>1
  <2> QED BY <2>2, <2>3
<1>6. CASE CheckCopy(q) /\ ~read_valids[Id(q)]
  BY <1>3, <1>6 DEF CheckCopy
<1>7. CASE ~CheckCopy(q)
  BY <1>3, <1>7, GotStays
<1> QED BY <1>5, <1>6, <1>7

LEMMA ReaderKeepsDelivery ==
  ASSUME Types, Layout, ReaderInv, CInv, NEW q \in Readers, Reader(q)
  PROVE  CInv'
<1>1. Ordered' /\ CopiedIn'
  BY ReaderKeepsContents DEF CInv
<1>2. GotInv'
  BY ReaderKeepsGot
<1>3. Empty(q)'
  BY BufferKept DEF CInv, DeliveryInv
<1>4. ASSUME Attached(q)' PROVE Delivery(q)'
  <2>0. reader \in [Readers -> Registers]
    BY DEF Types, ReaderTypes
  <2>1. CASE LoadNumReaders(q) \/ Evict(q) \/ WipeUid(q) \/ Claim(q)
    <3>1. \/ \E pc \in {"wipe", "claim", "wipeValid", "subscribe", "newValid"} : \E id, cur, i :
               Becomes(q, Regs(q, pc, id, cur, i))
          \/ Becomes(q, Goes(q, "subscribe"))
      BY <2>0, <2>1, SubscriberMoves
    <3>2. \A pc, id, cur, i : Regs(q, pc, id, cur, i).pc = pc
      BY DEF Regs
    <3>3. reader'[q].pc \in {"wipe", "claim", "wipeValid", "subscribe", "newValid"}
      BY <3>1, <3>2, Registered DEF Becomes, Goes
    <3> QED BY <1>4, <3>3 DEF Attached
  <2>2. CASE WipeValid(q) \/ NewValid(q) \/ NewPointer(q) \/ NewUid(q) \/ SetValid(q)
    <3>1. \E pc \in {"wipeUid", "newPointer", "newUid", "setValid", "loadPointer"} : Becomes(q, Goes(q, pc))
      BY <2>0, <2>2, Updates DEF WipeValid, NewValid, NewPointer, NewUid, SetValid
    <3>2. reader'[q].pc \in {"wipeUid", "newPointer", "newUid", "setValid", "loadPointer"}
      BY <3>1, Registered DEF Goes
    <3> QED BY <1>4, <3>2 DEF Attached
  <2>3. CASE LoadPointer(q)
    <3>1. reader'[q].pc = "storePointer"
      BY <2>0, <2>3, ReceiverMoves, Registered
    <3> QED BY <1>4, <3>1 DEF Attached
  <2>4. CASE StorePointer(q)
    BY <1>4, <2>4, ResetDelivers
  <2>5. CASE CheckUid(q) \/ CheckValid(q) \/ LoadRead(q) \/ LoadWrite(q)
    BY <1>4, <2>5, LookingDelivers
  <2>6. CASE LoadSize(q)
    BY <1>4, <2>6, LoadSizeDelivers
  <2>7. CASE CheckSize(q)
    BY <1>4, <2>7, CheckSizeDelivers
  <2>8. CASE CopyOut(q)
    BY <1>4, <2>8, CopyOutDelivers
  <2>9. CASE CheckCopy(q)
    BY <1>4, <2>9, CheckCopyDelivers
  <2>10. CASE WrapAround(q) \/ Skip(q)
    BY <1>4, <2>10, RestartDelivers
  <2>11. CASE Advance(q)
    BY <1>4, <2>11, AdvanceDelivers
  <2> QED BY <2>1, <2>2, <2>3, <2>4, <2>5, <2>6, <2>7, <2>8, <2>9, <2>10, <2>11 DEF Reader
<1>5. DeliveryInv'
  BY <1>3, <1>4, OthersDeliver DEF DeliveryInv
<1> QED BY <1>1, <1>2, <1>5 DEF CInv

-----------------------------------------------------------------------------
(* The theorem on what is delivered                                        *)

LEMMA InitContents == Init => CInv
<1> SUFFICES ASSUME Init PROVE CInv
  OBVIOUS
<1>1. writer.pc = "idle" /\ writer.msg = 0 /\ \A w \in 0..(Size - 1) : data[w] = Nothing
  BY DEF Init, WriterIdle
<1>2. Ordered /\ CopiedIn
  BY <1>1, TagWords DEF Ordered, CopiedIn
<1>3. \A r \in Readers : reader[r].pc = "off" /\ reader[r].id = -1 /\ got[r] = <<>>
  BY DEF Init, ReaderOff
<1>4. GotInv
  <2>1. Published = 0
    BY <1>1 DEF Published, Wrapping, Writing
  <2> QED BY <1>3, <2>1 DEF GotInv, Got, Init
<1>5. DeliveryInv
  BY <1>3 DEF DeliveryInv, Empty, Attached, Id
<1> QED BY <1>2, <1>4, <1>5 DEF CInv

LEMMA NextContents == IInv /\ CInv /\ [Next]_vars => CInv'
<1> SUFFICES ASSUME IInv, CInv, [Next]_vars PROVE CInv'
  OBVIOUS
<1>0. Types /\ Layout /\ ReaderInv
  BY DEF IInv, Types, Layout
<1>1. CASE Publishing
  BY <1>0, <1>1, WriterKeepsContents, WriterKeepsDelivery DEF CInv
<1>2. ASSUME NEW r \in Readers, Reader(r) PROVE CInv'
  BY <1>0, <1>2, ReaderKeepsDelivery
<1>3. CASE UNCHANGED vars
  <2>1. UNCHANGED <<data, write_pointer, writer, reader, read_pointers, read_valids, got, disturbed, evicted>>
    BY <1>3 DEF vars, header, slots, history
  <2>2. Published' = Published /\ Published \in Nat
    BY <1>0, <2>1, RingStays, Numbers
  <2>3. Ordered' /\ CopiedIn'
    BY <1>0, <2>1, <2>2, OrderStays DEF CInv, CopiedIn, P
  <2>4. GotInv'
    BY <2>1, <2>2 DEF CInv, GotInv, Got
  <2>5. ASSUME NEW r \in Readers PROVE Empty(r)' /\ (Attached(r)' => Delivery(r)')
    <3>1. Empty(r)'
      BY <2>1 DEF CInv, DeliveryInv, Empty
    <3>2. ASSUME Attached(r)' PROVE Delivery(r)'
      <4>1. PICK w : w = At0(r).pos
        OBVIOUS
      <4>2. Attached(r)
        BY <2>1, <3>2 DEF Attached, Clean, Id
      <4>3. DeliveryAt(r, w)
        BY <4>1, <4>2 DEF CInv, DeliveryInv, Delivery
      <4>4. DeliveryAt(r, w)'
        BY <2>1, <4>3, SameDelivery
      <4>5. At0(r)'.pos = w
        BY <2>1, <4>1 DEF At0, Id
      <4> QED BY <4>4, <4>5 DEF Delivery
    <3> QED BY <3>1, <3>2
  <2> QED BY <2>3, <2>4, <2>5 DEF CInv, DeliveryInv
<1> QED BY <1>1, <1>2, <1>3 DEF Next, Publishing

\* A reader that no reset race and no shared slot has disturbed returns messages as
\* they were sent, each newer than the one before, for every ring, every sequence of
\* messages and any number of readers, however often the publisher laps them.
THEOREM InOrder == Spec => DeliversInOrder
<1> DEFINE Returns(r) == Clean(r) /\ reader[r].pc = "checkCopy" /\ reader'[r].pc = "start"
           Good(r) == Whole(reader[r].buf) /\ Newer(reader[r].buf, got[r])
<1>1. Spec => [](IInv /\ CInv)
  BY InitInv, NextInv, InitContents, NextContents, PTL DEF Spec
<1>2. IInv /\ CInv /\ [Next]_vars => [\A r \in Readers : Returns(r) => Good(r)]_vars
  <2> SUFFICES ASSUME IInv, CInv, Next, NEW r \in Readers, Returns(r) PROVE Good(r)
    OBVIOUS
  <2>0. Types /\ Layout /\ ReaderTypes
    BY DEF IInv, Types, Layout
  <2>1. reader'[r] # reader[r]
    OBVIOUS
  <2>2. Reader(r)
    <3>1. ~Publishing
      BY <2>0, <2>1, PublisherKeepsTypes
    <3>2. \A q \in Readers : Reader(q) => q = r
      BY <2>0, <2>1, OthersAlone
    <3> QED BY <3>1, <3>2 DEF Next, Publishing
  <2>3. CheckCopy(r)
    BY <2>2 DEF Reader, LoadNumReaders, Evict, WipeValid, WipeUid, Claim, NewValid, NewPointer, NewUid, SetValid,
     LoadPointer, StorePointer, CheckUid, CheckValid, LoadRead, LoadWrite, LoadSize, CheckSize, WrapAround, Skip,
     CopyOut, Advance
  <2>4. Id(r) # -1
    BY <2>0 DEF ReaderTypes, RegistersOK, Subscribing, Id
  <2>5. read_valids[Id(r)]
    <3>1. CASE ~read_valids[Id(r)]
      <4>1. reader'[r].pc = "setValid"
        BY <2>0, <2>3, <3>1, Updates, Restarted DEF CheckCopy, ReaderTypes
      <4> QED BY <4>1
    <3> QED BY <3>1
  <2>6. Attached(r)
    BY <2>4, <2>5 DEF Attached
  <2>7. DeliveryAt(r, At0(r).pos)
    BY <2>6 DEF CInv, DeliveryInv, Delivery
  <2> QED BY <2>7 DEF DeliveryAt
<1> QED BY <1>1, <1>2, PTL DEF Spec, DeliversInOrder

=============================================================================
