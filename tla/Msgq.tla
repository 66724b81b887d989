-------------------------------- MODULE Msgq --------------------------------
(***************************************************************************)
(* The shared memory queue between the processes (cereal/messaging/msgq.cc)*)
(* One action per access to the shared segment.  A publisher never waits:  *)
(* it laps its readers, and clears the valid flag of those whose next      *)
(* message it is about to overwrite.  Lengths are counted in words of 8    *)
(* bytes, the alignment of the queue and the size of a size tag.           *)
(***************************************************************************)
EXTENDS Integers, Sequences, FiniteSets

CONSTANTS
  Publishers,    \* processes that open the queue for writing, one after the other
  Readers,       \* processes that subscribe
  Conflating,    \* the readers that want only the latest message
  NUM_READERS,   \* slots for readers in the header: 10
  Size,          \* words in the ring: 10 MiB / 8
  MsgSize,       \* words of payload of each message: bounds how many are sent
  NoOne

ASSUME MsgqAssumption ==
  /\ NUM_READERS \in Nat \ {0} /\ Size \in Nat \ {0} /\ Conflating \subseteq Readers
  /\ MsgSize \in Seq(Nat \ {0})
  /\ NoOne \notin Publishers \cup Readers
  /\ \A m \in DOMAIN MsgSize : 3 * (MsgSize[m] + 1) <= Size

VARIABLES
  num_readers, write_pointer, write_uid,            \* the header
  read_pointers, read_valids, read_uids,            \* its slots
  data,                                             \* the ring
  writer,        \* the send or initialisation in progress: program counter and registers
  started,       \* publishers that have opened the queue
  reader,        \* each reader's program counter and registers
  got,           \* history: the message each reader returned last
  disturbed,     \* history: readers whose last reset a publication ran into, or whose
                 \*          slot another reader has written since
  evicted        \* history: readers whose slot was taken away after they asked for it

header == <<num_readers, write_pointer, write_uid>>
slots == <<read_pointers, read_valids, read_uids>>
history == <<got, disturbed, evicted>>
vars == <<header, slots, data, writer, started, reader, history>>

Slots == 0..(NUM_READERS - 1)
Msgs == DOMAIN MsgSize

\* A pointer counts laps in its upper half; PACK64 and UNPACK64 move both at once.
At(cycles, pos) == [cycles |-> cycles, pos |-> pos]

\* What a word of the ring holds.
Nothing == [is |-> "nothing"]
Wrap == [is |-> "wrap"]
Tag(m) == [is |-> "tag", size |-> MsgSize[m]]
Unit(m, k) == [is |-> "unit", msg |-> m, index |-> k]

WriterIdle == [pc |-> "idle", msg |-> 0, n |-> 0, i |-> 0, at |-> At(0, 0), k |-> 0]
ReaderOff == [pc |-> "off", id |-> -1, cur |-> 0, i |-> 0, rp |-> At(0, 0), wp |-> At(0, 0),
              size |-> Nothing, buf |-> <<>>]

Init ==
  /\ num_readers = 0 /\ write_pointer = At(0, 0) /\ write_uid = NoOne
  /\ read_pointers = [i \in Slots |-> At(0, 0)]
  /\ read_valids = [i \in Slots |-> FALSE]
  /\ read_uids = [i \in Slots |-> NoOne]
  /\ data = [w \in 0..(Size - 1) |-> Nothing]
  /\ writer = WriterIdle /\ started = {}
  /\ reader = [r \in Readers |-> ReaderOff]
  /\ got = [r \in Readers |-> <<>>]
  /\ disturbed = {} /\ evicted = {}

Clean(r) == r \notin disturbed /\ r \notin evicted

\* num_readers becomes 0: whoever holds a slot, or is about to write one, loses it.
WipeSlots ==
  /\ num_readers' = 0
  /\ evicted' = evicted \cup {r \in Readers : reader[r].id # -1}

-----------------------------------------------------------------------------
(* The publisher                                                           *)

\* msgq_init_publisher.  A send that another publisher had begun stays where it
\* was: that process is gone (two publishers never send at once).
Start(p) ==
  /\ p \notin started /\ started' = started \cup {p}
  /\ write_uid' = p /\ WipeSlots
  /\ writer' = [writer EXCEPT !.pc = "clearValid", !.i = 0]
  /\ UNCHANGED <<write_pointer, slots, data, reader, got, disturbed>>

ClearValid ==
  /\ writer.pc = "clearValid"
  /\ read_valids' = [read_valids EXCEPT ![writer.i] = FALSE]
  /\ writer' = [writer EXCEPT !.pc = "clearUid"]
  /\ UNCHANGED <<header, read_pointers, read_uids, data, started, reader, history>>

ClearUid ==
  /\ writer.pc = "clearUid"
  /\ read_uids' = [read_uids EXCEPT ![writer.i] = NoOne]
  /\ writer' = IF writer.i + 1 < NUM_READERS
               THEN [writer EXCEPT !.pc = "clearValid", !.i = @ + 1]
               ELSE [writer EXCEPT !.pc = "idle", !.i = 0]
  /\ UNCHANGED <<header, read_pointers, read_valids, data, started, reader, history>>

\* Words a message takes with its size tag.
Total(m) == MsgSize[m] + 1

\* Room is left for the tag of the next wrap around.
Fits(m, pos) == Size - pos - Total(m) - 1 > 0

\* msgq_msg_send, up to its first access to the ring.  Only the active publisher
\* sends; the number of readers is read once.
Send(p) ==
  /\ writer.pc = "idle" /\ p \in started /\ p = write_uid
  /\ writer.msg + 1 \in Msgs
  /\ writer' = [pc |-> IF Fits(writer.msg + 1, write_pointer.pos) THEN "check" ELSE "wrapTag",
                msg |-> writer.msg + 1, n |-> num_readers, i |-> 0,
                at |-> write_pointer, k |-> 0]
  /\ UNCHANGED <<header, slots, data, started, reader, history>>

WrapTag ==
  /\ writer.pc = "wrapTag"
  /\ data' = [data EXCEPT ![writer.at.pos] = Wrap]
  /\ writer' = [writer EXCEPT !.pc = "wrapCheck"]
  /\ UNCHANGED <<header, slots, started, reader, history>>

\* A reader that is still behind the end of the ring loses what it has not read.
BeyondWriter(rp) == rp.pos > writer.at.pos /\ rp.cycles # writer.at.cycles

\* Mutant: the reader whose next message starts where the writer does is forgotten.
InTheWayAfter(rp) ==
  /\ rp.pos > writer.at.pos /\ rp.pos < writer.at.pos + Total(writer.msg)
  /\ rp.cycles # writer.at.cycles

\* A reader whose next message is about to be overwritten.
InTheWay(rp) ==
  /\ rp.pos >= writer.at.pos /\ rp.pos < writer.at.pos + Total(writer.msg)
  /\ rp.cycles # writer.at.cycles

\* One turn of either loop over the readers: the pointer is read in one step, the
\* flag cleared in the next.
CheckReader(pc, hit, invalidate, done) ==
  /\ writer.pc = pc
  /\ writer' = IF writer.i = writer.n THEN [writer EXCEPT !.pc = done, !.i = 0]
               ELSE IF hit THEN [writer EXCEPT !.pc = invalidate]
               ELSE [writer EXCEPT !.i = @ + 1]
  /\ UNCHANGED <<header, slots, data, started, reader, history>>

Invalidate(pc, loop) ==
  /\ writer.pc = pc
  /\ read_valids' = [read_valids EXCEPT ![writer.i] = FALSE]
  /\ writer' = [writer EXCEPT !.pc = loop, !.i = @ + 1]
  /\ UNCHANGED <<header, read_pointers, read_uids, data, started, reader, history>>

WrapCheck == CheckReader("wrapCheck", BeyondWriter(read_pointers[writer.i]), "wrapInvalidate", "wrapPtr")
WrapInvalidate == Invalidate("wrapInvalidate", "wrapCheck")
AreaCheck == CheckReader("check", InTheWay(read_pointers[writer.i]), "invalidate", "tag")
AreaInvalidate == Invalidate("invalidate", "check")

\* The write pointer moves: a reader between the two halves of a reset holds an old one.
MoveWritePointer(at) ==
  /\ write_pointer' = at
  /\ disturbed' = disturbed \cup {r \in Readers : reader[r].pc = "storePointer"}

WrapPtr ==
  /\ writer.pc = "wrapPtr"
  /\ MoveWritePointer(At(writer.at.cycles + 1, 0))
  /\ writer' = [writer EXCEPT !.pc = "check", !.at = At(@.cycles + 1, 0)]
  /\ UNCHANGED <<num_readers, write_uid, slots, data, started, reader, got, evicted>>

WriteTag ==
  /\ writer.pc = "tag"
  /\ data' = [data EXCEPT ![writer.at.pos] = Tag(writer.msg)]
  /\ writer' = [writer EXCEPT !.pc = "copy", !.k = 1]
  /\ UNCHANGED <<header, slots, started, reader, history>>

CopyIn ==
  /\ writer.pc = "copy"
  /\ data' = [data EXCEPT ![writer.at.pos + writer.k] = Unit(writer.msg, writer.k)]
  /\ writer' = IF writer.k = MsgSize[writer.msg] THEN [writer EXCEPT !.pc = "publish", !.k = 0]
               ELSE [writer EXCEPT !.k = @ + 1]
  /\ UNCHANGED <<header, slots, started, reader, history>>

Publish ==
  /\ writer.pc = "publish"
  /\ MoveWritePointer(At(writer.at.cycles, writer.at.pos + Total(writer.msg)))
  /\ writer' = [WriterIdle EXCEPT !.msg = writer.msg]
  /\ UNCHANGED <<num_readers, write_uid, slots, data, started, reader, got, evicted>>

-----------------------------------------------------------------------------
(* Readers                                                                 *)

Id(r) == reader[r].id
Go(r, pc) == reader' = [reader EXCEPT ![r].pc = pc]

\* The registers of a call are dead when it starts again.
Restart(r, pc) == reader' = [reader EXCEPT ![r] = [ReaderOff EXCEPT !.pc = pc, !.id = Id(r)]]

OnlyReader == UNCHANGED <<header, slots, data, writer, started, history>>

\* A reader that writes its slot disturbs whoever claimed the same slot.
Disturb(r) == disturbed' = disturbed \cup {q \in Readers \ {r} : Id(q) = Id(r)}

\* Mutant: one reader more than there are slots.
LoadNumReadersOneMore(r) ==
  /\ reader[r].pc \in {"off", "subscribe"}
  /\ reader' = [reader EXCEPT ![r].cur = num_readers,
                 ![r].pc = IF num_readers > NUM_READERS THEN "wipe" ELSE "claim"]
  /\ OnlyReader

\* msgq_init_subscriber, also reached by a reader that finds itself evicted.
LoadNumReaders(r) ==
  /\ reader[r].pc \in {"off", "subscribe"}
  /\ reader' = [reader EXCEPT ![r].cur = num_readers,
                 ![r].pc = IF num_readers + 1 > NUM_READERS THEN "wipe" ELSE "claim"]
  /\ OnlyReader

\* No slot is free: every subscriber is evicted, one slot after the other.
Evict(r) ==
  /\ reader[r].pc = "wipe" /\ WipeSlots
  /\ reader' = [reader EXCEPT ![r].pc = "wipeValid", ![r].i = 0]
  /\ UNCHANGED <<write_pointer, write_uid, slots, data, writer, started, got, disturbed>>

WipeValid(r) ==
  /\ reader[r].pc = "wipeValid" /\ Go(r, "wipeUid")
  /\ read_valids' = [read_valids EXCEPT ![reader[r].i] = FALSE]
  /\ UNCHANGED <<header, read_pointers, read_uids, data, writer, started, history>>

WipeUid(r) ==
  /\ reader[r].pc = "wipeUid"
  /\ read_uids' = [read_uids EXCEPT ![reader[r].i] = NoOne]
  /\ reader' = IF reader[r].i + 1 < NUM_READERS
               THEN [reader EXCEPT ![r].pc = "wipeValid", ![r].i = @ + 1]
               ELSE [reader EXCEPT ![r].pc = "subscribe", ![r].i = 0]
  /\ UNCHANGED <<header, read_pointers, read_valids, data, writer, started, history>>

\* Compare and swap: claims the slot unless another subscriber came first.
Claim(r) ==
  /\ reader[r].pc = "claim"
  /\ IF num_readers = reader[r].cur
     THEN /\ num_readers' = num_readers + 1 /\ evicted' = evicted \ {r}
          /\ reader' = [reader EXCEPT ![r].id = reader[r].cur, ![r].cur = 0, ![r].pc = "newValid"]
     ELSE Go(r, "subscribe") /\ UNCHANGED <<num_readers, evicted>>
  /\ UNCHANGED <<write_pointer, write_uid, slots, data, writer, started, got, disturbed>>

NewValid(r) ==
  /\ reader[r].pc = "newValid" /\ Go(r, "newPointer")
  /\ read_valids' = [read_valids EXCEPT ![Id(r)] = FALSE]
  /\ UNCHANGED <<header, read_pointers, read_uids, data, writer, started, history>>

NewPointer(r) ==
  /\ reader[r].pc = "newPointer" /\ Go(r, "newUid")
  /\ read_pointers' = [read_pointers EXCEPT ![Id(r)] = At(0, 0)] /\ Disturb(r)
  /\ UNCHANGED <<header, read_valids, read_uids, data, writer, started, got, evicted>>

NewUid(r) ==
  /\ reader[r].pc = "newUid" /\ Go(r, "setValid")
  /\ read_uids' = [read_uids EXCEPT ![Id(r)] = r]
  /\ UNCHANGED <<header, read_pointers, read_valids, data, writer, started, history>>

\* msgq_reset_reader: valid first, then a load of the write pointer, then its store.
SetValid(r) ==
  /\ reader[r].pc = "setValid" /\ Go(r, "loadPointer")
  /\ read_valids' = [read_valids EXCEPT ![Id(r)] = TRUE] /\ Disturb(r)
  /\ UNCHANGED <<header, read_pointers, read_uids, data, writer, started, got, evicted>>

LoadPointer(r) ==
  /\ reader[r].pc = "loadPointer"
  /\ reader' = [reader EXCEPT ![r].pc = "storePointer", ![r].wp = write_pointer]
  /\ disturbed' = disturbed \ {r}
  /\ UNCHANGED <<header, slots, data, writer, started, got, evicted>>

StorePointer(r) ==
  /\ reader[r].pc = "storePointer" /\ Restart(r, "start")
  /\ read_pointers' = [read_pointers EXCEPT ![Id(r)] = reader[r].wp] /\ Disturb(r)
  /\ UNCHANGED <<header, read_valids, read_uids, data, writer, started, got, evicted>>

\* msgq_msg_recv.  msgq_msg_ready is its first half, up to LoadPointers.
CheckUid(r) ==
  /\ reader[r].pc = "start"
  /\ Go(r, IF read_uids[Id(r)] # r THEN "subscribe" ELSE "checkValid")
  /\ OnlyReader

CheckValid(r) ==
  /\ reader[r].pc = "checkValid"
  /\ Go(r, IF read_valids[Id(r)] THEN "loadRead" ELSE "setValid")
  /\ OnlyReader

LoadRead(r) ==
  /\ reader[r].pc = "loadRead"
  /\ reader' = [reader EXCEPT ![r].pc = "loadWrite", ![r].rp = read_pointers[Id(r)]]
  /\ OnlyReader

\* Equal positions mean no message, whatever the laps.
LoadWrite(r) ==
  /\ reader[r].pc = "loadWrite"
  /\ IF reader[r].rp.pos = write_pointer.pos THEN Restart(r, "start")
     ELSE reader' = [reader EXCEPT ![r].pc = "loadSize", ![r].wp = write_pointer]
  /\ OnlyReader

LoadSize(r) ==
  /\ reader[r].pc = "loadSize"
  /\ reader' = [reader EXCEPT ![r].pc = "checkSize", ![r].size = data[reader[r].rp.pos]]
  /\ OnlyReader

\* Where the next message starts.
After(r) == reader[r].rp.pos + reader[r].size.size + 1
Skips(r) == r \in Conflating /\ After(r) # reader[r].wp.pos

\* The size counts only if the reader is still valid after reading it; one that is
\* no size fails an assertion, and the process dies.
CheckSize(r) ==
  /\ reader[r].pc = "checkSize"
  /\ IF ~read_valids[Id(r)] THEN Restart(r, "setValid")
     ELSE Go(r, CASE reader[r].size = Wrap -> "wrap"
                  [] reader[r].size.is = "tag" -> IF Skips(r) THEN "skip" ELSE "copy"
                  [] OTHER -> "dead")
  /\ OnlyReader

MoveReadPointer(r, at) ==
  /\ read_pointers' = [read_pointers EXCEPT ![Id(r)] = at] /\ Disturb(r)
  /\ UNCHANGED <<header, read_valids, read_uids, data, writer, started, got, evicted>>

WrapAround(r) ==
  /\ reader[r].pc = "wrap" /\ Restart(r, "start")
  /\ MoveReadPointer(r, At(reader[r].rp.cycles + 1, 0))

Skip(r) ==
  /\ reader[r].pc = "skip" /\ Restart(r, "start")
  /\ MoveReadPointer(r, At(reader[r].rp.cycles, After(r)))

CopyOut(r) ==
  /\ reader[r].pc = "copy"
  /\ LET k == Len(reader[r].buf) + 1
         w == reader[r].rp.pos + k
     IN reader' = [reader EXCEPT ![r].buf = Append(@, IF w < Size THEN data[w] ELSE Nothing),
                                 ![r].pc = IF k = reader[r].size.size THEN "advance" ELSE "copy"]
  /\ OnlyReader

Advance(r) ==
  /\ reader[r].pc = "advance" /\ Go(r, "checkCopy")
  /\ MoveReadPointer(r, At(reader[r].rp.cycles, After(r)))

\* Mutant: the copy is taken as it is.
CheckCopyNever(r) ==
  /\ reader[r].pc = "checkCopy" /\ Restart(r, "start")
  /\ got' = [got EXCEPT ![r] = IF Clean(r) THEN reader[r].buf ELSE <<>>]
  /\ UNCHANGED <<header, slots, data, writer, started, disturbed, evicted>>

\* The copy counts only if the reader is still valid after making it.
CheckCopy(r) ==
  /\ reader[r].pc = "checkCopy"
  /\ IF read_valids[Id(r)]
     THEN Restart(r, "start") /\ got' = [got EXCEPT ![r] = IF Clean(r) THEN reader[r].buf ELSE <<>>]
     ELSE Restart(r, "setValid") /\ UNCHANGED got
  /\ UNCHANGED <<header, slots, data, writer, started, disturbed, evicted>>

-----------------------------------------------------------------------------

Writer ==
  \/ ClearValid \/ ClearUid \/ WrapTag \/ WrapCheck \/ WrapInvalidate \/ WrapPtr
  \/ AreaCheck \/ AreaInvalidate \/ WriteTag \/ CopyIn \/ Publish

Reader(r) ==
  \/ LoadNumReaders(r) \/ Evict(r) \/ WipeValid(r) \/ WipeUid(r) \/ Claim(r)
  \/ NewValid(r) \/ NewPointer(r) \/ NewUid(r) \/ SetValid(r) \/ LoadPointer(r)
  \/ StorePointer(r) \/ CheckUid(r) \/ CheckValid(r) \/ LoadRead(r) \/ LoadWrite(r)
  \/ LoadSize(r) \/ CheckSize(r) \/ WrapAround(r) \/ Skip(r) \/ CopyOut(r) \/ Advance(r)
  \/ CheckCopy(r)

Next ==
  \/ \E p \in Publishers : Start(p) \/ Send(p)
  \/ Writer
  \/ \E r \in Readers : Reader(r)

Spec == Init /\ [][Next]_vars

-----------------------------------------------------------------------------
(* Properties                                                              *)

WriterSteps == {"idle", "clearValid", "clearUid", "wrapTag", "wrapCheck", "wrapInvalidate",
                "wrapPtr", "check", "invalidate", "tag", "copy", "publish"}
ReaderSteps == {"off", "subscribe", "wipe", "wipeValid", "wipeUid", "claim", "newValid",
                "newPointer", "newUid", "setValid", "loadPointer", "storePointer", "start",
                "checkValid", "loadRead", "loadWrite", "loadSize", "checkSize", "wrap", "skip",
                "copy", "advance", "checkCopy", "dead"}
Positions == [cycles : Nat, pos : 0..(Size - 1)]
Tags == {Tag(m) : m \in Msgs}
Words == {Nothing, Wrap} \cup Tags \cup {Unit(m, k) : m \in Msgs, k \in 1..Size}

\* Pointers stay inside the ring, whatever the sizes of the messages and the laps.
TypeOK ==
  /\ num_readers \in 0..NUM_READERS /\ write_uid \in Publishers \cup {NoOne}
  /\ write_pointer \in Positions
  /\ read_pointers \in [Slots -> Positions] /\ read_valids \in [Slots -> BOOLEAN]
  /\ read_uids \in [Slots -> Readers \cup {NoOne}]
  /\ data \in [0..(Size - 1) -> Words]
  /\ writer.pc \in WriterSteps /\ writer.at \in Positions
  /\ \A r \in Readers :
       /\ reader[r].pc \in ReaderSteps /\ reader[r].id \in Slots \cup {-1}
       /\ reader[r].rp \in Positions /\ reader[r].wp \in Positions

\* A reader that still holds its slot, and has read the write pointer since it was
\* last invalid.
Attached(r) ==
  /\ Clean(r) /\ Id(r) # -1 /\ read_valids[Id(r)]
  /\ reader[r].pc \in {"start", "checkValid", "loadRead", "loadWrite", "loadSize", "checkSize",
                       "wrap", "skip", "copy", "advance", "checkCopy"}

\* The valid flag means what the readers take it for: the next message of a valid
\* reader is intact, even while the publisher laps it and writes.  The publisher
\* clears the flag before it touches the message, the reader looks at it after.
ValidMeansIntact ==
  \A r \in Readers : Attached(r) =>
    LET pos == read_pointers[Id(r)].pos
    IN pos = write_pointer.pos \/ data[pos] \in Tags \cup {Wrap}

\* A message as it was sent.
Whole(buf) == \E m \in Msgs : buf = [k \in 1..MsgSize[m] |-> Unit(m, k)]
Newer(buf, last) == last = <<>> \/ last[1].msg < buf[1].msg

\* What recv returns is a message as it was sent and newer than the one before,
\* however often the publisher laps the reader between its reads of the size, of
\* the payload and of the flag.  Exempt are the readers that met a race the code
\* leaves open: a publication between the two halves of a reset, or a slot that was
\* wiped or is shared.
DeliversInOrder ==
  [][\A r \in Readers :
       Clean(r) /\ reader[r].pc = "checkCopy" /\ reader'[r].pc = "start" =>
         Whole(reader[r].buf) /\ Newer(reader[r].buf, got[r])]_vars
=============================================================================
