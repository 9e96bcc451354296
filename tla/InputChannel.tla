---------------------------- MODULE InputChannel ----------------------------
(***************************************************************************)
(* One Arinc input channel: the ring buffer (CircleBuffer) that every word *)
(* taken from the device library goes through, and the read position every *)
(* recipient has in it (IChannelIn).  The library hands out each word of   *)
(* the channel once, to whichever client asks first; the ring is there so  *)
(* that the other recipients get it too.                                   *)
(*                                                                         *)
(* A word is the number of its place in the stream the library delivers    *)
(* for this channel, 1, 2, ...; 0 is a slot that was never written.        *)
(* Everything here happens under _devicesMapMutex, so a call is one step.  *)
(***************************************************************************)
EXTENDS Integers, Sequences, FiniteSets

CONSTANTS
    Reader,     \* client ids
    Size,       \* max_size_in_bytes of the ring: its number of slots
    MaxWords    \* bound on the stream, for model checking

ASSUME SizeAssumption == Size \in Nat \ {0}
ASSUME MaxWordsAssumption == MaxWords \in Nat

VARIABLES
    buffer,     \* _buffer
    tail,       \* _tail, as an index
    cycle,      \* _currentCycle; its 2^32 values are beyond MaxWords
    offsets,    \* _ownersOffsetsMap: iterator_ and ciclesCount_ of every recipient
    total,      \* history: words the library has delivered so far
    position,   \* history: the word up to which a recipient has been served: by
                \* a read from the ring, by registering, or by a reset
    given       \* history: the last word handed to a recipient by any means

ring == <<buffer, tail, cycle>>
vars == <<buffer, tail, cycle, offsets, total, position, given>>

Slot == 0 .. Size - 1
OffsetInfo == [iterator : Slot, cicles : Nat]
NotReceiving == [iterator |-> -1, cicles |-> 0]

IsReceiving(r) == offsets[r] # NotReceiving

Here == [iterator |-> tail, cicles |-> cycle]

Init ==
    /\ buffer = [i \in Slot |-> 0]
    /\ tail = 0
    /\ cycle = 0
    /\ offsets = [r \in Reader |-> NotReceiving]
    /\ total = 0
    /\ position = [r \in Reader |-> 0]
    /\ given = [r \in Reader |-> 0]

-----------------------------------------------------------------------------
(* CircleBuffer.                                                           *)

(* Add(data): one word is stored at the tail, the tail moves on, and when  *)
(* it comes back to the first slot a lap is counted.                       *)
AddOne(slots, word) ==
    LET next == slots.tail + 1
    IN  [buffer |-> [slots.buffer EXCEPT ![slots.tail] = word],
         tail   |-> IF next = Size THEN 0 ELSE next,
         cycle  |-> IF next = Size THEN slots.cycle + 1 ELSE slots.cycle]

(* Add(data, count): the words total + 1, ..., total + n are stored one    *)
(* after the other from the tail on; a slot keeps the last word put there. *)
LastInto(i, n) ==
    LET hits == {k \in 1 .. n : (tail + k - 1) % Size = i}
    IN  IF hits = {} THEN buffer[i]
        ELSE total + (CHOOSE k \in hits : \A j \in hits : j <= k)

BufferAfter(n) == [i \in Slot |-> LastInto(i, n)]

\* Fault: the tail runs past the end of the array.
TailUnwrapped(n) == tail + n

TailAfter(n) == (tail + n) % Size

\* Fault: a lap is counted when the first slot is written again.
CycleLate(n) == cycle + (tail + n - 1) \div Size

CycleAfter(n) == cycle + (tail + n) \div Size

(* Write: how many words it finds between offset and the tail, ...         *)
AvailableCount(offset, end) ==
    IF offset <= end THEN end - offset ELSE Size - offset + end

Smaller(a, b) == IF a < b THEN a ELSE b

WriteCount(offset, end, maxSize) ==
    Smaller(AvailableCount(offset, end), Smaller(maxSize, Size))

(* ... the words it copies, and the iterator it returns.                   *)
WriteWords(content, offset, n) ==
    [i \in 1 .. n |-> content[(offset + i - 1) % Size]]

AdvanceIterator(offset, n) == (offset + n) % Size

-----------------------------------------------------------------------------
(* IChannelIn::SynchronizeWithBuffer for a recipient at info, after the    *)
(* library has put n words into words[], which has room for max.           *)
Diff(info, n) == CycleAfter(n) - info.cicles

\* Fault: a recipient in the previous lap counts as overrun.
OverrunEarly(info, n) == Diff(info, n) >= 1

Overrun(info, n) == Diff(info, n) > 1

(* What the caller finds in words[]: a recipient that was overrun is left  *)
(* with what the library has just put there.                               *)
Delivered(info, n, max) ==
    IF Overrun(info, n) THEN [i \in 1 .. n |-> total + i]
    ELSE WriteWords(BufferAfter(n), info.iterator,
                    WriteCount(info.iterator, TailAfter(n), max))

\* Fault: the iterator Write returns is not stored.
SynchronizedInPlace(info, n, max) ==
    IF Overrun(info, n) THEN info
    ELSE [iterator |-> info.iterator, cicles |-> CycleAfter(n)]

(* Where the recipient stands afterwards; an overrun one stays behind.     *)
Synchronized(info, n, max) ==
    IF Overrun(info, n) THEN info
    ELSE [iterator |-> AdvanceIterator(info.iterator,
                         WriteCount(info.iterator, TailAfter(n), max)),
          cicles |-> CycleAfter(n)]

(* The recipient's entry when it calls: AddRecipient on its first call.    *)
EntryOf(r) == IF IsReceiving(r) THEN offsets[r] ELSE Here
PositionOf(r) == IF IsReceiving(r) THEN position[r] ELSE total

LastOf(words, default) == IF words = <<>> THEN default ELSE words[Len(words)]

-----------------------------------------------------------------------------
(* Arinc429In/Arinc708In::ReceiveWordsRaw: the caller asks for at most max *)
(* words (no more than the ring holds) and the library has n of them.      *)
ReceiveWordsRaw(r, max, n) ==
    /\ n <= max
    /\ total + n <= MaxWords
    /\ buffer' = BufferAfter(n)
    /\ tail' = TailAfter(n)
    /\ cycle' = CycleAfter(n)
    /\ total' = total + n
    /\ offsets' = [offsets EXCEPT ![r] = Synchronized(EntryOf(r), n, max)]
    /\ position' = [position EXCEPT ![r] =
                      IF Overrun(EntryOf(r), n) THEN PositionOf(r)
                      ELSE LastOf(Delivered(EntryOf(r), n, max), PositionOf(r))]
    /\ given' = [given EXCEPT ![r] =
                   LastOf(Delivered(EntryOf(r), n, max), given[r])]

(* The library fails: the caller is a recipient all the same.              *)
ReceiveFails(r) ==
    /\ offsets' = [offsets EXCEPT ![r] = EntryOf(r)]
    /\ position' = [position EXCEPT ![r] = PositionOf(r)]
    /\ UNCHANGED <<ring, total, given>>

(* The owner of the channel resets it: every recipient moves to the tail.  *)
ResetBuffer ==
    /\ offsets' = [r \in Reader |-> IF IsReceiving(r) THEN Here ELSE offsets[r]]
    /\ position' = [r \in Reader |-> IF IsReceiving(r) THEN total ELSE position[r]]
    /\ UNCHANGED <<ring, total, given>>

RemoveRecipient(r) ==
    /\ IsReceiving(r)
    /\ offsets' = [offsets EXCEPT ![r] = NotReceiving]
    /\ position' = [position EXCEPT ![r] = 0]
    /\ given' = [given EXCEPT ![r] = 0]
    /\ UNCHANGED <<ring, total>>

Next ==
    \/ \E r \in Reader :
         \/ \E max \in 0 .. Size, n \in 0 .. Size : ReceiveWordsRaw(r, max, n)
         \/ ReceiveFails(r)
         \/ RemoveRecipient(r)
    \/ ResetBuffer

Spec == Init /\ [][Next]_vars

-----------------------------------------------------------------------------
TypeOK ==
    /\ buffer \in [Slot -> 0 .. total]
    /\ tail \in Slot
    /\ cycle \in Nat
    /\ offsets \in [Reader -> OffsetInfo \cup {NotReceiving}]
    /\ total \in 0 .. MaxWords
    /\ position \in [Reader -> 0 .. total]
    /\ given \in [Reader -> 0 .. total]

(* Tail and cycle count the words, and the ring holds the newest of them.  *)
RingHoldsNewest ==
    /\ total = cycle * Size + tail
    /\ \A k \in 1 .. total : k > total - Size => buffer[(k - 1) % Size] = k

(* What the next read of any recipient, with any size and any number of    *)
(* words from the library, will deliver.                                   *)
Reads == {q \in Reader \X (0 .. Size) \X (0 .. Size) :
            q[3] <= q[2] /\ total + q[3] <= MaxWords}
DeliveredBy(q) == Delivered(EntryOf(q[1]), q[3], q[2])
Lag(q) == total + q[3] - PositionOf(q[1])

(* A recipient gets the words in the order of the stream and none twice,   *)
(* never a slot nobody wrote, and never more than it has room for, however *)
(* the reads of the recipients and the resets interleave.                  *)
InOrderOnce ==
    \A q \in Reads :
        LET words == DeliveredBy(q)
        IN  /\ Len(words) <= q[2]
            /\ \A i \in 1 .. Len(words) : words[i] > given[q[1]]
            /\ \A i, j \in 1 .. Len(words) : i < j => words[i] < words[j]

(* Add(data, count) calls Add(data) for one word after the other: the ring *)
(* after n + 1 words is the ring after n with one word added, whatever it  *)
(* held, wherever the tail was, and through the wrap of the tail.          *)
RingNow == [buffer |-> buffer, tail |-> tail, cycle |-> cycle]
RingAfter(n) ==
    [buffer |-> BufferAfter(n), tail |-> TailAfter(n), cycle |-> CycleAfter(n)]
AddsOneByOne ==
    /\ RingAfter(0) = RingNow
    /\ \A n \in 0 .. Size - 1 : RingAfter(n + 1) = AddOne(RingAfter(n), total + n + 1)

(* What a recipient misses: whole rings, never a part of one.  A recipient *)
(* that does not count as overrun gets exactly the words it has not had,   *)
(* in their order and as many as it has room for, less all the full rings  *)
(* it is behind; and one that does count as overrun has lost words.  So    *)
(* nothing is lost to a recipient that is behind by less than a ring.      *)
SkipsWholeRings ==
    \A q \in Reads :
        IF Overrun(EntryOf(q[1]), q[3]) THEN Lag(q) > Size
        ELSE LET skipped == Size * (Lag(q) \div Size)
             IN  DeliveredBy(q) = [i \in 1 .. Smaller(Lag(q) - skipped, q[2]) |->
                                     PositionOf(q[1]) + skipped + i]

(* IChannelIn.h: "Defference more than 1 means overwriting data in         *)
(* buffer"; when the difference is not more than 1 nothing was overwritten *)
(* and the recipient misses no word.                                       *)
OverwritingDetected ==
    \A q \in Reads : ~Overrun(EntryOf(q[1]), q[3]) =>
        DeliveredBy(q) = [i \in 1 .. Smaller(Lag(q), q[2]) |-> PositionOf(q[1]) + i]
=============================================================================
