-------------------------- MODULE InputChannel_proofs --------------------------
(***************************************************************************)
(* Theorems about InputChannel, for any number of recipients, any size of  *)
(* the ring and any length of the stream.                                  *)
(***************************************************************************)
EXTENDS InputChannel, SequenceTheorems, TLAPS

-----------------------------------------------------------------------------
(* Places in the stream and slots of the ring                              *)

LEMMA DivMod ==
    ASSUME NEW a \in Nat
    PROVE  /\ a % Size \in Slot /\ a % Size \in Nat /\ a \div Size \in Nat
           /\ a = Size * (a \div Size) + (a % Size)
BY SizeAssumption DEF Slot

LEMMA OfLap ==
    ASSUME NEW q \in Nat, NEW b \in Slot
    PROVE  (Size * q + b) % Size = b /\ (Size * q + b) \div Size = q
BY SizeAssumption DEF Slot

LEMMA Laps ==
    ASSUME NEW q \in Int, q >= 1
    PROVE  Size * q >= Size
BY SizeAssumption

LEMMA DivMonotonic ==
    ASSUME NEW a \in Nat, NEW b \in Nat, a <= b
    PROVE  a \div Size <= b \div Size
<1>1. SUFFICES ASSUME (a \div Size) - (b \div Size) >= 1 PROVE FALSE
  BY DivMod
<1>2. Size * ((a \div Size) - (b \div Size)) >= Size
  BY <1>1, Laps, DivMod
<1>3. Size * ((a \div Size) - (b \div Size)) = Size * (a \div Size) - Size * (b \div Size)
  BY SizeAssumption, DivMod
<1>4. a % Size \in 0 .. Size - 1 /\ b % Size \in 0 .. Size - 1
  BY DivMod DEF Slot
<1>5. QED
  BY <1>2, <1>3, <1>4, DivMod, SizeAssumption

(* Two words less than a lap apart: not in one slot, and at most one lap   *)
(* boundary between them.                                                  *)
LEMMA Close ==
    ASSUME NEW a \in Nat, NEW b \in Nat, a <= b, b - a < Size
    PROVE  /\ a < b => a % Size # b % Size
           /\ b \div Size <= (a \div Size) + 1
<1> DEFINE q == (b \div Size) - (a \div Size)
<1>1. q \in Int /\ b - a = Size * q + ((b % Size) - (a % Size))
  <2>1. Size * q = Size * (b \div Size) - Size * (a \div Size)
    BY SizeAssumption, DivMod
  <2>2. QED
    BY <2>1, DivMod, SizeAssumption
<1>2. a % Size \in 0 .. Size - 1 /\ b % Size \in 0 .. Size - 1
  BY DivMod DEF Slot
<1> HIDE DEF q
<1>3. q >= 1 => Size * q >= Size
  BY <1>1, Laps
<1>4. q <= 0 => Size * q <= 0
  BY <1>1, SizeAssumption
<1>5. a < b => a % Size # b % Size
  BY <1>1, <1>2, <1>3, <1>4, SizeAssumption
<1>6. q <= 1
  <2>1. SUFFICES ASSUME q - 1 >= 1 PROVE FALSE
    BY <1>1
  <2>2. Size * (q - 1) >= Size
    BY <1>1, <2>1, Laps
  <2>3. Size * (q - 1) = Size * q - Size
    BY <1>1, SizeAssumption
  <2>4. QED
    BY <1>1, <1>2, <2>2, <2>3, SizeAssumption
<1>7. QED
  BY <1>5, <1>6, DivMod DEF q

LEMMA Shift ==
    ASSUME NEW a \in Nat, NEW b \in Nat
    PROVE  /\ ((a % Size) + b) % Size = (a + b) % Size
           /\ (a \div Size) + (((a % Size) + b) \div Size) = (a + b) \div Size
<1> DEFINE c == (a % Size) + b
<1>1. c \in Nat /\ a + b = Size * (a \div Size) + c
  <2>1. a % Size \in Nat /\ a = Size * (a \div Size) + (a % Size)
    BY DivMod
  <2>2. Size * (a \div Size) \in Nat
    BY SizeAssumption, DivMod
  <2>3. QED
    BY <2>1, <2>2
<1> HIDE DEF c
<1>2. c = Size * (c \div Size) + (c % Size) /\ c \div Size \in Nat /\ c % Size \in Slot
  BY <1>1, DivMod
<1>3. Size * (a \div Size) + Size * (c \div Size) = Size * ((a \div Size) + (c \div Size))
  BY <1>2, DivMod, SizeAssumption
<1>4. a + b = Size * ((a \div Size) + (c \div Size)) + (c % Size)
  BY <1>1, <1>2, <1>3, DivMod, SizeAssumption DEF Slot
<1>5. (a \div Size) + (c \div Size) \in Nat
  BY <1>2, DivMod
<1>6. QED
  BY <1>2, <1>4, <1>5, OfLap DEF c

(* What Write finds between two places of the stream.                      *)
LEMMA Around ==
    ASSUME NEW a \in Nat, NEW b \in Nat, a <= b
    PROVE  AvailableCount(a % Size, b % Size) = (b - a) % Size
<1> DEFINE qa == a \div Size
           qb == b \div Size
           ra == a % Size
           rb == b % Size
<1>1. qa \in Nat /\ qb \in Nat /\ qa <= qb /\ a = Size * qa + ra /\ b = Size * qb + rb
  BY DivMod, DivMonotonic
<1>2. ra \in 0 .. Size - 1 /\ rb \in 0 .. Size - 1
  BY DivMod DEF Slot
<1> HIDE DEF qa, qb, ra, rb
<1>3. Size * (qb - qa) = Size * qb - Size * qa
  BY <1>1, SizeAssumption
<1>4. CASE ra <= rb
  <2>1. b - a = Size * (qb - qa) + (rb - ra) /\ qb - qa \in Nat /\ rb - ra \in Slot
    BY <1>1, <1>2, <1>3, <1>4, SizeAssumption DEF Slot
  <2>2. (b - a) % Size = rb - ra
    BY <2>1, OfLap
  <2>3. QED
    BY <1>4, <2>2 DEF AvailableCount, ra, rb
<1>5. CASE ra > rb
  <2>1. qb - qa # 0
    <3>1. SUFFICES ASSUME qb = qa PROVE FALSE
      BY <1>1
    <3>2. QED
      BY <1>1, <1>2, <1>5, <3>1, SizeAssumption
  <2>2. Size * (qb - qa - 1) = Size * (qb - qa) - Size
    BY <1>1, SizeAssumption
  <2>3. /\ b - a = Size * (qb - qa - 1) + (Size - ra + rb)
        /\ qb - qa - 1 \in Nat /\ Size - ra + rb \in Slot
    BY <1>1, <1>2, <1>3, <1>5, <2>1, <2>2, SizeAssumption DEF Slot
  <2>4. (b - a) % Size = Size - ra + rb
    BY <2>3, OfLap
  <2>5. ~(ra <= rb)
    BY <1>2, <1>5, SizeAssumption
  <2>6. QED
    BY <2>4, <2>5 DEF AvailableCount, ra, rb
<1>6. QED
  BY <1>2, <1>4, <1>5, SizeAssumption

-----------------------------------------------------------------------------
(* The ring                                                                *)

LEMMA Counted ==
    ASSUME TypeOK, RingHoldsNewest
    PROVE  total \in Nat /\ tail = total % Size /\ cycle = total \div Size
<1>1. total \in Nat /\ cycle \in Nat /\ tail \in Slot
  BY MaxWordsAssumption DEF TypeOK
<1>2. total = Size * cycle + tail
  BY <1>1, SizeAssumption DEF RingHoldsNewest, Slot
<1>3. QED
  BY <1>1, <1>2, OfLap

LEMMA CountedAfter ==
    ASSUME TypeOK, RingHoldsNewest, NEW n \in Nat
    PROVE  /\ TailAfter(n) = (total + n) % Size
           /\ CycleAfter(n) = (total + n) \div Size
BY Counted, Shift DEF TailAfter, CycleAfter

(* No slot is written twice by a call that stores no more than the ring    *)
(* holds.                                                                  *)
LEMMA OneHit ==
    ASSUME TypeOK, RingHoldsNewest, NEW n \in 0 .. Size, NEW j \in 1 .. n
    PROVE  /\ total + j - 1 \in Nat
           /\ (tail + j - 1) % Size = (total + j - 1) % Size
           /\ \A h \in 1 .. n : (tail + h - 1) % Size = (tail + j - 1) % Size => h = j
<1>0. total \in Nat /\ tail = total % Size /\ n \in Nat
  BY Counted, SizeAssumption
<1>1. ASSUME NEW h \in 1 .. n
      PROVE  /\ total + h - 1 \in Nat
             /\ (tail + h - 1) % Size = (total + h - 1) % Size
  <2>1. h - 1 \in Nat /\ total + h - 1 \in Nat /\ total + (h - 1) = total + h - 1
    BY <1>0
  <2>2. (total % Size) + (h - 1) = tail + h - 1
    BY <1>0, <2>1, DivMod
  <2>3. QED
    BY <1>0, <2>1, <2>2, Shift
<1>2. ASSUME NEW a \in 1 .. n, NEW b \in 1 .. n,
             (total + a - 1) % Size = (total + b - 1) % Size
      PROVE  ~(a < b)
  <2>1. SUFFICES ASSUME a < b PROVE FALSE
    OBVIOUS
  <2>2. /\ total + a - 1 < total + b - 1 /\ (total + b - 1) - (total + a - 1) < Size
        /\ total + a - 1 <= total + b - 1
    BY <1>0, <2>1, SizeAssumption
  <2>3. QED
    BY <1>1, <1>2, <2>2, Close
<1>3. ASSUME NEW h \in 1 .. n, (tail + h - 1) % Size = (tail + j - 1) % Size
      PROVE  h = j
  <2>1. (total + h - 1) % Size = (total + j - 1) % Size
    BY <1>1, <1>3
  <2>2. ~(h < j) /\ ~(j < h)
    BY <1>2, <2>1
  <2>3. QED
    BY <2>2
<1>4. QED
  BY <1>1, <1>3

(* After n words the ring holds the newest of total + n.                   *)
LEMMA NewestAfter ==
    ASSUME TypeOK, RingHoldsNewest, NEW n \in 0 .. Size,
           NEW k \in 1 .. total + n, k > total + n - Size
    PROVE  BufferAfter(n)[(k - 1) % Size] = k
<1> DEFINE i == (k - 1) % Size
           hits == {j \in 1 .. n : (tail + j - 1) % Size = i}
<1>1. total \in Nat /\ tail = total % Size /\ n \in Nat /\ k - 1 \in Nat
  BY Counted, SizeAssumption
<1>2. i \in Slot
  BY <1>1, DivMod
<1>3. ASSUME NEW j \in 1 .. n
      PROVE  /\ total + j - 1 \in Nat
             /\ (tail + j - 1) % Size = (total + j - 1) % Size
  BY OneHit
<1>4. BufferAfter(n)[i] = IF hits = {} THEN buffer[i]
                          ELSE total + (CHOOSE x \in hits : \A j \in hits : j <= x)
  BY <1>2 DEF BufferAfter, LastInto
<1> HIDE DEF i, hits
<1>5. CASE k <= total
  <2>1. hits = {}
    <3>1. SUFFICES ASSUME NEW j \in 1 .. n, (total + j - 1) % Size = (k - 1) % Size
                   PROVE  FALSE
      BY <1>3 DEF hits, i
    <3>2. /\ total + j - 1 \in Nat /\ k - 1 < total + j - 1
          /\ (total + j - 1) - (k - 1) < Size
      BY <1>1, <1>5, SizeAssumption
    <3>3. QED
      BY <1>1, <3>1, <3>2, Close
  <2>2. buffer[(k - 1) % Size] = k
    <3>1. k \in 1 .. total /\ k > total - Size
      BY <1>1, <1>5, SizeAssumption
    <3>2. QED
      BY <3>1 DEF RingHoldsNewest
  <2>3. QED
    BY <1>4, <2>1, <2>2 DEF i
<1>6. CASE k > total
  <2> DEFINE h == k - total
  <2>1. h \in 1 .. n /\ total + h = k /\ total + h - 1 = k - 1
    BY <1>1, <1>6
  <2>2. h \in hits
    BY <1>3, <2>1 DEF hits, i
  <2>3. ASSUME NEW j \in hits
        PROVE  j = h
    <3>1. j \in 1 .. n /\ (tail + j - 1) % Size = (tail + h - 1) % Size
      BY <2>2 DEF hits
    <3>2. QED
      BY <2>1, <3>1, OneHit
  <2> HIDE DEF h
  <2>4. (CHOOSE x \in hits : \A j \in hits : j <= x) = h
    <3>1. \A j \in hits : j <= h
      BY <2>1, <2>3
    <3>2. QED
      BY <2>2, <2>3, <3>1
  <2>5. QED
    BY <1>4, <2>1, <2>2, <2>4 DEF i
<1>7. QED
  BY <1>1, <1>5, <1>6

(* One more word moves the tail by one slot, and counts a lap when it      *)
(* leaves the last.                                                        *)
LEMMA TailMoves ==
    ASSUME TypeOK, RingHoldsNewest, NEW n \in 0 .. Size - 1
    PROVE  IF TailAfter(n) + 1 = Size
             THEN TailAfter(n + 1) = 0 /\ CycleAfter(n + 1) = CycleAfter(n) + 1
             ELSE TailAfter(n + 1) = TailAfter(n) + 1 /\ CycleAfter(n + 1) = CycleAfter(n)
<1> DEFINE t == (tail + n) % Size
           q == (tail + n) \div Size
<1>1. n \in Nat /\ tail \in Nat /\ cycle \in Nat /\ tail + n \in Nat
  BY SizeAssumption DEF TypeOK, Slot
<1>2. tail + n = Size * q + t /\ q \in Nat /\ t \in Slot
  BY <1>1, DivMod
<1>3. TailAfter(n) = t /\ CycleAfter(n) = cycle + q
  BY DEF TailAfter, CycleAfter
<1>4. tail + (n + 1) = (tail + n) + 1
  BY <1>1
<1>5. /\ TailAfter(n + 1) = ((tail + n) + 1) % Size
      /\ CycleAfter(n + 1) = cycle + (((tail + n) + 1) \div Size)
  BY <1>4, Zenon DEF TailAfter, CycleAfter
<1> HIDE DEF t, q
<1>6. CASE t + 1 = Size
  <2>1. Size * (q + 1) = Size * q + Size
    BY <1>2, SizeAssumption
  <2>2. (tail + n) + 1 = Size * (q + 1) + 0 /\ q + 1 \in Nat /\ 0 \in Slot
    BY <1>1, <1>2, <1>6, <2>1, SizeAssumption DEF Slot
  <2>3. /\ (Size * (q + 1) + 0) % Size = 0
        /\ (Size * (q + 1) + 0) \div Size = q + 1
    BY <2>2, OfLap
  <2>4. cycle + (q + 1) = (cycle + q) + 1
    BY <1>1, <1>2
  <2>5. TailAfter(n + 1) = 0 /\ CycleAfter(n + 1) = (cycle + q) + 1
    BY <1>5, <2>2, <2>3, <2>4, Zenon
  <2>6. QED
    BY <1>3, <1>6, <2>5
<1>7. CASE t + 1 # Size
  <2>1. t + 1 \in Slot
    BY <1>2, <1>7, SizeAssumption DEF Slot
  <2>2. (tail + n) + 1 = Size * q + (t + 1)
    <3>1. Size * q \in Nat
      BY <1>2, SizeAssumption
    <3>2. QED
      BY <1>1, <1>2, <3>1, SizeAssumption DEF Slot
  <2>3. (Size * q + (t + 1)) % Size = t + 1 /\ (Size * q + (t + 1)) \div Size = q
    BY <1>2, <2>1, OfLap
  <2>4. TailAfter(n + 1) = t + 1 /\ CycleAfter(n + 1) = cycle + q
    BY <1>5, <2>2, <2>3, Zenon
  <2>5. QED
    BY <1>3, <1>7, <2>4
<1>8. QED
  BY <1>6, <1>7

(* And it goes to the slot the tail was at, and to no other.               *)
LEMMA SlotWritten ==
    ASSUME TypeOK, RingHoldsNewest, NEW n \in 0 .. Size - 1
    PROVE  BufferAfter(n + 1) = [BufferAfter(n) EXCEPT ![TailAfter(n)] = total + n + 1]
<1>1. n \in Nat /\ n + 1 \in 0 .. Size /\ n + 1 \in 1 .. n + 1 /\ tail \in Nat /\ total \in Nat
  BY Counted, SizeAssumption DEF TypeOK, Slot
<1>2. tail + (n + 1) - 1 = tail + n
  BY <1>1
<1>3. TailAfter(n) \in Slot
  BY <1>1, DivMod DEF TailAfter
<1>4. ASSUME NEW i \in Slot
      PROVE  LastInto(i, n + 1) = IF i = TailAfter(n) THEN total + n + 1 ELSE LastInto(i, n)
  <2> DEFINE after == {k \in 1 .. n + 1 : (tail + k - 1) % Size = i}
             before == {k \in 1 .. n : (tail + k - 1) % Size = i}
  <2>1. /\ LastInto(i, n + 1) = IF after = {} THEN buffer[i]
                                ELSE total + (CHOOSE k \in after : \A j \in after : j <= k)
        /\ LastInto(i, n) = IF before = {} THEN buffer[i]
                            ELSE total + (CHOOSE k \in before : \A j \in before : j <= k)
    BY DEF LastInto
  <2>2. \A k \in 1 .. n + 1 : k \in 1 .. n \/ k = n + 1
    BY <1>1
  <2>3. \A k \in 1 .. n : k \in 1 .. n + 1
    BY <1>1
  <2>4. CASE i = TailAfter(n)
    <3>1. n + 1 \in after
      BY <1>1, <1>2, <2>4 DEF TailAfter
    <3>2. ASSUME NEW k \in after
          PROVE  k = n + 1
      <4>1. k \in 1 .. n + 1 /\ (tail + k - 1) % Size = (tail + (n + 1) - 1) % Size
        BY <1>2, <2>4 DEF TailAfter
      <4>2. \A h \in 1 .. n + 1 :
              (tail + h - 1) % Size = (tail + (n + 1) - 1) % Size => h = n + 1
        BY <1>1, OneHit
      <4>3. QED
        BY <4>1, <4>2
    <3> HIDE DEF after
    <3>3. \A j \in after : j <= n + 1
      BY <1>1, <3>2
    <3>4. (CHOOSE k \in after : \A j \in after : j <= k) = n + 1
      BY <3>1, <3>2, <3>3
    <3>5. LastInto(i, n + 1) = total + (n + 1)
      BY <2>1, <3>1, <3>4
    <3>6. total + (n + 1) = total + n + 1
      BY <1>1
    <3>7. QED
      BY <2>4, <3>5, <3>6
  <2>5. CASE i # TailAfter(n)
    <3>1. (tail + (n + 1) - 1) % Size # i
      BY <1>2, <2>5 DEF TailAfter
    <3>2. after = before
      BY <2>2, <2>3, <3>1
    <3> HIDE DEF after, before
    <3>3. QED
      BY <2>1, <2>5, <3>2
  <2>6. QED
    BY <2>4, <2>5
<1>5. QED
  BY <1>3, <1>4, Zenon DEF BufferAfter

(* No word, no change.                                                     *)
LEMMA NothingAdded ==
    ASSUME TypeOK, RingHoldsNewest
    PROVE  BufferAfter(0) = buffer /\ TailAfter(0) = tail /\ CycleAfter(0) = cycle
<1>1. total \in Nat /\ tail \in Slot /\ cycle \in Nat /\ tail + 0 = Size * 0 + tail
  BY Counted, SizeAssumption DEF TypeOK, Slot
<1>2. (Size * 0 + tail) % Size = tail /\ (Size * 0 + tail) \div Size = 0
  BY <1>1, OfLap
<1>3. TailAfter(0) = tail /\ CycleAfter(0) = cycle + 0
  BY <1>1, <1>2, Zenon DEF TailAfter, CycleAfter
<1>4. \A i \in Slot : LastInto(i, 0) = buffer[i]
  BY DEF LastInto
<1>5. buffer = [i \in Slot |-> buffer[i]]
  BY DEF TypeOK
<1>6. QED
  BY <1>1, <1>3, <1>4, <1>5 DEF BufferAfter

LEMMA OneMore ==
    ASSUME TypeOK, RingHoldsNewest
    PROVE  AddsOneByOne
<1>1. RingAfter(0) = RingNow
  BY NothingAdded DEF RingAfter, RingNow
<1>2. ASSUME NEW n \in 0 .. Size - 1
      PROVE  RingAfter(n + 1) = AddOne(RingAfter(n), total + n + 1)
  <2> DEFINE b == BufferAfter(n)
             t == TailAfter(n)
             c == CycleAfter(n)
  <2>1. RingAfter(n) = [buffer |-> b, tail |-> t, cycle |-> c]
    BY DEF RingAfter
  <2>2. BufferAfter(n + 1) = [b EXCEPT ![t] = total + n + 1]
    BY SlotWritten
  <2>3. IF t + 1 = Size THEN TailAfter(n + 1) = 0 /\ CycleAfter(n + 1) = c + 1
                        ELSE TailAfter(n + 1) = t + 1 /\ CycleAfter(n + 1) = c
    BY TailMoves
  <2> HIDE DEF b, t, c
  <2>4. RingAfter(n).buffer = b /\ RingAfter(n).tail = t /\ RingAfter(n).cycle = c
    BY <2>1
  <2>5. AddOne(RingAfter(n), total + n + 1)
          = [buffer |-> [b EXCEPT ![t] = total + n + 1],
             tail   |-> IF t + 1 = Size THEN 0 ELSE t + 1,
             cycle  |-> IF t + 1 = Size THEN c + 1 ELSE c]
    BY <2>4, Zenon DEF AddOne
  <2>6. QED
    BY <2>2, <2>3, <2>5 DEF RingAfter
<1>3. QED
  BY <1>1, <1>2 DEF AddsOneByOne

LEMMA BufferType ==
    ASSUME TypeOK, RingHoldsNewest, NEW n \in 0 .. Size
    PROVE  BufferAfter(n) \in [Slot -> 0 .. total + n]
<1>1. total \in Nat /\ n \in Nat
  BY MaxWordsAssumption, SizeAssumption DEF TypeOK
<1>2. ASSUME NEW i \in Slot
      PROVE  LastInto(i, n) \in 0 .. total + n
  <2> DEFINE hits == {k \in 1 .. n : (tail + k - 1) % Size = i}
  <2>1. CASE hits = {}
    BY <1>1, <2>1 DEF LastInto, TypeOK
  <2>2. CASE hits # {}
    <3>1. PICK x \in hits : TRUE
      BY <2>2
    <3>2. x \in 1 .. n /\ \A j \in hits : j = x
      BY <3>1, OneHit
    <3>3. \A j \in hits : j <= x
      BY <3>2
    <3>4. (CHOOSE k \in hits : \A j \in hits : j <= k) \in 1 .. n
      BY <3>1, <3>2, <3>3
    <3>5. QED
      BY <1>1, <2>2, <3>4 DEF LastInto
  <2>3. QED
    BY <2>1, <2>2
<1>3. QED
  BY <1>2 DEF BufferAfter

-----------------------------------------------------------------------------
(* The recipients                                                          *)

(* A recipient's iterator is the slot of the word after its position, the  *)
(* lap it has noted is that of its position or a later one, and nothing    *)
(* beyond its position was handed to it unless it counts as overrun.       *)
Standing(r) ==
    /\ IsReceiving(r) =>
         /\ offsets[r].iterator = position[r] % Size
         /\ position[r] \div Size <= offsets[r].cicles
         /\ given[r] <= position[r] \/ cycle - offsets[r].cicles > 1
    /\ ~IsReceiving(r) => given[r] = 0

ChannelInv == RingHoldsNewest /\ \A r \in Reader : Standing(r)

LEMMA NotReceivingApart == NotReceiving \notin OffsetInfo
<1>1. NotReceiving.iterator \notin Slot
  BY DEF NotReceiving, Slot
<1>2. QED
  BY <1>1 DEF OffsetInfo

(* Where a recipient stands when it calls.                                 *)
LEMMA EntryStands ==
    ASSUME TypeOK, ChannelInv, NEW r \in Reader
    PROVE  /\ EntryOf(r) \in OffsetInfo
           /\ PositionOf(r) \in 0 .. total /\ given[r] \in 0 .. total
           /\ EntryOf(r).iterator = PositionOf(r) % Size
           /\ PositionOf(r) \div Size <= EntryOf(r).cicles
           /\ given[r] <= PositionOf(r) \/ cycle - EntryOf(r).cicles > 1
           /\ EntryOf(r).cicles \in Nat
<1>1. total \in Nat /\ tail = total % Size /\ cycle = total \div Size /\ cycle \in Nat
      /\ tail \in Slot
  BY Counted DEF ChannelInv, TypeOK
<1>2. CASE IsReceiving(r)
  <2>1. offsets[r] \in OffsetInfo
    BY <1>2 DEF IsReceiving, TypeOK
  <2>2. EntryOf(r) = offsets[r] /\ PositionOf(r) = position[r]
    BY <1>2 DEF EntryOf, PositionOf
  <2>3. QED
    BY <1>1, <1>2, <2>1, <2>2 DEF ChannelInv, Standing, TypeOK, OffsetInfo
<1>3. CASE ~IsReceiving(r)
  <2>1. EntryOf(r) = Here /\ PositionOf(r) = total /\ given[r] = 0
    BY <1>3 DEF EntryOf, PositionOf, ChannelInv, Standing
  <2>2. Here \in OffsetInfo /\ Here.iterator = tail /\ Here.cicles = cycle
    BY <1>1 DEF Here, OffsetInfo
  <2>3. QED
    BY <1>1, <2>1, <2>2
<1>4. QED
  BY <1>2, <1>3

(* How many words a read of r finds in the ring.                           *)
Found(r, n) == (total + n - PositionOf(r)) % Size
Copied(r, n, max) == Smaller(Found(r, n), max)

LEMMA FoundType ==
    ASSUME TypeOK, ChannelInv, NEW r \in Reader, NEW max \in 0 .. Size, NEW n \in 0 .. Size
    PROVE  /\ total + n - PositionOf(r) \in Nat
           /\ Found(r, n) \in 0 .. Size - 1 /\ Found(r, n) <= total + n - PositionOf(r)
           /\ Copied(r, n, max) \in 0 .. max /\ Copied(r, n, max) <= Found(r, n)
           /\ WriteCount(EntryOf(r).iterator, TailAfter(n), max) = Copied(r, n, max)
<1>1. total \in Nat /\ n \in Nat /\ max \in Nat /\ PositionOf(r) \in 0 .. total
  BY EntryStands, Counted, SizeAssumption DEF ChannelInv
<1>2. total + n - PositionOf(r) \in Nat
  BY <1>1
<1>3. Found(r, n) \in 0 .. Size - 1
  BY <1>2, DivMod DEF Found, Slot
<1>4. Found(r, n) <= total + n - PositionOf(r)
  <2> DEFINE lag == total + n - PositionOf(r)
  <2>1. lag \in Nat
    BY <1>2
  <2> HIDE DEF lag
  <2>2. lag = Size * (lag \div Size) + (lag % Size) /\ Size * (lag \div Size) \in Nat
        /\ lag % Size \in Nat
    BY <2>1, DivMod, SizeAssumption
  <2>3. lag % Size <= lag
    BY <2>1, <2>2
  <2>4. QED
    BY <2>3 DEF Found, lag
<1>5. Copied(r, n, max) \in 0 .. max /\ Copied(r, n, max) <= Found(r, n)
  BY <1>1, <1>3, SizeAssumption DEF Copied, Smaller
<1>6. AvailableCount(EntryOf(r).iterator, TailAfter(n)) = Found(r, n)
  <2>1. PositionOf(r) \in Nat /\ total + n \in Nat /\ PositionOf(r) <= total + n
    BY <1>1
  <2>2. TailAfter(n) = (total + n) % Size /\ EntryOf(r).iterator = PositionOf(r) % Size
    BY <1>1, CountedAfter, EntryStands DEF ChannelInv
  <2>3. AvailableCount(PositionOf(r) % Size, (total + n) % Size) = ((total + n) - PositionOf(r)) % Size
    BY <2>1, Around
  <2>4. AvailableCount(EntryOf(r).iterator, TailAfter(n))
          = AvailableCount(PositionOf(r) % Size, (total + n) % Size)
    BY <2>2, Zenon
  <2>5. (total + n) - PositionOf(r) = total + n - PositionOf(r)
    BY <1>1
  <2>6. QED
    BY <2>3, <2>4, <2>5, Zenon DEF Found
<1>7. Smaller(max, Size) = max
  BY <1>1, SizeAssumption DEF Smaller
<1>8. QED
  BY <1>2, <1>3, <1>4, <1>5, <1>6, <1>7 DEF WriteCount, Copied

(* A recipient that is not overrun gets the words that end Found words     *)
(* before the end of the stream, in their order.                           *)
LEMMA Delivery ==
    ASSUME TypeOK, ChannelInv, NEW r \in Reader, NEW max \in 0 .. Size, NEW n \in 0 .. Size,
           ~Overrun(EntryOf(r), n)
    PROVE  Delivered(EntryOf(r), n, max)
             = [i \in 1 .. Copied(r, n, max) |-> total + n - Found(r, n) + i]
<1> DEFINE p == PositionOf(r)
           f == Found(r, n)
           w == Copied(r, n, max)
<1>1. total \in Nat /\ n \in Nat /\ p \in 0 .. total /\ f \in 0 .. Size - 1
      /\ w \in Nat /\ w <= f /\ f <= total + n - p
  <2>1. total \in Nat /\ n \in Nat /\ max \in Nat
    BY Counted, SizeAssumption DEF ChannelInv
  <2>2. p \in 0 .. total
    BY EntryStands
  <2>3. f \in 0 .. Size - 1 /\ f <= total + n - p /\ w \in 0 .. max /\ w <= f
    BY FoundType
  <2>4. QED
    BY <2>1, <2>2, <2>3
<1>2. total + n - p \in Nat /\ f = (total + n - p) % Size
  BY <1>1 DEF Found
<1>3. Delivered(EntryOf(r), n, max)
        = [i \in 1 .. w |-> BufferAfter(n)[(EntryOf(r).iterator + i - 1) % Size]]
  BY FoundType DEF Delivered, WriteWords
<1>4. EntryOf(r).iterator = p % Size
  BY EntryStands
<1> HIDE DEF p, f, w
<1>5. ASSUME NEW i \in 1 .. w
      PROVE  BufferAfter(n)[(EntryOf(r).iterator + i - 1) % Size] = total + n - f + i
  <2> DEFINE k == total + n - f + i
             q == (total + n - p) \div Size
  <2>1. total + n - p = Size * q + f /\ q \in Nat
    BY <1>2, DivMod
  <2>2. k \in 1 .. total + n /\ k > total + n - Size
    BY <1>1, SizeAssumption
  <2>3. BufferAfter(n)[(k - 1) % Size] = k
    BY <2>2, NewestAfter, <1>1 DEF ChannelInv
  <2>4. (EntryOf(r).iterator + i - 1) % Size = (p + (i - 1)) % Size
    <3>1. p \in Nat /\ i - 1 \in Nat /\ p % Size \in Nat
      BY <1>1, DivMod
    <3>2. (p % Size) + (i - 1) = EntryOf(r).iterator + i - 1
      BY <1>4, <3>1
    <3>3. QED
      BY <3>1, <3>2, Shift
  <2>5. k - 1 = Size * q + (p + (i - 1))
    BY <1>1, <2>1, SizeAssumption
  <2>6. (k - 1) % Size = (p + (i - 1)) % Size
    <3> DEFINE c == p + (i - 1)
    <3>1. c \in Nat /\ k - 1 = Size * q + c
      BY <1>1, <2>5
    <3> HIDE DEF c, k, q
    <3>2. c = Size * (c \div Size) + (c % Size) /\ c \div Size \in Nat /\ c % Size \in Slot
      BY <3>1, DivMod
    <3>3. Size * q + Size * (c \div Size) = Size * (q + (c \div Size))
      BY <2>1, <3>2, SizeAssumption
    <3>4. k - 1 = Size * (q + (c \div Size)) + (c % Size) /\ q + (c \div Size) \in Nat
      BY <2>1, <3>1, <3>2, <3>3, SizeAssumption DEF Slot
    <3>5. QED
      BY <3>2, <3>4, OfLap DEF c
  <2>7. QED
    BY <2>3, <2>4, <2>6
<1>6. QED
  BY <1>3, <1>5 DEF f, w

-----------------------------------------------------------------------------
(* The invariant                                                           *)

LEMMA SequenceOf ==
    ASSUME NEW w \in Nat, NEW b \in Nat
    PROVE  /\ Len([i \in 1 .. w |-> b + i]) = w
           /\ LastOf([i \in 1 .. w |-> b + i], b) = b + w
           /\ \A d : LastOf([i \in 1 .. w |-> b + i], d) = IF w = 0 THEN d ELSE b + w
<1> DEFINE s == [i \in 1 .. w |-> b + i]
<1>1. s \in Seq(Nat) /\ Len(s) = w /\ \A i \in 1 .. w : s[i] = b + i
  OBVIOUS
<1> HIDE DEF s
<1>2. CASE w = 0
  <2>1. s = <<>>
    BY <1>1, <1>2, EmptySeq
  <2>2. QED
    BY <1>1, <1>2, <2>1 DEF LastOf, s
<1>3. CASE w # 0
  <2>1. s # <<>> /\ s[Len(s)] = b + w
    BY <1>1, <1>3
  <2>2. QED
    BY <1>1, <1>3, <2>1 DEF LastOf, s
<1>4. QED
  BY <1>2, <1>3

(* What a read leaves behind.                                              *)
LEMMA ReadResult ==
    ASSUME TypeOK, ChannelInv, NEW r \in Reader, NEW max \in 0 .. Size, NEW n \in 0 .. Size,
           ReceiveWordsRaw(r, max, n)
    PROVE  /\ offsets'[r] \in OffsetInfo
           /\ position'[r] \in 0 .. total + n /\ given'[r] \in 0 .. total + n
           /\ offsets'[r].iterator = position'[r] % Size
           /\ position'[r] \div Size <= offsets'[r].cicles
           /\ given'[r] <= position'[r] \/ CycleAfter(n) - offsets'[r].cicles > 1
<1> DEFINE e == EntryOf(r)
           p == PositionOf(r)
<1>0. /\ total \in Nat /\ n \in Nat /\ cycle \in Nat
      /\ CycleAfter(n) = (total + n) \div Size /\ CycleAfter(n) \in Nat
      /\ cycle <= CycleAfter(n)
  <2>1. total \in Nat /\ n \in Nat /\ cycle = total \div Size
    BY Counted, SizeAssumption DEF ChannelInv
  <2>2. total + n \in Nat /\ total <= total + n
    BY <2>1
  <2>3. CycleAfter(n) = (total + n) \div Size
    BY <2>1, CountedAfter DEF ChannelInv
  <2>4. QED
    BY <2>1, <2>2, <2>3, DivMod, DivMonotonic
<1>1. /\ e \in OffsetInfo /\ p \in 0 .. total /\ given[r] \in 0 .. total
      /\ e.iterator = p % Size /\ p \div Size <= e.cicles /\ e.cicles \in Nat
      /\ given[r] <= p \/ cycle - e.cicles > 1
  BY EntryStands
<1>2. /\ offsets'[r] = Synchronized(e, n, max)
      /\ position'[r] = IF Overrun(e, n) THEN p ELSE LastOf(Delivered(e, n, max), p)
      /\ given'[r] = LastOf(Delivered(e, n, max), given[r])
  BY DEF ReceiveWordsRaw, TypeOK
<1>3. CASE Overrun(e, n)
  <2>1. offsets'[r] = e /\ position'[r] = p
    BY <1>2, <1>3 DEF Synchronized
  <2>2. CycleAfter(n) - e.cicles > 1
    BY <1>3 DEF Overrun, Diff
  <2>3. given'[r] \in 0 .. total + n
    <3>1. Delivered(e, n, max) = [i \in 1 .. n |-> total + i]
      BY <1>3 DEF Delivered
    <3>2. LastOf([i \in 1 .. n |-> total + i], given[r]) = IF n = 0 THEN given[r] ELSE total + n
      BY <1>0, SequenceOf, Zenon
    <3>3. given'[r] = IF n = 0 THEN given[r] ELSE total + n
      BY <1>2, <3>1, <3>2, Zenon
    <3>4. QED
      BY <1>0, <1>1, <3>3
  <2>4. QED
    BY <1>0, <1>1, <2>1, <2>2, <2>3
<1>4. CASE ~Overrun(e, n)
  <2> DEFINE f == Found(r, n)
             w == Copied(r, n, max)
             b == total + n - f
  <2>1. /\ f \in 0 .. Size - 1 /\ f <= total + n - p /\ w \in Nat /\ w <= f
        /\ f = (total + n - p) % Size
        /\ WriteCount(e.iterator, TailAfter(n), max) = w
    <3>1. max \in Nat
      BY SizeAssumption
    <3>2. w \in 0 .. max
      BY FoundType
    <3>3. w \in Nat
      BY <3>1, <3>2
    <3>4. QED
      BY <3>3, FoundType DEF Found
  <2>2. Delivered(e, n, max) = [i \in 1 .. w |-> b + i]
    BY <1>4, Delivery
  <2>3. b \in Nat /\ p <= b /\ b + w <= total + n
    BY <1>0, <1>1, <2>1, SizeAssumption
  <2> HIDE DEF f, w
  <2>4. /\ position'[r] = IF w = 0 THEN p ELSE b + w
        /\ given'[r] = IF w = 0 THEN given[r] ELSE b + w
    <3>1. w \in Nat /\ b \in Nat
      BY <2>1, <2>3
    <3> HIDE DEF b
    <3>2. /\ LastOf([i \in 1 .. w |-> b + i], p) = IF w = 0 THEN p ELSE b + w
          /\ LastOf([i \in 1 .. w |-> b + i], given[r]) = IF w = 0 THEN given[r] ELSE b + w
      BY <3>1, SequenceOf, Zenon
    <3>3. QED
      BY <1>2, <1>4, <2>2, <3>2, Zenon
  <2>5. position'[r] \in 0 .. total + n /\ given'[r] \in 0 .. total + n
    BY <1>0, <1>1, <2>1, <2>3, <2>4
  <2>6. /\ offsets'[r] = [iterator |-> (e.iterator + w) % Size, cicles |-> CycleAfter(n)]
        /\ (e.iterator + w) % Size \in Slot
    <3>1. e.iterator + w \in Nat
      BY <1>1, <2>1, DivMod
    <3>2. QED
      BY <1>2, <1>4, <2>1, <3>1, DivMod DEF Synchronized, AdvanceIterator
  <2>7. offsets'[r] \in OffsetInfo
    BY <1>0, <2>6 DEF OffsetInfo
  <2>8. position'[r] \div Size <= CycleAfter(n)
    BY <1>0, <2>5, DivMonotonic
  <2>9. (e.iterator + w) % Size = position'[r] % Size
    <3>1. (e.iterator + w) % Size = (p + w) % Size
      BY <1>1, <2>1, Shift
    <3>2. CASE w = 0
      BY <1>1, <2>4, <3>1, <3>2
    <3>3. CASE w # 0
      <4> DEFINE q == (total + n - p) \div Size
                 c == p + w
      <4>1. total + n - p \in Nat
        BY <1>0, <1>1
      <4>2. total + n - p = Size * q + f /\ q \in Nat
        BY <2>1, <4>1, DivMod
      <4>3. c \in Nat /\ position'[r] = Size * q + c
        <5>1. Size * q \in Nat
          BY <4>2, SizeAssumption
        <5>2. position'[r] = total + n - f + w
          BY <2>4, <3>3
        <5> HIDE DEF q
        <5>3. QED
          BY <1>0, <1>1, <2>1, <4>2, <5>1, <5>2
      <4> HIDE DEF q, c
      <4>4. c = Size * (c \div Size) + (c % Size) /\ c \div Size \in Nat /\ c % Size \in Slot
        BY <4>3, DivMod
      <4>5. Size * q + Size * (c \div Size) = Size * (q + (c \div Size))
        BY <4>2, <4>4, SizeAssumption
      <4>6. /\ position'[r] = Size * (q + (c \div Size)) + (c % Size)
            /\ q + (c \div Size) \in Nat
        BY <4>2, <4>3, <4>4, <4>5, SizeAssumption DEF Slot
      <4>7. QED
        BY <3>1, <4>4, <4>6, OfLap DEF c
    <3>4. QED
      BY <3>2, <3>3
  <2>10. given'[r] <= position'[r] \/ CycleAfter(n) - CycleAfter(n) > 1
    <3>1. w = 0 => given[r] <= p
      <4>1. CycleAfter(n) - e.cicles <= 1
        BY <1>0, <1>1, <1>4 DEF Overrun, Diff
      <4>2. ~(cycle - e.cicles > 1)
        BY <1>0, <1>1, <4>1
      <4>3. QED
        BY <1>1, <4>2
    <3>2. b + w <= b + w
      BY <2>1, <2>3
    <3>3. QED
      BY <2>4, <3>1, <3>2
  <2>11. QED
    BY <2>5, <2>6, <2>7, <2>8, <2>9, <2>10
<1>5. QED
  BY <1>3, <1>4

(* A recipient that a step leaves alone: the laps only grow.               *)
LEMMA OthersStand ==
    ASSUME TypeOK, ChannelInv, NEW q \in Reader, cycle' \in Nat, cycle <= cycle',
           offsets'[q] = offsets[q], position'[q] = position[q], given'[q] = given[q]
    PROVE  Standing(q)'
<1>1. cycle \in Nat /\ Standing(q)
  BY DEF TypeOK, ChannelInv
<1>2. CASE IsReceiving(q)
  <2>1. offsets[q].cicles \in Nat
    BY <1>2 DEF IsReceiving, TypeOK, OffsetInfo
  <2>2. QED
    BY <1>1, <1>2, <2>1 DEF Standing, IsReceiving
<1>3. CASE ~IsReceiving(q)
  BY <1>1, <1>3 DEF Standing, IsReceiving
<1>4. QED
  BY <1>2, <1>3

LEMMA InitStands == Init => TypeOK /\ ChannelInv
<1> SUFFICES ASSUME Init PROVE TypeOK /\ ChannelInv
  OBVIOUS
<1>1. 0 \in Slot /\ 0 \in Nat /\ 0 \in 0 .. 0 /\ 0 \in 0 .. MaxWords
  BY SizeAssumption, MaxWordsAssumption DEF Slot
<1>2. TypeOK
  BY <1>1 DEF Init, TypeOK
<1>3. RingHoldsNewest
  BY SizeAssumption DEF Init, RingHoldsNewest
<1>4. \A r \in Reader : Standing(r)
  BY DEF Init, Standing, IsReceiving
<1>5. QED
  BY <1>2, <1>3, <1>4 DEF ChannelInv

LEMMA ReadStands ==
    ASSUME TypeOK, ChannelInv, NEW r \in Reader, NEW max \in 0 .. Size, NEW n \in 0 .. Size,
           ReceiveWordsRaw(r, max, n)
    PROVE  TypeOK' /\ ChannelInv'
<1>0. /\ total \in Nat /\ n \in Nat /\ cycle = total \div Size /\ total + n \in Nat
      /\ total' = total + n /\ total + n <= MaxWords
  BY Counted, SizeAssumption DEF ChannelInv, ReceiveWordsRaw
<1>1. /\ tail' = (total + n) % Size /\ tail' = TailAfter(n)
      /\ cycle' = (total + n) \div Size /\ cycle' = CycleAfter(n)
  BY <1>0, CountedAfter DEF ChannelInv, ReceiveWordsRaw
<1>2. /\ tail' \in Slot /\ tail' \in Nat /\ cycle' \in Nat /\ cycle <= cycle'
      /\ total' = Size * cycle' + tail'
  <2>1. total <= total + n
    BY <1>0
  <2>2. QED
    BY <1>0, <1>1, <2>1, DivMod, DivMonotonic
<1>3. TypeOK'
  <2>1. buffer' \in [Slot -> 0 .. total']
    BY <1>0, BufferType DEF ChannelInv, ReceiveWordsRaw
  <2>2. offsets' \in [Reader -> OffsetInfo \cup {NotReceiving}]
    <3>1. Synchronized(EntryOf(r), n, max) \in OffsetInfo
      BY ReadResult DEF ReceiveWordsRaw, TypeOK
    <3>2. QED
      BY <3>1 DEF ReceiveWordsRaw, TypeOK
  <2>3. position' \in [Reader -> 0 .. total']
    <3>1. position'[r] \in 0 .. total'
      BY <1>0, ReadResult
    <3>2. \A q \in Reader : q # r => position'[q] \in 0 .. total'
      BY <1>0 DEF ReceiveWordsRaw, TypeOK
    <3>3. position' = [q \in Reader |-> position'[q]]
      BY DEF ReceiveWordsRaw, TypeOK
    <3>4. QED
      BY <3>1, <3>2, <3>3
  <2>4. given' \in [Reader -> 0 .. total']
    <3>1. given'[r] \in 0 .. total'
      BY <1>0, ReadResult
    <3>2. \A q \in Reader : q # r => given'[q] \in 0 .. total'
      BY <1>0 DEF ReceiveWordsRaw, TypeOK
    <3>3. given' = [q \in Reader |-> given'[q]]
      BY DEF ReceiveWordsRaw, TypeOK
    <3>4. QED
      BY <3>1, <3>2, <3>3
  <2>5. total' \in 0 .. MaxWords
    BY <1>0, MaxWordsAssumption
  <2>6. QED
    BY <1>2, <2>1, <2>2, <2>3, <2>4, <2>5 DEF TypeOK
<1>4. RingHoldsNewest'
  <2>1. total' = cycle' * Size + tail'
    BY <1>2, SizeAssumption
  <2>2. ASSUME NEW k \in 1 .. total', k > total' - Size
        PROVE  buffer'[(k - 1) % Size] = k
    <3>1. k \in 1 .. total + n /\ k > total + n - Size
      BY <1>0, <2>2, SizeAssumption
    <3>2. BufferAfter(n)[(k - 1) % Size] = k
      BY <3>1, NewestAfter DEF ChannelInv
    <3>3. QED
      BY <3>2 DEF ReceiveWordsRaw
  <2>3. QED
    BY <2>1, <2>2 DEF RingHoldsNewest
<1>5. ASSUME NEW q \in Reader
      PROVE  Standing(q)'
  <2>1. CASE q = r
    <3>1. IsReceiving(r)'
      BY ReadResult, NotReceivingApart DEF IsReceiving
    <3>2. /\ offsets'[r].iterator = position'[r] % Size
          /\ position'[r] \div Size <= offsets'[r].cicles
          /\ given'[r] <= position'[r] \/ cycle' - offsets'[r].cicles > 1
      BY <1>1, ReadResult
    <3>3. QED
      BY <2>1, <3>1, <3>2 DEF Standing
  <2>2. CASE q # r
    BY <1>2, <2>2, OthersStand DEF ReceiveWordsRaw, TypeOK
  <2>3. QED
    BY <2>1, <2>2
<1>6. QED
  BY <1>3, <1>4, <1>5 DEF ChannelInv

LEMMA RingKept ==
    ASSUME TypeOK, ChannelInv, UNCHANGED <<ring, total>>
    PROVE  /\ RingHoldsNewest' /\ buffer' = buffer /\ tail' = tail /\ cycle' = cycle
           /\ total' = total /\ cycle' \in Nat /\ cycle <= cycle'
<1>1. buffer' = buffer /\ tail' = tail /\ cycle' = cycle /\ total' = total
  BY DEF ring
<1>2. cycle \in Nat
  BY DEF TypeOK
<1>3. QED
  BY <1>1, <1>2 DEF ChannelInv, RingHoldsNewest

LEMMA FailureStands ==
    ASSUME TypeOK, ChannelInv, NEW r \in Reader, ReceiveFails(r)
    PROVE  TypeOK' /\ ChannelInv'
<1>1. /\ RingHoldsNewest' /\ buffer' = buffer /\ tail' = tail /\ cycle' = cycle
      /\ total' = total /\ cycle' \in Nat /\ cycle <= cycle' /\ given' = given
  BY RingKept DEF ReceiveFails
<1>2. /\ EntryOf(r) \in OffsetInfo /\ PositionOf(r) \in 0 .. total
      /\ EntryOf(r).iterator = PositionOf(r) % Size
      /\ PositionOf(r) \div Size <= EntryOf(r).cicles
      /\ given[r] <= PositionOf(r) \/ cycle - EntryOf(r).cicles > 1
  BY EntryStands
<1>3. TypeOK'
  BY <1>1, <1>2 DEF ReceiveFails, TypeOK
<1>4. ASSUME NEW q \in Reader
      PROVE  Standing(q)'
  <2>1. CASE q = r
    <3>1. offsets'[r] = EntryOf(r) /\ position'[r] = PositionOf(r) /\ given'[r] = given[r]
      BY <1>1 DEF ReceiveFails, TypeOK
    <3>2. IsReceiving(r)'
      BY <1>2, <3>1, NotReceivingApart DEF IsReceiving
    <3>3. QED
      BY <1>1, <1>2, <2>1, <3>1, <3>2 DEF Standing
  <2>2. CASE q # r
    BY <1>1, <2>2, OthersStand DEF ReceiveFails, TypeOK
  <2>3. QED
    BY <2>1, <2>2
<1>5. QED
  BY <1>1, <1>3, <1>4 DEF ChannelInv

LEMMA ResetStands ==
    ASSUME TypeOK, ChannelInv, ResetBuffer
    PROVE  TypeOK' /\ ChannelInv'
<1>1. /\ RingHoldsNewest' /\ buffer' = buffer /\ tail' = tail /\ cycle' = cycle
      /\ total' = total /\ cycle' \in Nat /\ cycle <= cycle' /\ given' = given
  BY RingKept DEF ResetBuffer
<1>2. total \in Nat /\ tail = total % Size /\ cycle = total \div Size
  BY Counted DEF ChannelInv
<1>3. Here \in OffsetInfo /\ Here.iterator = tail /\ Here.cicles = cycle
  BY DEF Here, OffsetInfo, TypeOK
<1>4. TypeOK'
  <2>1. offsets' \in [Reader -> OffsetInfo \cup {NotReceiving}]
    BY <1>3 DEF ResetBuffer, TypeOK
  <2>2. position' \in [Reader -> 0 .. total]
    <3>1. total \in 0 .. total
      BY <1>2
    <3>2. QED
      BY <3>1 DEF ResetBuffer, TypeOK
  <2>3. QED
    BY <1>1, <2>1, <2>2 DEF TypeOK
<1>5. ASSUME NEW q \in Reader
      PROVE  Standing(q)'
  <2>1. CASE IsReceiving(q)
    <3>1. offsets'[q] = Here /\ position'[q] = total
      BY <2>1 DEF ResetBuffer
    <3>2. IsReceiving(q)'
      BY <1>3, <3>1, NotReceivingApart DEF IsReceiving
    <3>3. given'[q] <= total /\ total \div Size <= cycle
      <4>1. given[q] \in 0 .. total
        BY DEF TypeOK
      <4>2. total \div Size \in Nat
        BY <1>2, DivMod
      <4>3. QED
        BY <1>1, <1>2, <4>1, <4>2
    <3>4. QED
      BY <1>1, <1>2, <1>3, <3>1, <3>2, <3>3 DEF Standing
  <2>2. CASE ~IsReceiving(q)
    BY <1>1, <2>2, OthersStand DEF ResetBuffer
  <2>3. QED
    BY <2>1, <2>2
<1>6. QED
  BY <1>1, <1>4, <1>5 DEF ChannelInv

LEMMA RemovalStands ==
    ASSUME TypeOK, ChannelInv, NEW r \in Reader, RemoveRecipient(r)
    PROVE  TypeOK' /\ ChannelInv'
<1>1. /\ RingHoldsNewest' /\ buffer' = buffer /\ tail' = tail /\ cycle' = cycle
      /\ total' = total /\ cycle' \in Nat /\ cycle <= cycle'
  BY RingKept DEF RemoveRecipient
<1>2. 0 \in 0 .. total
  BY Counted DEF ChannelInv
<1>3. TypeOK'
  BY <1>1, <1>2 DEF RemoveRecipient, TypeOK
<1>4. ASSUME NEW q \in Reader
      PROVE  Standing(q)'
  <2>1. CASE q = r
    BY <2>1 DEF RemoveRecipient, TypeOK, Standing, IsReceiving
  <2>2. CASE q # r
    BY <1>1, <2>2, OthersStand DEF RemoveRecipient, TypeOK
  <2>3. QED
    BY <2>1, <2>2
<1>5. QED
  BY <1>1, <1>3, <1>4 DEF ChannelInv

LEMMA StepStands == TypeOK /\ ChannelInv /\ [Next]_vars => TypeOK' /\ ChannelInv'
<1> SUFFICES ASSUME TypeOK, ChannelInv, [Next]_vars PROVE TypeOK' /\ ChannelInv'
  OBVIOUS
<1>1. CASE \E r \in Reader, max \in 0 .. Size, n \in 0 .. Size : ReceiveWordsRaw(r, max, n)
  BY <1>1, ReadStands
<1>2. CASE \E r \in Reader : ReceiveFails(r)
  BY <1>2, FailureStands
<1>3. CASE \E r \in Reader : RemoveRecipient(r)
  BY <1>3, RemovalStands
<1>4. CASE ResetBuffer
  BY <1>4, ResetStands
<1>5. CASE UNCHANGED vars
  BY <1>5 DEF vars, TypeOK, ChannelInv, RingHoldsNewest, Standing, IsReceiving
<1>6. QED
  BY <1>1, <1>2, <1>3, <1>4, <1>5 DEF Next

LEMMA AlwaysStands == Spec => [](TypeOK /\ ChannelInv)
BY InitStands, StepStands, PTL DEF Spec

-----------------------------------------------------------------------------
(* The results                                                             *)

(* Every variable of the channel keeps its type: no slot and no iterator   *)
(* leaves the ring, and nobody is ahead of the library.                    *)
THEOREM TypeCorrect == Spec => []TypeOK
BY AlwaysStands, PTL

(* CircleBuffer::Add, for a ring of any size and adds of any length up to  *)
(* it: the ring always holds the newest words, each in its own slot.       *)
THEOREM HoldsNewest == Spec => []RingHoldsNewest
<1>1. TypeOK /\ ChannelInv => RingHoldsNewest
  BY DEF ChannelInv
<1>2. QED
  BY <1>1, AlwaysStands, PTL

LEMMA ReadsOf ==
    ASSUME NEW q \in Reads
    PROVE  q[1] \in Reader /\ q[2] \in 0 .. Size /\ q[3] \in 0 .. Size /\ q[3] <= q[2]
BY DEF Reads

LEMMA Ordered ==
    ASSUME TypeOK, ChannelInv, NEW r \in Reader, NEW max \in 0 .. Size, NEW n \in 0 .. Size,
           n <= max, NEW words, words = Delivered(EntryOf(r), n, max)
    PROVE  /\ Len(words) <= max
           /\ \A i \in 1 .. Len(words) : words[i] > given[r]
           /\ \A i, j \in 1 .. Len(words) : i < j => words[i] < words[j]
<1>1. total \in Nat /\ n \in Nat /\ max \in Nat /\ cycle = total \div Size /\ cycle \in Nat
  BY Counted, SizeAssumption DEF ChannelInv, TypeOK
<1>2. /\ PositionOf(r) \in 0 .. total /\ given[r] \in 0 .. total
      /\ EntryOf(r).cicles \in Nat
      /\ given[r] <= PositionOf(r) \/ cycle - EntryOf(r).cicles > 1
  BY EntryStands
<1>3. SUFFICES ASSUME NEW w \in Nat, NEW b \in Nat, w <= max, given[r] <= b,
                      words = [i \in 1 .. w |-> b + i]
               PROVE  /\ Len(words) <= max
                      /\ \A i \in 1 .. Len(words) : words[i] > given[r]
                      /\ \A i, j \in 1 .. Len(words) : i < j => words[i] < words[j]
  <2>1. CASE Overrun(EntryOf(r), n)
    <3>1. words = [i \in 1 .. n |-> total + i]
      BY <2>1 DEF Delivered
    <3>2. given[r] <= total
      BY <1>1, <1>2
    <3>3. QED
      BY <1>1, <1>3, <3>1, <3>2
  <2>2. CASE ~Overrun(EntryOf(r), n)
    <3> DEFINE b == total + n - Found(r, n)
    <3>1. words = [i \in 1 .. Copied(r, n, max) |-> b + i]
      BY <2>2, Delivery
    <3>2. /\ Copied(r, n, max) \in 0 .. max /\ Found(r, n) \in 0 .. Size - 1
          /\ Found(r, n) <= total + n - PositionOf(r)
      BY FoundType
    <3>3. Copied(r, n, max) \in Nat /\ Copied(r, n, max) <= max
      BY <1>1, <3>2
    <3>4. b \in Nat /\ PositionOf(r) <= b
      <4>1. Found(r, n) \in Nat /\ PositionOf(r) \in Nat
        BY <1>1, <1>2, <3>2, SizeAssumption
      <4>2. QED
        BY <1>1, <3>2, <4>1
    <3>5. given[r] <= PositionOf(r)
      <4>1. CycleAfter(n) \in Nat /\ cycle <= CycleAfter(n)
        <5>1. total + n \in Nat /\ total <= total + n
          BY <1>1
        <5>2. QED
          BY <1>1, <5>1, CountedAfter, DivMonotonic, DivMod DEF ChannelInv
      <4>2. CycleAfter(n) - EntryOf(r).cicles <= 1
        BY <1>2, <2>2, <4>1 DEF Overrun, Diff
      <4>3. QED
        BY <1>1, <1>2, <4>1, <4>2
    <3> HIDE DEF b
    <3>6. given[r] <= b
      BY <1>2, <3>4, <3>5, <1>1
    <3>7. QED
      BY <1>3, <3>1, <3>3, <3>4, <3>6
  <2>3. QED
    BY <2>1, <2>2
<1>4. Len(words) = w /\ \A i \in 1 .. w : words[i] = b + i
  BY <1>3
<1>5. QED
  BY <1>1, <1>2, <1>3, <1>4

(* SynchronizeWithBuffer, for any number of recipients: whatever a         *)
(* recipient is given, by the ring or past it, comes in the order of the   *)
(* stream and after everything it was given before, in the room it has.    *)
THEOREM OrderedOnce == Spec => []InOrderOnce
<1>1. ASSUME TypeOK, ChannelInv PROVE InOrderOnce
  <2>1. SUFFICES ASSUME NEW q \in Reads
                 PROVE  LET words == DeliveredBy(q)
                        IN  /\ Len(words) <= q[2]
                            /\ \A i \in 1 .. Len(words) : words[i] > given[q[1]]
                            /\ \A i, j \in 1 .. Len(words) : i < j => words[i] < words[j]
    BY DEF InOrderOnce
  <2>2. q[1] \in Reader /\ q[2] \in 0 .. Size /\ q[3] \in 0 .. Size /\ q[3] <= q[2]
    BY ReadsOf
  <2>3. QED
    BY <1>1, <2>2, Ordered DEF DeliveredBy
<1>2. QED
  BY <1>1, AlwaysStands, PTL

(* A recipient that counts as overrun is behind by more than the ring      *)
(* holds: the lap it has noted is not before that of its position.         *)
LEMMA OverrunIsBehind ==
    ASSUME TypeOK, ChannelInv, NEW r \in Reader, NEW n \in 0 .. Size,
           Overrun(EntryOf(r), n)
    PROVE  total + n - PositionOf(r) > Size
<1> DEFINE p == PositionOf(r)
           qp == p \div Size
           qt == (total + n) \div Size
<1>1. total \in Nat /\ n \in Nat /\ p \in 0 .. total /\ EntryOf(r).cicles \in Nat
      /\ qp <= EntryOf(r).cicles /\ total + n \in Nat /\ p \in Nat
  BY EntryStands, Counted, SizeAssumption DEF ChannelInv
<1>2. CycleAfter(n) = qt
  BY <1>1, CountedAfter DEF ChannelInv
<1>3. /\ p = Size * qp + (p % Size) /\ qp \in Nat /\ p % Size \in 0 .. Size - 1
      /\ total + n = Size * qt + ((total + n) % Size) /\ qt \in Nat
      /\ (total + n) % Size \in Nat
  BY <1>1, DivMod DEF Slot
<1>4. qt - qp - 1 >= 1
  BY <1>1, <1>2, <1>3 DEF Overrun, Diff
<1> HIDE DEF p, qp, qt
<1>5. Size * (qt - qp - 1) >= Size
  BY <1>3, <1>4, Laps
<1>6. Size * (qt - qp - 1) = Size * qt - Size * qp - Size
  BY <1>3, SizeAssumption
<1>7. (total + n) - p > Size
  BY <1>1, <1>3, <1>5, <1>6, SizeAssumption
<1>8. QED
  BY <1>1, <1>7 DEF p

(* What is skipped is what Found leaves of the distance.                   *)
LagOf(r, n) == total + n - PositionOf(r)
SkippedBy(r, n) == Size * (LagOf(r, n) \div Size)

LEMMA Skipped ==
    ASSUME TypeOK, ChannelInv, NEW r \in Reader, NEW max \in 0 .. Size, NEW n \in 0 .. Size,
           ~Overrun(EntryOf(r), n)
    PROVE  Delivered(EntryOf(r), n, max)
             = [i \in 1 .. Smaller(LagOf(r, n) - SkippedBy(r, n), max) |->
                  PositionOf(r) + SkippedBy(r, n) + i]
<1> DEFINE p == PositionOf(r)
           f == Found(r, n)
           lag == LagOf(r, n)
           skipped == SkippedBy(r, n)
<1>0. total \in Nat /\ n \in Nat /\ p \in 0 .. total
  BY EntryStands, Counted, SizeAssumption DEF ChannelInv
<1>1. lag \in Nat
  BY FoundType DEF LagOf
<1>2. f = lag % Size /\ skipped = Size * (lag \div Size)
  BY DEF Found, LagOf, SkippedBy
<1> HIDE DEF lag, skipped, f
<1>3. lag = skipped + f /\ skipped \in Nat /\ f \in Nat
  BY <1>1, <1>2, DivMod, SizeAssumption
<1> USE DEF f
<1>4. Delivered(EntryOf(r), n, max)
        = [i \in 1 .. Smaller(f, max) |-> total + n - f + i]
  BY Delivery DEF Copied
<1> HIDE DEF p, f
<1>5. lag - skipped = f /\ total + n - f = p + skipped
  <2>1. lag = total + n - p
    BY DEF p, lag, LagOf
  <2>2. QED
    BY <1>0, <1>1, <1>3, <2>1
<1>6. [i \in 1 .. Smaller(f, max) |-> total + n - f + i]
        = [i \in 1 .. Smaller(lag - skipped, max) |-> p + skipped + i]
  BY <1>5, Zenon
<1>7. QED
  BY <1>4, <1>6 DEF p, lag, skipped

(* SynchronizeWithBuffer, for a ring of any size: a recipient that does    *)
(* not count as overrun gets exactly the words it has not had, less all    *)
(* the full rings it is behind; one that does has lost words.              *)
THEOREM WholeRingsSkipped == Spec => []SkipsWholeRings
<1>1. ASSUME TypeOK, ChannelInv PROVE SkipsWholeRings
  <2>1. SUFFICES ASSUME NEW q \in Reads
                 PROVE  IF Overrun(EntryOf(q[1]), q[3]) THEN Lag(q) > Size
                        ELSE LET skipped == Size * (Lag(q) \div Size)
                             IN  DeliveredBy(q) = [i \in 1 .. Smaller(Lag(q) - skipped, q[2]) |->
                                                     PositionOf(q[1]) + skipped + i]
    BY DEF SkipsWholeRings
  <2>2. q[1] \in Reader /\ q[2] \in 0 .. Size /\ q[3] \in 0 .. Size
    BY ReadsOf
  <2>3. Lag(q) = total + q[3] - PositionOf(q[1])
    BY DEF Lag
  <2>4. CASE Overrun(EntryOf(q[1]), q[3])
    BY <1>1, <2>2, <2>3, <2>4, OverrunIsBehind
  <2>5. CASE ~Overrun(EntryOf(q[1]), q[3])
    <3>1. Delivered(EntryOf(q[1]), q[3], q[2])
            = [i \in 1 .. Smaller(LagOf(q[1], q[3]) - SkippedBy(q[1], q[3]), q[2]) |->
                 PositionOf(q[1]) + SkippedBy(q[1], q[3]) + i]
      BY <1>1, <2>2, <2>5, Skipped
    <3>2. LagOf(q[1], q[3]) = Lag(q) /\ SkippedBy(q[1], q[3]) = Size * (Lag(q) \div Size)
      BY <2>3 DEF LagOf, SkippedBy
    <3>3. QED
      BY <2>5, <3>1, <3>2, Zenon DEF DeliveredBy
  <2>6. QED
    BY <2>4, <2>5
<1>2. QED
  BY <1>1, AlwaysStands, PTL

(* CircleBuffer::Add of many words is Add of one, word after word, for a   *)
(* ring of any size.                                                       *)
THEOREM AddsOneAfterAnother == Spec => []AddsOneByOne
<1>1. TypeOK /\ ChannelInv => AddsOneByOne
  BY OneMore DEF ChannelInv
<1>2. QED
  BY <1>1, AlwaysStands, PTL
-----------------------------------------------------------------------------
(* The loop                                                                *)

(* Add(data, count) as it runs: the ring is found as it is, and every turn *)
(* of the loop adds the next of the words.  The variables of InputChannel  *)
(* are the ring at the time of the call.                                   *)
VARIABLES
    added,  \* i of the loop: words stored so far
    now     \* the ring while the call is under way

LoopStart == TypeOK /\ RingHoldsNewest /\ added = 0 /\ now = RingNow

LoopStep(count) ==
    /\ added < count
    /\ now' = AddOne(now, total + added + 1)
    /\ added' = added + 1
    /\ UNCHANGED vars

LoopSpec(count) == LoopStart /\ [][LoopStep(count)]_<<added, now, vars>>

(* The loop of CircleBuffer::Add computes the closed form InputChannel     *)
(* uses: after every turn the ring is what RingAfter says, for any ring    *)
(* and any number of words it can hold.                                    *)
THEOREM LoopComputesClosedForm ==
    ASSUME NEW count \in 0 .. Size
    PROVE  LoopSpec(count) => [](added \in 0 .. count /\ now = RingAfter(added))
<1> DEFINE LoopInv == /\ TypeOK /\ RingHoldsNewest
                      /\ added \in 0 .. count /\ now = RingAfter(added)
<1>1. LoopStart => LoopInv
  <2>1. 0 \in 0 .. count
    BY SizeAssumption
  <2>2. QED
    BY <2>1, OneMore DEF LoopStart, AddsOneByOne
<1>2. ASSUME LoopInv, [LoopStep(count)]_<<added, now, vars>>
      PROVE  LoopInv'
  <2>1. UNCHANGED vars
    BY <1>2 DEF LoopStep
  <2>2. TypeOK' /\ RingHoldsNewest'
    BY <1>2, <2>1 DEF TypeOK, RingHoldsNewest, vars
  <2>3. RingAfter(added)' = RingAfter(added')
    BY <2>1 DEF vars, RingAfter, BufferAfter, LastInto, TailAfter, CycleAfter
  <2>4. CASE LoopStep(count)
    <3>1. added \in 0 .. Size - 1 /\ added + 1 \in 0 .. count
      BY <1>2, <2>4, SizeAssumption DEF LoopStep
    <3>2. RingAfter(added + 1) = AddOne(RingAfter(added), total + added + 1)
      BY <1>2, <3>1, OneMore DEF AddsOneByOne
    <3>3. added' = added + 1 /\ now' = RingAfter(added + 1)
      BY <1>2, <2>4, <3>2 DEF LoopStep
    <3>4. QED
      BY <2>1, <2>2, <3>1, <3>3, <2>3
  <2>5. CASE UNCHANGED <<added, now, vars>>
    <3>1. added' = added /\ now' = now
      BY <2>5
    <3>2. QED
      BY <1>2, <2>2, <2>3, <3>1
  <2>6. QED
    BY <1>2, <2>4, <2>5
<1>3. LoopInv => added \in 0 .. count /\ now = RingAfter(added)
  OBVIOUS
<1>4. QED
  BY <1>1, <1>2, <1>3, PTL DEF LoopSpec
=============================================================================
