--------------------------- MODULE RingBufferProofs ---------------------------
(***************************************************************************)
(* Proofs about RingBuffer, for a ring of any size, any number of laps,    *)
(* any calls and any interleaving of the two threads.                      *)
(*                                                                         *)
(* The remainders are the difficulty: the first part reduces them (by the  *)
(* lemmas of ModularArithmetic) to one fact, SlotNear, after which every   *)
(* position is a slot plus a distance below Size and the rest is linear    *)
(* arithmetic.  The second part says what the steps do to one call, the    *)
(* third that the invariant IInv is inductive, and the last what follows   *)
(* for the contents of the ring.                                           *)
(***************************************************************************)
EXTENDS RingBuffer, ModularArithmetic, SequenceTheorems, TLAPS

-----------------------------------------------------------------------------
(***************************************************************************)
(* Positions and slots.                                                    *)
(***************************************************************************)
Positions == 0 .. Wrap - 1

LEMMA SizePositive == Size \in Nat \ {0} /\ Laps \in Nat \ {0} /\ Wrap \in Nat \ {0}
<1>1. Size \in Nat \ {0} /\ Laps \in Nat \ {0}
  BY SizeAssumption
<1>2. Size * Laps >= Size * 1
  BY <1>1
<1> QED BY <1>1, <1>2 DEF Wrap

LEMMA SlotRange == ASSUME NEW p \in Int PROVE Slot(p) \in 0 .. Size - 1
BY SizePositive, ModRange DEF Slot

LEMMA SlotAdd ==
  ASSUME NEW a \in Int, NEW k \in Int
  PROVE  Slot(a + k) = (Slot(a) + k) % Size
<1>1. Size \in Nat \ {0}
  BY SizePositive
<1>2. ((a % Size) + k) % Size = (a + k) % Size
  BY <1>1, ModAdd
<1> QED BY <1>2 DEF Slot

(* Whole rings and whole laps do not change the slot.                      *)
LEMMA SlotLap ==
  ASSUME NEW a \in Int
  PROVE  Slot(a % Wrap) = Slot(a)
<1>1. Size \in Nat \ {0} /\ Laps \in Nat \ {0}
  BY SizePositive
<1>2. (a % (Size * Laps)) % Size = a % Size
  BY <1>1, ModMod
<1> QED BY <1>2 DEF Slot, Wrap

LEMMA SlotRing ==
  ASSUME NEW a \in Int, NEW q \in Int
  PROVE  Slot(a + Size * q) = Slot(a)
<1>1. Size \in Nat \ {0}
  BY SizePositive
<1>2. (a + Size * q) % Size = a % Size
  BY <1>1, ModShift
<1> QED BY <1>2 DEF Slot

LEMMA SlotSmall ==
  ASSUME NEW a \in Int
  PROVE  /\ a \in 0 .. Size - 1 => Slot(a) = a
         /\ a \in Size .. 2 * Size - 1 => Slot(a) = a - Size
         /\ a \in -Size .. -1 => Slot(a) = a + Size
<1>1. Size \in Nat \ {0}
  BY SizePositive
<1>2. /\ a \in 0 .. Size - 1 => a % Size = a
      /\ a \in Size .. 2 * Size - 1 => a % Size = a - Size
      /\ a \in -Size .. -1 => a % Size = a + Size
  BY <1>1, SmallMod
<1> QED BY <1>2 DEF Slot

LEMMA SlotNear ==
  ASSUME NEW p \in Int, NEW k \in 0 .. Size
  PROVE  Slot(p + k) = IF Slot(p) + k < Size THEN Slot(p) + k
                                             ELSE Slot(p) + k - Size
<1>0. k \in Int /\ Size \in Nat \ {0}
  BY SizePositive
<1>1. Slot(p + k) = (Slot(p) + k) % Size
  BY <1>0, SlotAdd
<1>2. Slot(p) \in 0 .. Size - 1
  BY SlotRange
<1> DEFINE a == Slot(p) + k
<1>3. a \in Int /\ a >= 0 /\ a <= 2 * Size - 1
  BY <1>0, <1>2
<1>4. Slot(p + k) = Slot(a)
  BY <1>1 DEF Slot
<1>5. /\ a \in 0 .. Size - 1 => Slot(a) = a
      /\ a \in Size .. 2 * Size - 1 => Slot(a) = a - Size
  BY <1>3, SlotSmall
<1>6. a = Slot(p) + k
  BY DEF a
<1> HIDE DEF a
<1>7. Slot(p + k) = IF a < Size THEN a ELSE a - Size
  BY <1>0, <1>3, <1>4, <1>5
<1> QED BY <1>0, <1>2, <1>6, <1>7

LEMMA AdvancedSlot ==
  ASSUME NEW p \in Positions, NEW n \in Nat, NEW k \in Int
  PROVE  /\ Advanced(p, n) \in Positions
         /\ Slot(Advanced(p, n) + k) = Slot(p + n + k)
<1>0. Wrap \in Nat \ {0} /\ p \in Int /\ p + n \in Int /\ p + n + k \in Int
  BY SizePositive DEF Positions
<1>1. Advanced(p, n) \in Positions
  BY <1>0, ModRange DEF Advanced, Positions
<1>2. Slot(Advanced(p, n)) = Slot(p + n)
  BY <1>0, SlotLap DEF Advanced
<1>3. Advanced(p, n) \in Int
  BY <1>0, <1>1 DEF Positions
<1>4. Slot(Advanced(p, n) + k) = (Slot(Advanced(p, n)) + k) % Size
  BY <1>3, SlotAdd
<1>5. Slot((p + n) + k) = (Slot(p + n) + k) % Size
  BY <1>0, SlotAdd
<1> QED BY <1>1, <1>2, <1>4, <1>5

(* The distance from one position to another, along the ring.              *)
Between(r, w) == Slot((w - r) % Wrap)

LEMMA Regroup ==
  ASSUME NEW a \in Int, NEW b \in Int, NEW c \in Int
  PROVE  a + b + c = a + (b + c)
OBVIOUS

LEMMA Differences ==
  ASSUME NEW n \in Nat, NEW a \in Int, NEW b \in Int, NEW p \in Int, NEW q \in Int
  PROVE  /\ (n * q + b) - (n * p + a) = (b - a) + n * (q - p)
         /\ (n * p + a) - (n * q + b) - 1 = (a - b - 1) + n * (p - q)
OBVIOUS

LEMMA BetweenSlots ==
  ASSUME NEW r \in Positions, NEW w \in Positions
  PROVE  /\ Between(r, w) \in 0 .. Size - 1
         /\ Between(r, w) = IF Slot(w) >= Slot(r) THEN Slot(w) - Slot(r)
                                                  ELSE Slot(w) - Slot(r) + Size
         /\ Slot((r - w - 1) % Wrap) = Size - 1 - Between(r, w)
<1>0. /\ r \in Int /\ w \in Int /\ w - r \in Int /\ r - w - 1 \in Int
      /\ Wrap \in Nat \ {0} /\ Size \in Nat \ {0}
  BY SizePositive DEF Positions
<1>1. Slot((w - r) % Wrap) = Slot(w - r) /\ Slot((r - w - 1) % Wrap) = Slot(r - w - 1)
  BY <1>0, SlotLap
<1> DEFINE qr == r \div Size  qw == w \div Size  a == Slot(r)  b == Slot(w)
<1>2. /\ r = Size * qr + a /\ w = Size * qw + b
      /\ qr \in Int /\ qw \in Int
  BY <1>0, ModQ DEF Slot
<1>3. a \in 0 .. Size - 1 /\ b \in 0 .. Size - 1
  BY <1>0, SlotRange
<1> HIDE DEF qr, qw, a, b
<1>4. a \in Int /\ b \in Int /\ b - a \in Int /\ a - b - 1 \in Int
      /\ qw - qr \in Int /\ qr - qw \in Int
  BY <1>0, <1>2, <1>3
<1>5. /\ w - r = (b - a) + Size * (qw - qr)
      /\ r - w - 1 = (a - b - 1) + Size * (qr - qw)
  <2>1. /\ (Size * qw + b) - (Size * qr + a) = (b - a) + Size * (qw - qr)
        /\ (Size * qr + a) - (Size * qw + b) - 1 = (a - b - 1) + Size * (qr - qw)
    BY <1>0, <1>2, <1>4, Differences
  <2> QED BY <2>1, <1>2, Zenon
<1>6. Slot(w - r) = Slot(b - a) /\ Slot(r - w - 1) = Slot(a - b - 1)
  BY <1>4, <1>5, SlotRing
<1>7. Slot(b - a) = IF b >= a THEN b - a ELSE b - a + Size
  <2>1. /\ b - a \in 0 .. Size - 1 => Slot(b - a) = b - a
        /\ b - a \in -Size .. -1 => Slot(b - a) = b - a + Size
    BY <1>4, SlotSmall
  <2> QED BY <2>1, <1>0, <1>3
<1>8. Slot(a - b - 1) = IF b >= a THEN a - b - 1 + Size ELSE a - b - 1
  <2>1. /\ a - b - 1 \in 0 .. Size - 1 => Slot(a - b - 1) = a - b - 1
        /\ a - b - 1 \in -Size .. -1 => Slot(a - b - 1) = a - b - 1 + Size
    BY <1>4, SlotSmall
  <2> QED BY <2>1, <1>0, <1>3
<1>9. /\ Between(r, w) = IF b >= a THEN b - a ELSE b - a + Size
      /\ Slot((r - w - 1) % Wrap) = IF b >= a THEN a - b - 1 + Size ELSE a - b - 1
  BY <1>1, <1>6, <1>7, <1>8 DEF Between
<1>10. /\ Between(r, w) \in 0 .. Size - 1
       /\ Slot((r - w - 1) % Wrap) = Size - 1 - Between(r, w)
  BY <1>0, <1>3, <1>9
<1> QED BY <1>9, <1>10 DEF a, b

(* What a step of n bytes does to the distance.                            *)
LEMMA AfterPublish ==
  ASSUME NEW r \in Positions, NEW w \in Positions,
         NEW n \in Nat, n <= Size - 1 - Between(r, w)
  PROVE  Between(r, Advanced(w, n)) = Between(r, w) + n
<1> DEFINE v == Advanced(w, n)
<1>0. Size \in Nat \ {0} /\ r \in Int /\ w \in Int /\ w + n \in Int
  BY SizePositive DEF Positions
<1>1. v \in Positions /\ Slot(v + 0) = Slot(w + n + 0)
  BY AdvancedSlot
<1>2. v + 0 = v /\ w + n + 0 = w + n
  BY <1>0, <1>1 DEF Positions
<1>3. Slot(v) = Slot(w + n)
  BY <1>1, <1>2
<1>4. /\ Between(r, w) \in 0 .. Size - 1
      /\ Between(r, w) = IF Slot(w) >= Slot(r) THEN Slot(w) - Slot(r)
                                               ELSE Slot(w) - Slot(r) + Size
  BY BetweenSlots
<1>5. Between(r, v) = IF Slot(v) >= Slot(r) THEN Slot(v) - Slot(r)
                                            ELSE Slot(v) - Slot(r) + Size
  BY <1>1, BetweenSlots
<1> HIDE DEF v
<1>6. Slot(w + n) = IF Slot(w) + n < Size THEN Slot(w) + n ELSE Slot(w) + n - Size
  <2>1. n \in 0 .. Size
    BY <1>0, <1>4
  <2> QED BY <2>1, <1>0, SlotNear
<1>7. Slot(r) \in 0 .. Size - 1 /\ Slot(w) \in 0 .. Size - 1
  BY <1>0, SlotRange
<1>8. Between(r, v) = Between(r, w) + n
  BY <1>0, <1>3, <1>4, <1>5, <1>6, <1>7
<1> QED BY <1>8 DEF v

LEMMA AfterTake ==
  ASSUME NEW r \in Positions, NEW w \in Positions,
         NEW n \in Nat, n <= Between(r, w)
  PROVE  Between(Advanced(r, n), w) = Between(r, w) - n
<1> DEFINE v == Advanced(r, n)
<1>0. Size \in Nat \ {0} /\ r \in Int /\ w \in Int /\ r + n \in Int
  BY SizePositive DEF Positions
<1>1. v \in Positions /\ Slot(v + 0) = Slot(r + n + 0)
  BY AdvancedSlot
<1>2. v + 0 = v /\ r + n + 0 = r + n
  BY <1>0, <1>1 DEF Positions
<1>3. Slot(v) = Slot(r + n)
  BY <1>1, <1>2
<1>4. /\ Between(r, w) \in 0 .. Size - 1
      /\ Between(r, w) = IF Slot(w) >= Slot(r) THEN Slot(w) - Slot(r)
                                               ELSE Slot(w) - Slot(r) + Size
  BY BetweenSlots
<1>5. Between(v, w) = IF Slot(w) >= Slot(v) THEN Slot(w) - Slot(v)
                                            ELSE Slot(w) - Slot(v) + Size
  BY <1>1, BetweenSlots
<1> HIDE DEF v
<1>6. Slot(r + n) = IF Slot(r) + n < Size THEN Slot(r) + n ELSE Slot(r) + n - Size
  <2>1. n \in 0 .. Size
    BY <1>0, <1>4
  <2> QED BY <2>1, <1>0, SlotNear
<1>7. Slot(r) \in 0 .. Size - 1 /\ Slot(w) \in 0 .. Size - 1
  BY <1>0, SlotRange
<1>8. Between(v, w) = Between(r, w) - n
  BY <1>0, <1>3, <1>4, <1>5, <1>6, <1>7
<1> QED BY <1>8 DEF v

(* Byte k behind the write position is byte Between + k of the consumer.   *)
LEMMA SlotBehind ==
  ASSUME NEW r \in Positions, NEW w \in Positions,
         NEW k \in Nat, Between(r, w) + k < Size
  PROVE  Slot(w + k) = Slot(r + Between(r, w) + k)
<1>0. Size \in Nat \ {0} /\ r \in Int /\ w \in Int
  BY SizePositive DEF Positions
<1>1. /\ Between(r, w) \in 0 .. Size - 1
      /\ Between(r, w) = IF Slot(w) >= Slot(r) THEN Slot(w) - Slot(r)
                                               ELSE Slot(w) - Slot(r) + Size
  BY BetweenSlots
<1>2. Slot(w + k) = IF Slot(w) + k < Size THEN Slot(w) + k ELSE Slot(w) + k - Size
  <2>1. k \in 0 .. Size
    BY <1>0, <1>1
  <2> QED BY <2>1, <1>0, SlotNear
<1> DEFINE d == Between(r, w) + k
<1>3. d \in 0 .. Size /\ r + Between(r, w) + k = r + d
  BY <1>0, <1>1
<1>4. Slot(r + d) = IF Slot(r) + d < Size THEN Slot(r) + d ELSE Slot(r) + d - Size
  BY <1>0, <1>3, SlotNear
<1>5. Slot(r) \in 0 .. Size - 1 /\ Slot(w) \in 0 .. Size - 1
  BY <1>0, SlotRange
<1>6. Slot(w + k) = Slot(r + d)
  BY <1>0, <1>1, <1>2, <1>4, <1>5
<1> QED BY <1>3, <1>6

(* Two bytes less than a ring apart lie in different slots.                *)
LEMMA SlotsApart ==
  ASSUME NEW p \in Int, NEW i \in 0 .. Size - 1, NEW j \in 0 .. Size - 1, i # j
  PROVE  Slot(p + i) # Slot(p + j)
<1>0. Size \in Nat \ {0} /\ i \in 0 .. Size /\ j \in 0 .. Size
  BY SizePositive
<1>1. Slot(p + i) = IF Slot(p) + i < Size THEN Slot(p) + i ELSE Slot(p) + i - Size
  BY <1>0, SlotNear
<1>2. Slot(p + j) = IF Slot(p) + j < Size THEN Slot(p) + j ELSE Slot(p) + j - Size
  BY <1>0, SlotNear
<1>3. Slot(p) \in 0 .. Size - 1
  BY SlotRange
<1> QED BY <1>0, <1>1, <1>2, <1>3

(* The split memcpy puts byte k where an unbounded position would.         *)
LEMMA ByteAtSlot ==
  ASSUME NEW p \in Int, NEW k \in 0 .. Size - 1
  PROVE  ByteAt(p, k) = Slot(p + k)
<1>0. Size \in Nat \ {0} /\ k \in 0 .. Size /\ Slot(p) \in 0 .. Size - 1
  BY SizePositive, SlotRange
<1>1. Slot(p + k) = IF Slot(p) + k < Size THEN Slot(p) + k ELSE Slot(p) + k - Size
  BY <1>0, SlotNear
<1>2. AtEnd(p) \in 0 .. Size /\ AtEnd(p) = Size - Slot(p)
  BY <1>0 DEF AtEnd
<1>3. Slot(p + AtEnd(p)) = 0
  <2>1. Slot(p + AtEnd(p)) = IF Slot(p) + AtEnd(p) < Size THEN Slot(p) + AtEnd(p)
                                                       ELSE Slot(p) + AtEnd(p) - Size
    BY <1>2, SlotNear
  <2> QED BY <2>1, <1>0, <1>2
<1>4. ByteAt(p, k) = IF k < AtEnd(p) THEN Slot(p) + k ELSE 0 + (k - AtEnd(p))
  BY <1>3 DEF ByteAt, CopySlot
<1> QED BY <1>0, <1>1, <1>2, <1>4

-----------------------------------------------------------------------------
(***************************************************************************)
(* Calls.                                                                  *)
(***************************************************************************)
Sized(c) ==
  /\ c.pc # "idle" => c.op # "none" /\ c.step > 0 /\ c.left > 0
  /\ c.op = "fully" => c.step <= Size \div 2

Sound(c) == CallType(c) /\ Sized(c)

LEMMA IdleSound == Sound(Idle) /\ Idle.pc = "idle" /\ Idle.op = "none" /\ Idle.data = <<>>
<1>1. Idle \in Calls
  BY SizePositive DEF Idle, Calls
<1>2. Len(Idle.data) <= Chunk(Idle)
  BY DEF Idle, Chunk
<1> QED BY <1>1, <1>2 DEF Idle, Sound, CallType, Sized

LEMMA CallSound ==
  ASSUME NEW op \in {"steps", "advance", "fully", "peek"},
         NEW n \in Nat \ {0}, NEW left \in Nat \ {0},
         op = "fully" => n <= Size \div 2
  PROVE  /\ Sound(Call(op, n, left))
         /\ Call(op, n, left).pc = "check" /\ Call(op, n, left).op = op
         /\ Call(op, n, left).data = <<>>
         /\ Call(op, n, left).step = n /\ Call(op, n, left).left = left
<1>1. Call(op, n, left) \in Calls
  BY SizePositive DEF Call, Calls
<1>2. Len(Call(op, n, left).data) <= Chunk(Call(op, n, left))
  BY DEF Call, Chunk
<1> QED BY <1>1, <1>2 DEF Call, Sound, CallType, Sized

LEMMA FullyStep ==
  ASSUME NEW n \in Nat \ {0}
  PROVE  get_step_size(n) \in Nat \ {0} /\ get_step_size(n) <= Size \div 2
<1>1. Size \in Nat /\ Size > 1
  BY SizeAssumption
<1>2. Size \div 2 \in Nat /\ Size \div 2 >= 1
  BY <1>1
<1> QED BY <1>2 DEF get_step_size

LEMMA StepsProduct ==
  ASSUME NEW n \in StepSizes, NEW c \in Counts
  PROVE  n \in Nat \ {0} /\ n * c \in Nat \ {0}
<1>1. n \in Nat \ {0} /\ c \in Nat \ {0}
  BY CallAssumption
<1>2. n * c >= n * 1
  BY <1>1
<1> QED BY <1>1, <1>2

LEMMA ChunkBounds ==
  ASSUME NEW c, Sound(c), c.pc # "idle"
  PROVE  /\ Chunk(c) \in Nat \ {0} /\ Chunk(c) <= c.left /\ Chunk(c) <= c.step
         /\ c.left \in Nat /\ c.step \in Nat
         /\ c.data \in Seq(Byte) /\ Len(c.data) \in Nat /\ Len(c.data) <= Chunk(c)
BY DEF Sound, CallType, Sized, Calls, Chunk

LEMMA AtSound ==
  ASSUME NEW c, Sound(c), c.pc # "idle",
         NEW place \in {"check", "copy", "abort", "measure", "peek"}
  PROVE  /\ Sound(At(c, place)) /\ At(c, place).pc = place
         /\ At(c, place).op = c.op /\ At(c, place).step = c.step
         /\ At(c, place).left = c.left /\ At(c, place).data = c.data
         /\ At(c, place).atEnd = c.atEnd
         /\ Chunk(At(c, place)) = Chunk(c)
<1>1. c \in Calls
  BY DEF Sound, CallType
<1>2. At(c, place) \in Calls
  BY <1>1 DEF At, Calls
<1>3. /\ At(c, place).pc = place /\ At(c, place).op = c.op
      /\ At(c, place).step = c.step /\ At(c, place).left = c.left
      /\ At(c, place).data = c.data /\ At(c, place).atEnd = c.atEnd
  BY <1>1 DEF At, Calls
<1>4. Chunk(At(c, place)) = Chunk(c)
  BY <1>3 DEF Chunk
<1> QED BY <1>2, <1>3, <1>4 DEF Sound, CallType, Sized

LEMMA WithByteSound ==
  ASSUME NEW c, Sound(c), c.pc # "idle", Len(c.data) # Chunk(c), NEW x \in Byte
  PROVE  /\ Sound(WithByte(c, x)) /\ WithByte(c, x).pc = c.pc
         /\ WithByte(c, x).op = c.op /\ WithByte(c, x).step = c.step
         /\ WithByte(c, x).left = c.left /\ WithByte(c, x).atEnd = c.atEnd
         /\ Chunk(WithByte(c, x)) = Chunk(c)
         /\ Len(WithByte(c, x).data) = Len(c.data) + 1
         /\ \A j \in 1 .. Len(c.data) + 1 :
              WithByte(c, x).data[j] = IF j = Len(c.data) + 1 THEN x ELSE c.data[j]
<1>1. c \in Calls /\ Len(c.data) \in Nat /\ Len(c.data) + 1 <= Chunk(c)
      /\ c.data \in Seq(Byte)
  BY ChunkBounds DEF Sound, CallType
<1>2. /\ Append(c.data, x) \in Seq(Byte)
      /\ Len(Append(c.data, x)) = Len(c.data) + 1
      /\ \A j \in 1 .. Len(c.data) + 1 :
           Append(c.data, x)[j] = IF j = Len(c.data) + 1 THEN x ELSE c.data[j]
  BY <1>1
<1>3. /\ WithByte(c, x).data = Append(c.data, x) /\ WithByte(c, x).pc = c.pc
      /\ WithByte(c, x).op = c.op /\ WithByte(c, x).step = c.step
      /\ WithByte(c, x).left = c.left /\ WithByte(c, x).atEnd = c.atEnd
  BY <1>1 DEF WithByte, Calls
<1>4. WithByte(c, x) \in Calls
  BY <1>1, <1>2 DEF WithByte, Calls
<1>5. Chunk(WithByte(c, x)) = Chunk(c)
  BY <1>3 DEF Chunk
<1>6. Len(WithByte(c, x).data) <= Chunk(WithByte(c, x))
  BY <1>1, <1>2, <1>3, <1>5
<1> QED BY <1>2, <1>3, <1>4, <1>5, <1>6 DEF Sound, CallType, Sized

LEMMA AfterChunkSound ==
  ASSUME NEW c, Sound(c), c.pc = "copy"
  PROVE  /\ Sound(AfterChunk(c)) /\ AfterChunk(c).pc \in {"idle", "check", "abort"}
         /\ AfterChunk(c).op \in {"none", c.op} /\ AfterChunk(c).data = <<>>
<1>1. CASE c.left = Chunk(c)
  BY <1>1, IdleSound DEF AfterChunk
<1>2. CASE c.left # Chunk(c)
  <2> DEFINE d == AfterChunk(c)
  <2>1. c \in Calls /\ c.left - Chunk(c) \in Nat \ {0} /\ <<>> \in Seq(Byte)
    BY <1>2, ChunkBounds DEF Sound, CallType
  <2>2. d = [c EXCEPT !.pc = IF c.op = "fully" THEN "abort" ELSE "check",
                      !.left = c.left - Chunk(c), !.data = <<>>]
    BY <1>2 DEF AfterChunk
  <2> HIDE DEF d
  <2>3. /\ d.pc \in {"check", "abort"} /\ d.op = c.op /\ d.step = c.step
        /\ d.left = c.left - Chunk(c) /\ d.data = <<>>
    BY <2>1, <2>2 DEF Calls
  <2>4. d \in Calls
    BY <2>1, <2>2 DEF Calls
  <2>5. Len(d.data) <= Chunk(d)
    BY <2>1, <2>3, <2>4 DEF Chunk, Calls
  <2>6. Sized(d)
    BY <2>1, <2>3 DEF Sized, Sound
  <2>7. /\ Sound(d) /\ d.pc \in {"idle", "check", "abort"}
        /\ d.op \in {"none", c.op} /\ d.data = <<>>
    BY <2>3, <2>4, <2>5, <2>6 DEF Sound, CallType
  <2> QED BY <2>7 DEF d
<1> QED BY <1>1, <1>2

-----------------------------------------------------------------------------
(***************************************************************************)
(* The inductive invariant.  Every byte a call has in hand is the byte of  *)
(* buf it was copied to or from, the producer's chunk fits behind the      *)
(* contents, and the consumer's is part of them: what was checked before   *)
(* the copy still holds after it, because the other thread's step can only *)
(* make more room or more contents.                                        *)
(***************************************************************************)
ProdInv(p, r, w, b) ==
  /\ Sound(p)
  /\ p.pc # "copy" => p.data = <<>>
  /\ p.pc = "copy" => Chunk(p) <= Size - 1 - Between(r, w)
  /\ \A j \in 1 .. Len(p.data) : p.data[j] = b[Slot(w + (j - 1))]

Peeking(c) == c.pc \in {"measure", "peek"}

ConsInv(c, v, r, w, b) ==
  /\ Sound(c)
  /\ c.pc \notin {"copy", "peek"} => c.data = <<>>
  /\ (c.op = "peek") <=> Peeking(c)
  /\ c.pc = "copy" \/ Peeking(c) => Chunk(c) <= Between(r, w)
  /\ Peeking(c) => c.step = c.left
  /\ c.pc = "peek" /\ v => c.atEnd = AtEnd(r)
  /\ \A j \in 1 .. Len(c.data) :
       c.pc = "copy" \/ v \/ j <= AtEnd(r) => c.data[j] = b[Slot(r + (j - 1))]

IInv ==
  /\ view \in BOOLEAN /\ aborted \in BOOLEAN
  /\ read_pos \in Positions /\ write_pos \in Positions
  /\ buf \in [0 .. Size - 1 -> Byte]
  /\ ProdInv(prod, read_pos, write_pos, buf)
  /\ ConsInv(cons, view, read_pos, write_pos, buf)

(* A call that has just begun, between two chunks, or over.                *)
LEMMA ProdRests ==
  ASSUME NEW p, Sound(p), p.pc # "copy", p.data = <<>>, NEW r, NEW w, NEW b
  PROVE  ProdInv(p, r, w, b)
BY DEF ProdInv

LEMMA ConsRests ==
  ASSUME NEW c, Sound(c), c.pc \notin {"copy", "measure", "peek"}, c.op # "peek",
         c.data = <<>>, NEW v, NEW r, NEW w, NEW b
  PROVE  ConsInv(c, v, r, w, b)
BY DEF ConsInv, Peeking

(* The consumer makes room; it does not touch buf.                         *)
LEMMA ProdStays ==
  ASSUME NEW p, NEW r, NEW w, NEW b, ProdInv(p, r, w, b),
         NEW s, Between(s, w) \in Int, Between(r, w) \in Int,
         Between(s, w) <= Between(r, w)
  PROVE  ProdInv(p, s, w, b)
<1>1. p.pc = "copy" => Chunk(p) <= Size - 1 - Between(s, w)
  <2> SUFFICES ASSUME p.pc = "copy" PROVE Chunk(p) <= Size - 1 - Between(s, w)
    OBVIOUS
  <2>1. Chunk(p) \in Nat /\ Chunk(p) <= Size - 1 - Between(r, w)
    BY ChunkBounds DEF ProdInv
  <2> QED BY <2>1, SizePositive
<1> QED BY <1>1 DEF ProdInv

(* The producer adds to the contents and does not change what is there.    *)
LEMMA ConsStays ==
  ASSUME NEW c, NEW v, NEW r \in Positions, NEW w \in Positions, NEW b,
         ConsInv(c, v, r, w, b),
         NEW x \in Positions, Between(r, w) <= Between(r, x),
         NEW d, \A i \in 0 .. Size - 1 :
                  i < Between(r, w) => d[Slot(r + i)] = b[Slot(r + i)]
  PROVE  ConsInv(c, v, r, x, d)
<1>1. Between(r, w) \in 0 .. Size - 1 /\ Between(r, x) \in 0 .. Size - 1
  BY BetweenSlots
<1>2. c.pc = "copy" \/ Peeking(c) =>
        Chunk(c) \in Nat /\ Len(c.data) \in Nat /\ Len(c.data) <= Chunk(c)
  BY ChunkBounds DEF ConsInv, Peeking
<1>3. c.pc = "copy" \/ Peeking(c) => Chunk(c) <= Between(r, x)
  BY <1>1, <1>2 DEF ConsInv
<1>4. ASSUME NEW j \in 1 .. Len(c.data), c.pc = "copy" \/ v \/ j <= AtEnd(r)
      PROVE  c.data[j] = d[Slot(r + (j - 1))]
  <2>1. c.pc = "copy" \/ Peeking(c)
    BY DEF ConsInv, Peeking
  <2>2. Chunk(c) \in Nat /\ Len(c.data) \in Nat /\ Len(c.data) <= Chunk(c)
        /\ Chunk(c) <= Between(r, w)
    BY <2>1, <1>2 DEF ConsInv
  <2>3. j - 1 \in 0 .. Size - 1 /\ j - 1 < Between(r, w)
    BY <1>1, <2>2, SizePositive
  <2>4. d[Slot(r + (j - 1))] = b[Slot(r + (j - 1))]
    BY <2>3
  <2> QED BY <1>4, <2>4 DEF ConsInv
<1> QED BY <1>3, <1>4 DEF ConsInv

LEMMA InitIInv == Init => IInv
<1> SUFFICES ASSUME Init PROVE IInv
  OBVIOUS
<1>1. Sound(prod) /\ prod.pc = "idle" /\ prod.op = "none" /\ prod.data = <<>>
      /\ cons = prod
  BY IdleSound DEF Init
<1>2. ProdInv(prod, read_pos, write_pos, buf)
  BY <1>1, ProdRests
<1>3. ConsInv(cons, view, read_pos, write_pos, buf)
  BY <1>1, ConsRests
<1>4. read_pos \in Positions /\ write_pos \in Positions
  BY SizePositive DEF Init, Positions
<1> QED BY <1>2, <1>3, <1>4 DEF Init, IInv

(* The byte copied next goes to a slot of its own.                         *)
LEMMA CopyInIInv ==
  ASSUME IInv, CopyIn
  PROVE  IInv'
<1> DEFINE k == Len(prod.data)  B == Between(read_pos, write_pos)
           at == ByteAt(write_pos, k)
<1>1. PICK x \in Byte : /\ buf' = [buf EXCEPT ![at] = x]
                        /\ prod' = WithByte(prod, x)
  BY DEF CopyIn
<1>2. UNCHANGED <<view, read_pos, write_pos, cons, aborted>>
  BY DEF CopyIn
<1>3. Sound(prod) /\ prod.pc = "copy" /\ k # Chunk(prod)
      /\ Chunk(prod) <= Size - 1 - B
  BY DEF CopyIn, Copied, IInv, ProdInv
<1>4. B \in 0 .. Size - 1
  BY BetweenSlots DEF IInv
<1>5. k \in Nat /\ k + 1 <= Chunk(prod) /\ Chunk(prod) \in Nat
  BY <1>3, ChunkBounds
<1>6. k \in 0 .. Size - 1 /\ B + k < Size /\ B + k \in 0 .. Size - 1
  BY <1>3, <1>4, <1>5, SizePositive
<1>7. read_pos \in Int /\ write_pos \in Int
  BY SizePositive DEF IInv, Positions
<1>8. at = Slot(write_pos + k) /\ at \in 0 .. Size - 1
  <2>1. at = Slot(write_pos + k)
    BY <1>6, <1>7, ByteAtSlot
  <2>2. write_pos + k \in Int
    BY <1>6, <1>7
  <2> QED BY <2>1, <2>2, SlotRange
<1>9. at = Slot(read_pos + (B + k))
  <2>1. Slot(write_pos + k) = Slot(read_pos + B + k)
    BY <1>5, <1>6, SlotBehind DEF IInv
  <2>2. read_pos + B + k = read_pos + (B + k)
    <3>1. read_pos \in Int /\ B \in Int /\ k \in Int
      BY <1>4, <1>5, <1>7
    <3> HIDE DEF B, k
    <3> QED BY <3>1, Regroup
  <2> QED BY <2>1, <2>2, <1>8
<1>10. buf' \in [0 .. Size - 1 -> Byte]
  BY <1>1, <1>8 DEF IInv
<1>11. ASSUME NEW q \in 0 .. Size - 1
       PROVE  buf'[q] = IF q = at THEN x ELSE buf[q]
  BY <1>1 DEF IInv
<1> HIDE DEF at
<1>12. ProdInv(prod', read_pos, write_pos, buf')
  <2>1. /\ Sound(prod') /\ prod'.pc = "copy" /\ Chunk(prod') = Chunk(prod)
        /\ Len(prod'.data) = k + 1
        /\ \A j \in 1 .. k + 1 :
             prod'.data[j] = IF j = k + 1 THEN x ELSE prod.data[j]
    BY <1>1, <1>3, WithByteSound
  <2>2. ASSUME NEW j \in 1 .. k + 1
        PROVE  prod'.data[j] = buf'[Slot(write_pos + (j - 1))]
    <3>0. /\ j - 1 \in 0 .. Size - 1 /\ j \in Int
          /\ write_pos + (j - 1) \in Int
      BY <1>5, <1>6, <1>7, SizePositive
    <3>1. Slot(write_pos + (j - 1)) \in 0 .. Size - 1
      BY <3>0, SlotRange
    <3>2. CASE j = k + 1
      <4>1. j - 1 = k
        BY <3>2, <1>5
      <4> QED BY <4>1, <2>1, <3>1, <3>2, <1>8, <1>11
    <3>3. CASE j # k + 1
      <4>1. j \in 1 .. k /\ j - 1 # k
        BY <3>3, <1>5
      <4>2. Slot(write_pos + (j - 1)) # Slot(write_pos + k)
        BY <4>1, <3>0, <1>6, <1>7, SlotsApart
      <4>3. buf'[Slot(write_pos + (j - 1))] = buf[Slot(write_pos + (j - 1))]
        BY <4>2, <3>1, <1>8, <1>11
      <4>4. prod.data[j] = buf[Slot(write_pos + (j - 1))]
        BY <4>1 DEF IInv, ProdInv
      <4> QED BY <4>3, <4>4, <2>1, <3>3
    <3> QED BY <3>2, <3>3
  <2>3. Chunk(prod') <= Size - 1 - Between(read_pos, write_pos)
    BY <2>1, <1>3
  <2>4. \A j \in 1 .. Len(prod'.data) : prod'.data[j] = buf'[Slot(write_pos + (j - 1))]
    BY <2>1, <2>2
  <2> QED BY <2>1, <2>3, <2>4 DEF ProdInv
<1>13. ConsInv(cons, view, read_pos, write_pos, buf')
  <2>1. ASSUME NEW i \in 0 .. Size - 1, i < B
        PROVE  buf'[Slot(read_pos + i)] = buf[Slot(read_pos + i)]
    <3>1. i # B + k
      BY <2>1, <1>4, <1>5
    <3>2. Slot(read_pos + i) # at
      BY <3>1, <1>6, <1>7, <1>9, SlotsApart
    <3>3. Slot(read_pos + i) \in 0 .. Size - 1
      <4>1. read_pos + i \in Int
        BY <1>7
      <4> QED BY <4>1, SlotRange
    <3> QED BY <3>2, <3>3, <1>11
  <2>2. Between(read_pos, write_pos) <= Between(read_pos, write_pos)
    BY <1>4
  <2> QED BY <2>1, <2>2, ConsStays DEF IInv
<1> QED BY <1>2, <1>10, <1>12, <1>13 DEF IInv

(* Publishing ends the producer's hold on its chunk.                       *)
LEMMA AddWritePosIInv ==
  ASSUME IInv, AddWritePos
  PROVE  /\ IInv'
         /\ Between(read_pos, write_pos') = Between(read_pos, write_pos) + Chunk(prod)
<1> DEFINE n == Chunk(prod)
<1>1. /\ write_pos' = Advanced(write_pos, n) /\ prod' = AfterChunk(prod)
      /\ UNCHANGED <<view, read_pos, buf, cons, aborted>>
  BY DEF AddWritePos
<1>2. Sound(prod) /\ prod.pc = "copy" /\ n <= Size - 1 - Between(read_pos, write_pos)
  BY DEF AddWritePos, IInv, ProdInv
<1>3. n \in Nat
  BY <1>2, ChunkBounds
<1>4. read_pos \in Positions /\ write_pos \in Positions
  BY DEF IInv
<1>5. write_pos' \in Positions
  BY <1>1, <1>3, <1>4, AdvancedSlot, 0 \in Int
<1>6. Between(read_pos, write_pos') = Between(read_pos, write_pos) + n
  BY <1>1, <1>2, <1>3, <1>4, AfterPublish
<1>7. ProdInv(prod', read_pos, write_pos', buf)
  <2>1. Sound(prod') /\ prod'.pc # "copy" /\ prod'.data = <<>>
    BY <1>1, <1>2, AfterChunkSound
  <2> QED BY <2>1, ProdRests
<1>8. ConsInv(cons, view, read_pos, write_pos', buf)
  <2>1. Between(read_pos, write_pos) \in Int
    BY <1>4, BetweenSlots
  <2>2. Between(read_pos, write_pos) <= Between(read_pos, write_pos')
    BY <2>1, <1>3, <1>6
  <2>3. ConsInv(cons, view, read_pos, write_pos, buf)
    BY DEF IInv
  <2> QED BY <2>2, <2>3, <1>4, <1>5, ConsStays
<1> QED BY <1>1, <1>5, <1>6, <1>7, <1>8 DEF IInv

(* ... and taking ends the consumer's.                                     *)
LEMMA AddReadPosIInv ==
  ASSUME IInv, AddReadPos
  PROVE  /\ IInv'
         /\ Between(read_pos', write_pos) = Between(read_pos, write_pos) - Chunk(cons)
<1> DEFINE n == Chunk(cons)
<1>1. /\ read_pos' = Advanced(read_pos, n) /\ cons' = AfterChunk(cons)
      /\ UNCHANGED <<view, write_pos, buf, prod, aborted>>
  BY DEF AddReadPos
<1>2. /\ Sound(cons) /\ cons.pc = "copy" /\ n <= Between(read_pos, write_pos)
      /\ cons.op # "peek"
  BY DEF AddReadPos, IInv, ConsInv, Peeking
<1>3. n \in Nat
  BY <1>2, ChunkBounds
<1>4. read_pos \in Positions /\ write_pos \in Positions
  BY DEF IInv
<1>5. read_pos' \in Positions
  BY <1>1, <1>3, <1>4, AdvancedSlot, 0 \in Int
<1>6. Between(read_pos', write_pos) = Between(read_pos, write_pos) - n
  BY <1>1, <1>2, <1>3, <1>4, AfterTake
<1>7. ConsInv(cons', view, read_pos', write_pos, buf)
  <2>1. /\ Sound(cons') /\ cons'.pc \in {"idle", "check", "abort"}
        /\ cons'.op \in {"none", cons.op} /\ cons'.data = <<>>
    BY <1>1, <1>2, AfterChunkSound
  <2>2. cons'.pc \notin {"copy", "measure", "peek"} /\ cons'.op # "peek"
    BY <2>1, <1>2
  <2> QED BY <2>1, <2>2, ConsRests
<1>8. ProdInv(prod, read_pos', write_pos, buf)
  <2>1. Between(read_pos, write_pos) \in Int
    BY <1>4, BetweenSlots
  <2>2. Between(read_pos', write_pos) \in Int
        /\ Between(read_pos', write_pos) <= Between(read_pos, write_pos)
    BY <2>1, <1>3, <1>6
  <2>3. ProdInv(prod, read_pos, write_pos, buf)
    BY DEF IInv
  <2> QED BY <2>1, <2>2, <2>3, ProdStays
<1> QED BY <1>1, <1>5, <1>6, <1>7, <1>8 DEF IInv

(* A producer's step that leaves the ring as it is.                        *)
LEMMA ProdStepIInv ==
  ASSUME IInv, UNCHANGED <<view, read_pos, write_pos, buf, cons, aborted>>,
         ProdInv(prod', read_pos, write_pos, buf)
  PROVE  IInv'
BY DEF IInv

LEMMA ConsStepIInv ==
  ASSUME IInv, UNCHANGED <<view, read_pos, write_pos, buf, prod, aborted>>,
         ConsInv(cons', view, read_pos, write_pos, buf)
  PROVE  IInv'
BY DEF IInv

LEMMA WriteCallIInv ==
  ASSUME IInv, NEW op \in {"steps", "advance", "fully"},
         NEW n \in Nat \ {0}, NEW left \in Nat \ {0},
         op = "fully" => n <= Size \div 2,
         prod' = Call(op, n, left),
         UNCHANGED <<view, read_pos, write_pos, buf, cons, aborted>>
  PROVE  IInv'
<1>1. Sound(prod') /\ prod'.pc = "check" /\ prod'.data = <<>>
  BY CallSound
<1>2. ProdInv(prod', read_pos, write_pos, buf)
  BY <1>1, ProdRests
<1> QED BY <1>2, ProdStepIInv

LEMMA ReadCallIInv ==
  ASSUME IInv, NEW op \in {"steps", "advance", "fully"},
         NEW n \in Nat \ {0}, NEW left \in Nat \ {0},
         op = "fully" => n <= Size \div 2,
         cons' = Call(op, n, left),
         UNCHANGED <<view, read_pos, write_pos, buf, prod, aborted>>
  PROVE  IInv'
<1>1. Sound(cons') /\ cons'.pc = "check" /\ cons'.data = <<>> /\ cons'.op = op
  BY CallSound
<1>2. ConsInv(cons', view, read_pos, write_pos, buf)
  BY <1>1, ConsRests
<1> QED BY <1>2, ConsStepIInv

(* can_write and can_read are comparisons with the distance.               *)
LEMMA Room ==
  ASSUME IInv, NEW n \in Nat
  PROVE  /\ Between(read_pos, write_pos) \in 0 .. Size - 1
         /\ can_write(n) <=> n <= Size - 1 - Between(read_pos, write_pos)
         /\ can_read(n) <=> n <= Between(read_pos, write_pos)
<1>1. /\ Between(read_pos, write_pos) \in 0 .. Size - 1
      /\ Slot((read_pos - write_pos - 1) % Wrap)
           = Size - 1 - Between(read_pos, write_pos)
  BY BetweenSlots DEF IInv
<1>2. can_write(n) <=> n <= Size - 1 - Between(read_pos, write_pos)
  BY <1>1, SizePositive DEF can_write
<1>3. can_read(n) <=> n <= Between(read_pos, write_pos)
  BY <1>1 DEF can_read, available_read, Between
<1> QED BY <1>1, <1>2, <1>3

LEMMA CheckWriteIInv ==
  ASSUME IInv, CheckWrite
  PROVE  IInv'
<1>1. /\ prod.pc = "check" /\ Sound(prod) /\ prod.data = <<>>
      /\ UNCHANGED <<view, read_pos, write_pos, buf, cons, aborted>>
  BY DEF CheckWrite, IInv, ProdInv
<1>2. Chunk(prod) \in Nat
  BY <1>1, ChunkBounds
<1>3. CASE can_write(Chunk(prod))
  <2>1. prod' = At(prod, "copy")
    BY <1>3 DEF CheckWrite
  <2>2. /\ Sound(prod') /\ prod'.pc = "copy" /\ prod'.data = <<>>
        /\ Chunk(prod') = Chunk(prod)
    BY <1>1, <2>1, AtSound
  <2>3. Chunk(prod') <= Size - 1 - Between(read_pos, write_pos)
    BY <1>2, <1>3, <2>2, Room
  <2>4. ProdInv(prod', read_pos, write_pos, buf)
    BY <2>2, <2>3 DEF ProdInv
  <2> QED BY <1>1, <2>4, ProdStepIInv
<1>4. CASE ~can_write(Chunk(prod))
  <2>1. prod' = Idle
    BY <1>4 DEF CheckWrite
  <2>2. ProdInv(prod', read_pos, write_pos, buf)
    BY <2>1, IdleSound, ProdRests
  <2> QED BY <1>1, <2>2, ProdStepIInv
<1> QED BY <1>3, <1>4

LEMMA CheckReadIInv ==
  ASSUME IInv, CheckRead
  PROVE  IInv'
<1>1. /\ cons.pc = "check" /\ Sound(cons) /\ cons.data = <<>> /\ cons.op # "peek"
      /\ UNCHANGED <<view, read_pos, write_pos, buf, prod, aborted>>
  BY DEF CheckRead, IInv, ConsInv, Peeking
<1>2. Chunk(cons) \in Nat
  BY <1>1, ChunkBounds
<1>3. CASE can_read(Chunk(cons))
  <2>1. cons' = At(cons, "copy")
    BY <1>3 DEF CheckRead
  <2>2. /\ Sound(cons') /\ cons'.pc = "copy" /\ cons'.data = <<>>
        /\ cons'.op # "peek" /\ Chunk(cons') = Chunk(cons)
    BY <1>1, <2>1, AtSound
  <2>3. Chunk(cons') <= Between(read_pos, write_pos)
    BY <1>2, <1>3, <2>2, Room
  <2>4. ConsInv(cons', view, read_pos, write_pos, buf)
    BY <2>2, <2>3 DEF ConsInv, Peeking
  <2> QED BY <1>1, <2>4, ConsStepIInv
<1>4. CASE ~can_read(Chunk(cons))
  <2>1. cons' = Idle
    BY <1>4 DEF CheckRead
  <2>2. ConsInv(cons', view, read_pos, write_pos, buf)
    BY <2>1, IdleSound, ConsRests
  <2> QED BY <1>1, <2>2, ConsStepIInv
<1> QED BY <1>3, <1>4

LEMMA CheckAbortWriteIInv ==
  ASSUME IInv, CheckAbortWrite
  PROVE  IInv'
<1>1. /\ prod.pc = "abort" /\ Sound(prod) /\ prod.data = <<>>
      /\ UNCHANGED <<view, read_pos, write_pos, buf, cons, aborted>>
  BY DEF CheckAbortWrite, IInv, ProdInv
<1>2. prod' = Idle \/ prod' = At(prod, "check")
  BY DEF CheckAbortWrite
<1>3. Sound(prod') /\ prod'.pc # "copy" /\ prod'.data = <<>>
  BY <1>1, <1>2, IdleSound, AtSound
<1>4. ProdInv(prod', read_pos, write_pos, buf)
  BY <1>3, ProdRests
<1> QED BY <1>1, <1>4, ProdStepIInv

LEMMA CheckAbortReadIInv ==
  ASSUME IInv, CheckAbortRead
  PROVE  IInv'
<1>1. /\ cons.pc = "abort" /\ Sound(cons) /\ cons.data = <<>> /\ cons.op # "peek"
      /\ UNCHANGED <<view, read_pos, write_pos, buf, prod, aborted>>
  BY DEF CheckAbortRead, IInv, ConsInv, Peeking
<1>2. cons' = Idle \/ cons' = At(cons, "check")
  BY DEF CheckAbortRead
<1>3. /\ Sound(cons') /\ cons'.pc \in {"idle", "check"} /\ cons'.data = <<>>
      /\ cons'.op # "peek"
  BY <1>1, <1>2, IdleSound, AtSound
<1>4. ConsInv(cons', view, read_pos, write_pos, buf)
  BY <1>3, ConsRests
<1> QED BY <1>1, <1>4, ConsStepIInv

(* One more byte of the contents in the consumer's hand.                   *)
LEMMA OneMoreByte ==
  ASSUME IInv, cons.pc \in {"copy", "peek"}, Len(cons.data) # Chunk(cons),
         NEW x \in Byte,
         cons.pc = "copy" \/ view \/ Len(cons.data) + 1 <= AtEnd(read_pos) =>
           x = buf[Slot(read_pos + Len(cons.data))],
         cons' = WithByte(cons, x)
  PROVE  ConsInv(cons', view, read_pos, write_pos, buf)
<1> DEFINE k == Len(cons.data)
<1>1. Sound(cons) /\ ConsInv(cons, view, read_pos, write_pos, buf)
  BY DEF IInv, ConsInv
<1>2. /\ Sound(cons') /\ cons'.pc = cons.pc /\ cons'.op = cons.op
      /\ cons'.step = cons.step /\ cons'.left = cons.left
      /\ cons'.atEnd = cons.atEnd /\ Chunk(cons') = Chunk(cons)
      /\ Len(cons'.data) = k + 1
      /\ \A j \in 1 .. k + 1 :
           cons'.data[j] = IF j = k + 1 THEN x ELSE cons.data[j]
  BY <1>1, WithByteSound
<1>3. k \in Nat
  BY <1>1, ChunkBounds
<1>4. ASSUME NEW j \in 1 .. k + 1, cons.pc = "copy" \/ view \/ j <= AtEnd(read_pos)
      PROVE  cons'.data[j] = buf[Slot(read_pos + (j - 1))]
  <2>1. CASE j = k + 1
    <3>1. j - 1 = k
      BY <2>1, <1>3
    <3> QED BY <3>1, <2>1, <1>2, <1>4
  <2>2. CASE j # k + 1
    <3>1. j \in 1 .. k
      BY <2>2, <1>3
    <3>2. cons.data[j] = buf[Slot(read_pos + (j - 1))]
      BY <3>1, <1>1, <1>4 DEF ConsInv
    <3> QED BY <3>2, <2>2, <1>2
  <2> QED BY <2>1, <2>2
<1>5. \A j \in 1 .. Len(cons'.data) :
        cons'.pc = "copy" \/ view \/ j <= AtEnd(read_pos) =>
          cons'.data[j] = buf[Slot(read_pos + (j - 1))]
  BY <1>2, <1>4
<1> QED BY <1>1, <1>2, <1>5 DEF ConsInv, Peeking

LEMMA CopyOutIInv ==
  ASSUME IInv, CopyOut
  PROVE  IInv'
<1> DEFINE k == Len(cons.data)  x == buf[ByteAt(read_pos, k)]
<1>1. /\ cons.pc = "copy" /\ k # Chunk(cons) /\ cons' = WithByte(cons, x)
      /\ UNCHANGED <<view, read_pos, write_pos, buf, prod, aborted>>
  BY DEF CopyOut, Copied
<1>2. Sound(cons) /\ Chunk(cons) <= Between(read_pos, write_pos)
  BY <1>1 DEF IInv, ConsInv
<1>3. k \in Nat /\ k <= Chunk(cons) /\ Chunk(cons) \in Nat
  BY <1>1, <1>2, ChunkBounds
<1>4. Between(read_pos, write_pos) \in 0 .. Size - 1 /\ read_pos \in Int
  BY BetweenSlots, SizePositive DEF IInv, Positions
<1>5. k \in 0 .. Size - 1
  BY <1>2, <1>3, <1>4, SizePositive
<1>6. ByteAt(read_pos, k) = Slot(read_pos + k)
  BY <1>4, <1>5, ByteAtSlot
<1>7. Slot(read_pos + k) \in 0 .. Size - 1
  <2>1. read_pos + k \in Int
    BY <1>4, <1>5
  <2> QED BY <2>1, SlotRange
<1>8. x \in Byte /\ x = buf[Slot(read_pos + k)]
  BY <1>6, <1>7 DEF IInv
<1> HIDE DEF x
<1>9. ConsInv(cons', view, read_pos, write_pos, buf)
  BY <1>1, <1>8, OneMoreByte
<1> QED BY <1>1, <1>9, ConsStepIInv

LEMMA CopyContentsIInv ==
  ASSUME IInv, NEW n \in Lengths, ring_buffer_copy_contents(n)
  PROVE  IInv'
<1> DEFINE c == Call("peek", n, n)
<1>1. n \in Nat \ {0}
  BY CallAssumption
<1>2. /\ cons' = At(c, "measure") /\ available_read >= n
      /\ UNCHANGED <<view, read_pos, write_pos, buf, prod, aborted>>
  BY DEF ring_buffer_copy_contents
<1>3. /\ Sound(c) /\ c.pc = "check" /\ c.op = "peek" /\ c.data = <<>>
      /\ c.step = n /\ c.left = n
  BY <1>1, CallSound
<1>4. Chunk(c) = n
  BY <1>1, <1>3 DEF Chunk
<1> HIDE DEF c
<1>5. /\ Sound(cons') /\ cons'.pc = "measure" /\ cons'.op = "peek"
      /\ cons'.data = <<>> /\ cons'.step = n /\ cons'.left = n /\ Chunk(cons') = n
  BY <1>2, <1>3, <1>4, AtSound
<1>6. n <= Between(read_pos, write_pos)
  BY <1>1, <1>2, Room DEF can_read
<1>7. ConsInv(cons', view, read_pos, write_pos, buf)
  BY <1>5, <1>6 DEF ConsInv, Peeking
<1> QED BY <1>2, <1>7, ConsStepIInv

LEMMA MeasureEndIInv ==
  ASSUME IInv, MeasureEnd
  PROVE  IInv'
<1> DEFINE c == At(cons, "peek")
<1>1. /\ cons.pc = "measure" /\ cons' = [c EXCEPT !.atEnd = AtEnd(PeekPos)]
      /\ UNCHANGED <<view, read_pos, write_pos, buf, prod, aborted>>
  BY DEF MeasureEnd
<1>2. /\ Sound(cons) /\ cons.op = "peek" /\ cons.step = cons.left
      /\ cons.data = <<>> /\ Chunk(cons) <= Between(read_pos, write_pos)
  BY <1>1 DEF IInv, ConsInv, Peeking
<1>3. /\ Sound(c) /\ c.pc = "peek" /\ c.op = "peek" /\ c.step = c.left
      /\ c.data = <<>> /\ Chunk(c) = Chunk(cons) /\ c \in Calls
  <2>1. /\ Sound(c) /\ c.pc = "peek" /\ c.op = cons.op /\ c.step = cons.step
        /\ c.left = cons.left /\ c.data = cons.data /\ Chunk(c) = Chunk(cons)
    BY <1>1, <1>2, AtSound
  <2>2. c \in Calls
    BY <2>1 DEF Sound, CallType
  <2> QED BY <1>2, <2>1, <2>2
<1> HIDE DEF c
<1>4. PeekPos \in Int
  BY SizePositive DEF PeekPos, IInv, Positions
<1>5. AtEnd(PeekPos) \in 0 .. Size
  BY <1>4, SlotRange, SizePositive DEF AtEnd
<1>6. /\ cons' \in Calls /\ cons'.pc = "peek" /\ cons'.op = "peek"
      /\ cons'.step = c.step /\ cons'.left = c.left /\ cons'.data = <<>>
      /\ cons'.atEnd = AtEnd(PeekPos)
  BY <1>1, <1>3, <1>5 DEF Calls
<1>7. Chunk(cons') = Chunk(cons)
  BY <1>3, <1>6 DEF Chunk
<1>8. Sound(cons')
  BY <1>3, <1>6, <1>7 DEF Sound, CallType, Sized
<1>9. view => cons'.atEnd = AtEnd(read_pos)
  BY <1>6 DEF PeekPos
<1>10. ConsInv(cons', view, read_pos, write_pos, buf)
  BY <1>2, <1>3, <1>6, <1>7, <1>8, <1>9 DEF ConsInv, Peeking
<1> QED BY <1>1, <1>10, ConsStepIInv

(* A byte before the end is found whatever the end was taken to be; with a *)
(* view the end is the right one, and so is every byte.                    *)
LEMMA PeekSlot ==
  ASSUME NEW p \in Int, NEW k \in 0 .. Size - 1, NEW e \in 0 .. Size,
         e = AtEnd(p) \/ k + 1 <= AtEnd(p)
  PROVE  CopySlot(p, e, k) = Slot(p + k) /\ Slot(p + k) \in 0 .. Size - 1
<1>0. Size \in Nat \ {0} /\ k \in 0 .. Size /\ p + k \in Int
      /\ Slot(p) \in 0 .. Size - 1
  BY SizePositive, SlotRange
<1>1. Slot(p + k) \in 0 .. Size - 1
  BY <1>0, SlotRange
<1>2. CASE e = AtEnd(p)
  BY <1>1, <1>2, ByteAtSlot DEF ByteAt
<1>3. CASE k + 1 <= AtEnd(p)
  <2>1. Slot(p + k) = IF Slot(p) + k < Size THEN Slot(p) + k ELSE Slot(p) + k - Size
    BY <1>0, SlotNear
  <2>2. Slot(p + e) = IF Slot(p) + e < Size THEN Slot(p) + e ELSE Slot(p) + e - Size
    BY <1>0, SlotNear
  <2>3. Slot(p) + k + 1 <= Size
    BY <1>0, <1>3 DEF AtEnd
  <2>4. Slot(p + k) = Slot(p) + k
    BY <1>0, <2>1, <2>3
  <2>5. ~(k < e) => Slot(p + e) = Slot(p) + e
    BY <1>0, <2>2, <2>3
  <2>6. CopySlot(p, e, k) = Slot(p) + k
    BY <1>0, <2>5 DEF CopySlot
  <2> QED BY <1>1, <2>4, <2>6
<1> QED BY <1>2, <1>3

LEMMA CopySlotNat ==
  ASSUME NEW p \in Int, NEW k \in Nat, NEW e \in 0 .. Size
  PROVE  CopySlot(p, e, k) \in Nat
<1>1. Slot(p) \in Nat
  BY SlotRange
<1>2. e \in Int /\ p + e \in Int
  OBVIOUS
<1>3. Slot(p + e) \in Nat
  BY <1>2, SlotRange
<1>4. CASE k < e
  <2>1. CopySlot(p, e, k) = Slot(p) + k
    BY <1>4 DEF CopySlot
  <2> QED BY <2>1, <1>1
<1>5. CASE ~(k < e)
  <2>1. CopySlot(p, e, k) = Slot(p + e) + (k - e)
    BY <1>5 DEF CopySlot
  <2>2. k - e \in Nat
    BY <1>2, <1>5
  <2> QED BY <2>1, <2>2, <1>3
<1> QED BY <1>4, <1>5

LEMMA PeekOutIInv ==
  ASSUME IInv, PeekOut
  PROVE  IInv'
<1> DEFINE k == Len(cons.data)  at == CopySlot(read_pos, cons.atEnd, k)
<1>1. cons.pc = "peek" /\ UNCHANGED <<view, read_pos, write_pos, buf, prod, aborted>>
  BY DEF PeekOut
<1>2. /\ Sound(cons) /\ cons.step = cons.left
      /\ Chunk(cons) <= Between(read_pos, write_pos)
      /\ view => cons.atEnd = AtEnd(read_pos)
  BY <1>1 DEF IInv, ConsInv, Peeking
<1>3. cons.atEnd \in 0 .. Size /\ Chunk(cons) = cons.left
      /\ k \in Nat /\ k <= Chunk(cons) /\ Chunk(cons) \in Nat
  <2>1. cons.atEnd \in 0 .. Size /\ cons.left \in Nat
    BY <1>2 DEF Sound, CallType, Calls
  <2>2. k \in Nat /\ k <= Chunk(cons) /\ Chunk(cons) \in Nat
    BY <1>1, <1>2, ChunkBounds
  <2> QED BY <1>2, <2>1, <2>2 DEF Chunk
<1>4. Between(read_pos, write_pos) \in 0 .. Size - 1 /\ read_pos \in Int
  BY BetweenSlots, SizePositive DEF IInv, Positions
<1>5. CASE k = cons.left
  <2>1. cons' = Idle
    BY <1>5 DEF PeekOut
  <2>2. ConsInv(cons', view, read_pos, write_pos, buf)
    BY <2>1, IdleSound, ConsRests
  <2> QED BY <1>1, <2>2, ConsStepIInv
<1>6. CASE k # cons.left
  <2>1. k \in 0 .. Size - 1
    BY <1>2, <1>3, <1>4, SizePositive
  <2>2. view \/ k + 1 <= AtEnd(read_pos) =>
          at = Slot(read_pos + k) /\ at \in 0 .. Size - 1
    BY <1>2, <1>3, <1>4, <2>1, PeekSlot
  <2>3. \E x \in Byte : /\ cons' = WithByte(cons, x)
                        /\ at < Size => x = buf[at]
    <3>1. CASE at < Size
      <4>1. cons' = WithByte(cons, buf[at])
        BY <1>6, <3>1 DEF PeekOut
      <4>2. at \in 0 .. Size - 1
        <5>1. at \in Nat
          BY <1>3, <1>4, CopySlotNat
        <5> HIDE DEF at
        <5> QED BY <3>1, <5>1, SizePositive
      <4>3. buf[at] \in Byte
        BY <4>2 DEF IInv
      <4> QED BY <4>1, <4>3
    <3>2. CASE ~(at < Size)
      <4>1. \E x \in Byte : cons' = WithByte(cons, x)
        BY <1>6, <3>2 DEF PeekOut
      <4> QED BY <4>1, <3>2
    <3> QED BY <3>1, <3>2
  <2>4. PICK x \in Byte : cons' = WithByte(cons, x) /\ (at < Size => x = buf[at])
    BY <2>3
  <2>5. cons.pc = "copy" \/ view \/ k + 1 <= AtEnd(read_pos) =>
          x = buf[Slot(read_pos + k)]
    <3>1. at \in 0 .. Size - 1 => at < Size
      BY SizePositive
    <3> QED BY <1>1, <2>2, <2>4, <3>1
  <2>6. ConsInv(cons', view, read_pos, write_pos, buf)
    BY <1>1, <1>3, <1>6, <2>4, <2>5, OneMoreByte
  <2> QED BY <1>1, <2>6, ConsStepIInv
<1> QED BY <1>5, <1>6

LEMMA NextIInv == IInv /\ [Next]_vars => IInv'
<1> SUFFICES ASSUME IInv, [Next]_vars PROVE IInv'
  OBVIOUS
<1>1. ASSUME NEW n \in StepSizes, NEW c \in Counts, ring_buffer_write(n, c)
      PROVE  IInv'
  <2>1. n \in Nat \ {0} /\ n * c \in Nat \ {0}
    BY StepsProduct
  <2> QED BY <1>1, <2>1, WriteCallIInv DEF ring_buffer_write
<1>2. ASSUME NEW n \in StepSizes, NEW c \in Counts, ring_buffer_advance_write(n, c)
      PROVE  IInv'
  <2>1. n \in Nat \ {0} /\ n * c \in Nat \ {0}
    BY StepsProduct
  <2> QED BY <1>2, <2>1, WriteCallIInv DEF ring_buffer_advance_write
<1>3. ASSUME NEW n \in StepSizes, NEW c \in Counts, ring_buffer_read(n, c)
      PROVE  IInv'
  <2>1. n \in Nat \ {0} /\ n * c \in Nat \ {0}
    BY StepsProduct
  <2> QED BY <1>3, <2>1, ReadCallIInv DEF ring_buffer_read
<1>4. ASSUME NEW n \in StepSizes, NEW c \in Counts, ring_buffer_advance_read(n, c)
      PROVE  IInv'
  <2>1. n \in Nat \ {0} /\ n * c \in Nat \ {0}
    BY StepsProduct
  <2> QED BY <1>4, <2>1, ReadCallIInv DEF ring_buffer_advance_read
<1>5. ASSUME NEW n \in Lengths, ring_buffer_write_fully_with_abort(n)
      PROVE  IInv'
  <2>1. n \in Nat \ {0}
    BY CallAssumption
  <2>2. get_step_size(n) \in Nat \ {0} /\ get_step_size(n) <= Size \div 2
    BY <2>1, FullyStep
  <2> QED BY <1>5, <2>1, <2>2, WriteCallIInv DEF ring_buffer_write_fully_with_abort
<1>6. ASSUME NEW n \in Lengths, ring_buffer_read_fully_with_abort(n)
      PROVE  IInv'
  <2>1. n \in Nat \ {0}
    BY CallAssumption
  <2>2. get_step_size(n) \in Nat \ {0} /\ get_step_size(n) <= Size \div 2
    BY <2>1, FullyStep
  <2> QED BY <1>6, <2>1, <2>2, ReadCallIInv DEF ring_buffer_read_fully_with_abort
<1>7. ASSUME ProducerStep PROVE IInv'
  BY <1>7, CheckWriteIInv, CopyInIInv, AddWritePosIInv, CheckAbortWriteIInv
  DEF ProducerStep
<1>8. ASSUME ConsumerStep PROVE IInv'
  BY <1>8, CheckReadIInv, CopyOutIInv, AddReadPosIInv, CheckAbortReadIInv,
     MeasureEndIInv, PeekOutIInv
  DEF ConsumerStep
<1>9. ASSUME Abort PROVE IInv'
  BY <1>9 DEF Abort, IInv
<1>10. CASE UNCHANGED vars
  BY <1>10 DEF vars, IInv
<1> QED
  BY <1>1, <1>2, <1>3, <1>4, <1>5, <1>6, <1>7, <1>8, <1>9, <1>10, CopyContentsIInv
  DEF Next

LEMMA Invariance == Spec => []IInv
<1>1. Init => IInv
  BY InitIInv
<1>2. IInv /\ [Next]_vars => IInv'
  BY NextIInv
<1> QED BY <1>1, <1>2, PTL DEF Spec

-----------------------------------------------------------------------------
(***************************************************************************)
(* The contents.                                                           *)
(***************************************************************************)
ContentsOf(r, w, b) == [i \in 1 .. Between(r, w) |-> b[Slot(r + i - 1)]]

LEMMA ContentsSeq ==
  ASSUME NEW r \in Positions, NEW w \in Positions,
         NEW b \in [0 .. Size - 1 -> Byte]
  PROVE  /\ ContentsOf(r, w, b) \in Seq(Byte)
         /\ Len(ContentsOf(r, w, b)) = Between(r, w)
         /\ Between(r, w) \in 0 .. Size - 1
         /\ \A i \in 1 .. Between(r, w) :
              /\ ContentsOf(r, w, b)[i] = b[Slot(r + (i - 1))]
              /\ b[Slot(r + (i - 1))] \in Byte
<1>0. r \in Int
  BY SizePositive DEF Positions
<1>1. Between(r, w) \in 0 .. Size - 1
  BY BetweenSlots
<1>2. ASSUME NEW i \in 1 .. Between(r, w)
      PROVE  /\ ContentsOf(r, w, b)[i] = b[Slot(r + (i - 1))]
             /\ b[Slot(r + (i - 1))] \in Byte
  <2>1. r + i - 1 = r + (i - 1) /\ r + (i - 1) \in Int
    BY <1>0, <1>1
  <2>2. ContentsOf(r, w, b)[i] = b[Slot(r + i - 1)]
    BY DEF ContentsOf
  <2>3. Slot(r + (i - 1)) \in 0 .. Size - 1
    BY <2>1, SlotRange
  <2> QED BY <2>1, <2>2, <2>3
<1> DEFINE f == ContentsOf(r, w, b)  n == Between(r, w)
<1>3. f = [i \in 1 .. n |-> f[i]]
  BY DEF ContentsOf
<1>4. \A i \in 1 .. n : f[i] \in Byte
  BY <1>2
<1>5. n \in Nat
  BY <1>1
<1> HIDE DEF f, n
<1>6. f \in [1 .. n -> Byte]
  BY <1>3, <1>4
<1>7. f \in Seq(Byte) /\ Len(f) = n
  BY <1>5, <1>6
<1> QED BY <1>1, <1>2, <1>7 DEF f, n

LEMMA ContentsNow ==
  /\ Contents = ContentsOf(read_pos, write_pos, buf)
  /\ Contents' = ContentsOf(read_pos', write_pos', buf')
BY DEF Contents, ContentsOf, available_read, Between

LEMMA ContentsFacts ==
  ASSUME IInv
  PROVE  /\ Contents \in Seq(Byte)
         /\ Len(Contents) = Between(read_pos, write_pos)
         /\ Between(read_pos, write_pos) \in 0 .. Size - 1
         /\ \A i \in 1 .. Between(read_pos, write_pos) :
              Contents[i] = buf[Slot(read_pos + (i - 1))]
<1>1. /\ read_pos \in Positions /\ write_pos \in Positions
      /\ buf \in [0 .. Size - 1 -> Byte]
  BY DEF IInv
<1> QED BY <1>1, ContentsSeq, ContentsNow

-----------------------------------------------------------------------------
(***************************************************************************)
(* The theorems.                                                           *)
(***************************************************************************)
(* Both positions stay below 2^32, every index of a memcpy inside buf, and *)
(* no call copies more than its chunk.                                     *)
THEOREM TypeCorrect == Spec => []TypeOK
<1>1. IInv => TypeOK
  BY DEF IInv, ProdInv, ConsInv, Sound, TypeOK, Positions
<1> QED BY <1>1, Invariance, PTL

(* ring_buffer_read and its variants: at every moment of a copy the bytes  *)
(* taken so far are the oldest of the ring, for a ring of any size, any    *)
(* number of laps and any interleaving with the producer.                  *)
THEOREM ReadsInOrder == Spec => []ReadsOldest
<1>1. ASSUME IInv, cons.pc = "copy" PROVE Oldest(cons.data)
  <2>1. /\ Sound(cons) /\ Chunk(cons) <= Between(read_pos, write_pos)
        /\ \A j \in 1 .. Len(cons.data) :
             cons.data[j] = buf[Slot(read_pos + (j - 1))]
    BY <1>1 DEF IInv, ConsInv
  <2>2. Len(cons.data) \in Nat /\ Len(cons.data) <= Chunk(cons) /\ Chunk(cons) \in Nat
    BY <1>1, <2>1, ChunkBounds
  <2>3. /\ Len(Contents) = Between(read_pos, write_pos)
        /\ Between(read_pos, write_pos) \in Int
        /\ \A i \in 1 .. Between(read_pos, write_pos) :
             Contents[i] = buf[Slot(read_pos + (i - 1))]
    BY <1>1, ContentsFacts
  <2>4. Len(cons.data) <= Len(Contents)
    BY <2>1, <2>2, <2>3
  <2>5. \A i \in 1 .. Len(cons.data) : cons.data[i] = Contents[i]
    BY <2>1, <2>2, <2>3, <2>4
  <2> QED BY <2>4, <2>5 DEF Oldest
<1>2. IInv => ReadsOldest
  BY <1>1 DEF ReadsOldest
<1> QED BY <1>2, Invariance, PTL

(* ring_buffer_copy_contents: with a view always, and without one up to    *)
(* the end of the buffer, the bytes are the oldest of the ring.            *)
THEOREM PeeksInOrder == Spec => []PeeksUpToEnd
<1>1. ASSUME IInv, NEW i \in 1 .. Len(cons.data), cons.op = "peek",
             view \/ i <= AtEnd(read_pos)
      PROVE  cons.data[i] = Contents[i]
  <2>1. /\ Sound(cons) /\ cons.pc # "idle"
        /\ Chunk(cons) <= Between(read_pos, write_pos)
        /\ cons.data[i] = buf[Slot(read_pos + (i - 1))]
    BY <1>1 DEF IInv, ConsInv, Peeking
  <2>2. Len(cons.data) \in Nat /\ Len(cons.data) <= Chunk(cons) /\ Chunk(cons) \in Nat
    BY <2>1, ChunkBounds
  <2>3. /\ Between(read_pos, write_pos) \in Int
        /\ \A j \in 1 .. Between(read_pos, write_pos) :
             Contents[j] = buf[Slot(read_pos + (j - 1))]
    BY <1>1, ContentsFacts
  <2>4. i \in 1 .. Between(read_pos, write_pos)
    BY <2>1, <2>2, <2>3
  <2> QED BY <2>1, <2>3, <2>4
<1>2. IInv => PeeksUpToEnd
  BY <1>1 DEF PeeksUpToEnd
<1> QED BY <1>2, Invariance, PTL

(* get_step_size: a producer and a consumer inside "fully" calls are never *)
(* both without room to go on, whatever lengths they were given.           *)
THEOREM NeverDeadlocked == Spec => []NeverBothWait
<1>1. ASSUME IInv,
             prod.pc = "check", prod.op = "fully", ~can_write(Chunk(prod)),
             cons.pc = "check", cons.op = "fully", ~can_read(Chunk(cons))
      PROVE  FALSE
  <2>1. Sound(prod) /\ Sound(cons)
    BY <1>1 DEF IInv, ProdInv, ConsInv
  <2>2. prod.step <= Size \div 2 /\ cons.step <= Size \div 2
    BY <1>1, <2>1 DEF Sound, Sized
  <2>3. /\ Chunk(prod) \in Nat /\ Chunk(prod) <= prod.step /\ prod.step \in Nat
        /\ Chunk(cons) \in Nat /\ Chunk(cons) <= cons.step /\ cons.step \in Nat
    BY <1>1, <2>1, ChunkBounds
  <2>4. /\ Between(read_pos, write_pos) \in 0 .. Size - 1
        /\ ~(Chunk(prod) <= Size - 1 - Between(read_pos, write_pos))
    BY <1>1, <2>3, Room
  <2>5. ~(Chunk(cons) <= Between(read_pos, write_pos))
    BY <1>1, <2>3, Room
  <2> DEFINE half == Size \div 2
  <2>6. half \in Nat /\ 2 * half <= Size
    BY SizePositive
  <2>7. Chunk(prod) <= half /\ Chunk(cons) <= half
    BY <2>2, <2>3, <2>6
  <2> HIDE DEF half
  <2> QED BY <2>3, <2>4, <2>5, <2>6, <2>7, SizePositive
<1>2. IInv => NeverBothWait
  BY <1>1 DEF NeverBothWait
<1> QED BY <1>2, Invariance, PTL

(* A step that publishes appends the chunk to the contents.                *)
LEMMA PublishAppends ==
  ASSUME IInv, AddWritePos, prod.op # "advance"
  PROVE  Contents' = Contents \o prod.data
<1> DEFINE B == Between(read_pos, write_pos)  n == Chunk(prod)
<1>1. /\ IInv' /\ UNCHANGED <<read_pos, buf>>
      /\ Between(read_pos, write_pos') = B + n
  BY AddWritePosIInv DEF AddWritePos
<1>2. /\ Sound(prod) /\ prod.pc = "copy" /\ Len(prod.data) = n
      /\ n <= Size - 1 - B
      /\ \A j \in 1 .. Len(prod.data) :
           prod.data[j] = buf[Slot(write_pos + (j - 1))]
  BY DEF AddWritePos, Copied, IInv, ProdInv
<1>3. prod.data \in Seq(Byte) /\ n \in Nat
  BY <1>2, ChunkBounds
<1>4. /\ Contents \in Seq(Byte) /\ Len(Contents) = B /\ B \in 0 .. Size - 1
      /\ \A i \in 1 .. B : Contents[i] = buf[Slot(read_pos + (i - 1))]
  BY ContentsFacts
<1>5. read_pos \in Positions /\ write_pos \in Positions /\ write_pos' \in Positions
      /\ buf \in [0 .. Size - 1 -> Byte] /\ read_pos \in Int /\ write_pos \in Int
  BY <1>1, SizePositive DEF IInv, Positions
<1>6. /\ Contents' \in Seq(Byte) /\ Len(Contents') = B + n
      /\ \A i \in 1 .. B + n : Contents'[i] = buf[Slot(read_pos + (i - 1))]
  <2> DEFINE D == ContentsOf(read_pos, write_pos', buf)
  <2>1. Contents' = D
    BY <1>1, ContentsNow
  <2>2. /\ D \in Seq(Byte) /\ Len(D) = Between(read_pos, write_pos')
        /\ \A i \in 1 .. Between(read_pos, write_pos') :
             D[i] = buf[Slot(read_pos + (i - 1))]
    BY <1>5, ContentsSeq
  <2> HIDE DEF D
  <2> QED BY <2>1, <2>2, <1>1
<1> DEFINE C == Contents \o prod.data
<1>7. /\ C \in Seq(Byte) /\ Len(C) = B + n
      /\ \A i \in 1 .. B + n :
           C[i] = IF i <= B THEN Contents[i] ELSE prod.data[i - B]
  <2>1. Contents \in Seq(Byte) /\ prod.data \in Seq(Byte)
    BY <1>3, <1>4
  <2>2. /\ C \in Seq(Byte) /\ Len(C) = Len(Contents) + Len(prod.data)
        /\ \A i \in 1 .. Len(Contents) + Len(prod.data) :
             C[i] = IF i <= Len(Contents) THEN Contents[i]
                                          ELSE prod.data[i - Len(Contents)]
    BY <2>1, ConcatProperties, Zenon
  <2>3. Len(Contents) = B /\ Len(prod.data) = n
    BY <1>2, <1>4
  <2> HIDE DEF C, B, n
  <2> QED BY <2>2, <2>3, Zenon
<1>8. ASSUME NEW i \in 1 .. B + n PROVE Contents'[i] = C[i]
  <2>1. CASE i <= B
    <3>1. i \in 1 .. B
      BY <2>1, <1>3, <1>4
    <3>2. C[i] = Contents[i]
      BY <2>1, <1>7
    <3> QED BY <3>1, <3>2, <1>4, <1>6
  <2>2. CASE ~(i <= B)
    <3> DEFINE k == i - B - 1
    <3>1. k \in Nat /\ B + k < Size /\ i - B \in 1 .. n
          /\ k = (i - B) - 1 /\ i - 1 = B + k
      BY <2>2, <1>2, <1>3, <1>4, SizePositive
    <3> HIDE DEF k
    <3>2. Slot(write_pos + k) = Slot(read_pos + B + k)
      BY <3>1, <1>5, SlotBehind
    <3>3. read_pos + B + k = read_pos + (i - 1)
      <4>1. read_pos \in Int /\ B \in Int /\ k \in Int /\ i - 1 = B + k
        BY <3>1, <1>4, <1>5
      <4> HIDE DEF B
      <4> QED BY <4>1, Regroup
    <3>4. prod.data[i - B] = buf[Slot(write_pos + k)]
      BY <3>1, <1>2
    <3> QED BY <2>2, <3>2, <3>3, <3>4, <1>6, <1>7
  <2> QED BY <2>1, <2>2
<1> HIDE DEF C
<1>9. Contents' = C
  BY <1>6, <1>7, <1>8, SeqEqual
<1> QED BY <1>9 DEF C

(* A step of the consumer removes its chunk from the front.                *)
LEMMA TakeRemoves ==
  ASSUME IInv, AddReadPos
  PROVE  \E n \in 0 .. Len(Contents) :
           Contents' = SubSeq(Contents, n + 1, Len(Contents))
<1> DEFINE B == Between(read_pos, write_pos)  n == Chunk(cons)
<1>1. /\ IInv' /\ UNCHANGED <<write_pos, buf>> /\ read_pos' = Advanced(read_pos, n)
      /\ Between(read_pos', write_pos) = B - n
  BY AddReadPosIInv DEF AddReadPos
<1>2. Sound(cons) /\ cons.pc = "copy" /\ n <= B
  BY DEF AddReadPos, IInv, ConsInv
<1>3. n \in Nat
  BY <1>2, ChunkBounds
<1>4. /\ Contents \in Seq(Byte) /\ Len(Contents) = B /\ B \in 0 .. Size - 1
      /\ \A i \in 1 .. B : Contents[i] = buf[Slot(read_pos + (i - 1))]
  BY ContentsFacts
<1>5. read_pos \in Positions /\ write_pos \in Positions /\ read_pos' \in Positions
      /\ buf \in [0 .. Size - 1 -> Byte] /\ read_pos \in Int
  BY <1>1, SizePositive DEF IInv, Positions
<1>6. /\ Contents' \in Seq(Byte) /\ Len(Contents') = B - n
      /\ \A i \in 1 .. B - n : Contents'[i] = buf[Slot(read_pos' + (i - 1))]
  <2> DEFINE D == ContentsOf(read_pos', write_pos, buf)
  <2>1. Contents' = D
    BY <1>1, ContentsNow
  <2>2. /\ D \in Seq(Byte) /\ Len(D) = Between(read_pos', write_pos)
        /\ \A i \in 1 .. Between(read_pos', write_pos) :
             D[i] = buf[Slot(read_pos' + (i - 1))]
    BY <1>5, ContentsSeq
  <2> HIDE DEF D
  <2> QED BY <2>1, <2>2, <1>1
<1> DEFINE S == SubSeq(Contents, n + 1, B)
<1>7. /\ S \in Seq(Byte) /\ Len(S) = B - n
      /\ \A i \in 1 .. B - n : S[i] = Contents[n + i]
  <2>1. n + 1 \in Int /\ B \in Int /\ \A i \in n + 1 .. B : Contents[i] \in Byte
    BY <1>3, <1>4
  <2>2. /\ S \in Seq(Byte)
        /\ Len(S) = IF n + 1 <= B THEN B - (n + 1) + 1 ELSE 0
        /\ \A i \in 1 .. B - (n + 1) + 1 : S[i] = Contents[n + 1 + i - 1]
    BY <2>1, SubSeqProperties
  <2>3. B - (n + 1) + 1 = B - n /\ \A i \in 1 .. B - n : n + 1 + i - 1 = n + i
    BY <1>3, <1>4
  <2> QED BY <1>2, <1>3, <1>4, <2>2, <2>3
<1>8. ASSUME NEW i \in 1 .. B - n PROVE Contents'[i] = S[i]
  <2>1. i - 1 \in Int /\ n + i \in 1 .. B /\ (n + i) - 1 = n + (i - 1)
    BY <1>3, <1>4
  <2>2. Slot(read_pos' + (i - 1)) = Slot(read_pos + n + (i - 1))
    BY <1>1, <1>3, <1>5, <2>1, AdvancedSlot
  <2>3. read_pos + n + (i - 1) = read_pos + ((n + i) - 1)
    <3>1. read_pos \in Int /\ n \in Int /\ i - 1 \in Int /\ (n + i) - 1 = n + (i - 1)
      BY <1>3, <1>5, <2>1
    <3> HIDE DEF n
    <3> QED BY <3>1, Regroup
  <2>4. Contents[n + i] = buf[Slot(read_pos + ((n + i) - 1))]
    BY <2>1, <1>4
  <2> QED BY <2>2, <2>3, <2>4, <1>6, <1>7
<1> HIDE DEF S
<1>9. Contents' = S
  BY <1>6, <1>7, <1>8, SeqEqual
<1>10. n \in 0 .. Len(Contents)
  BY <1>2, <1>3, <1>4
<1> QED BY <1>4, <1>9, <1>10 DEF S

LEMMA NothingRemoved ==
  ASSUME IInv, Contents' = Contents
  PROVE  \E n \in 0 .. Len(Contents) :
           Contents' = SubSeq(Contents, n + 1, Len(Contents))
<1>1. Contents \in Seq(Byte) /\ Len(Contents) \in Nat
  BY ContentsFacts
<1> DEFINE B == Len(Contents)  S == SubSeq(Contents, 0 + 1, B)
<1>2. \A i \in 1 .. B : Contents[i] \in Byte
  BY <1>1
<1>3. /\ S \in Seq(Byte) /\ Len(S) = B /\ \A i \in 1 .. B : S[i] = Contents[i]
  <2>1. 0 + 1 \in Int /\ B \in Int /\ \A i \in 0 + 1 .. B : Contents[i] \in Byte
    BY <1>1, <1>2
  <2>2. /\ S \in Seq(Byte)
        /\ Len(S) = IF 0 + 1 <= B THEN B - (0 + 1) + 1 ELSE 0
        /\ \A i \in 1 .. B - (0 + 1) + 1 : S[i] = Contents[0 + 1 + i - 1]
    BY <2>1, SubSeqProperties
  <2>3. B - (0 + 1) + 1 = B /\ \A i \in 1 .. B : 0 + 1 + i - 1 = i
    BY <1>1
  <2> QED BY <1>1, <2>2, <2>3
<1> HIDE DEF S
<1>4. Contents = S
  BY <1>1, <1>3, SeqEqual
<1> QED BY <1>1, <1>4 DEF S

(* Writing into free slots changes no byte of the contents.                *)
LEMMA CopyInKeeps ==
  ASSUME IInv, CopyIn
  PROVE  Contents' = Contents
<1>1. IInv' /\ UNCHANGED <<read_pos, write_pos>>
  BY CopyInIInv DEF CopyIn
<1> DEFINE B == Between(read_pos, write_pos)  k == Len(prod.data)
<1>2. \E x \in Byte : buf' = [buf EXCEPT ![ByteAt(write_pos, k)] = x]
  BY DEF CopyIn
<1>3. B \in 0 .. Size - 1 /\ k \in Nat /\ B + k \in 0 .. Size - 1
      /\ k \in 0 .. Size - 1 /\ B + k < Size
      /\ read_pos \in Int /\ write_pos \in Int
      /\ read_pos \in Positions /\ write_pos \in Positions
  <2>1. Sound(prod) /\ prod.pc = "copy" /\ k # Chunk(prod)
        /\ Chunk(prod) <= Size - 1 - B
    BY DEF CopyIn, Copied, IInv, ProdInv
  <2>2. k \in Nat /\ k <= Chunk(prod) /\ Chunk(prod) \in Nat
    BY <2>1, ChunkBounds
  <2>3. B \in 0 .. Size - 1
    BY BetweenSlots DEF IInv
  <2>4. B + k \in 0 .. Size - 1 /\ k \in 0 .. Size - 1 /\ B + k < Size
    BY <2>1, <2>2, <2>3, SizePositive
  <2> QED BY <2>2, <2>3, <2>4, SizePositive DEF IInv, Positions
<1>4. ByteAt(write_pos, k) = Slot(read_pos + (B + k))
  <2>1. ByteAt(write_pos, k) = Slot(write_pos + k)
    BY <1>3, ByteAtSlot
  <2>2. Slot(write_pos + k) = Slot(read_pos + B + k)
    BY <1>3, SlotBehind
  <2>3. read_pos + B + k = read_pos + (B + k)
    <3>1. read_pos \in Int /\ B \in Int /\ k \in Int
      BY <1>3
    <3> HIDE DEF B, k
    <3> QED BY <3>1, Regroup
  <2> QED BY <2>1, <2>2, <2>3
<1>5. ASSUME NEW i \in 1 .. B
      PROVE  buf'[Slot(read_pos + (i - 1))] = buf[Slot(read_pos + (i - 1))]
  <2>1. i - 1 \in 0 .. Size - 1 /\ i - 1 # B + k /\ read_pos + (i - 1) \in Int
    BY <1>3, SizePositive
  <2>2. Slot(read_pos + (i - 1)) # ByteAt(write_pos, k)
    BY <2>1, <1>3, <1>4, SlotsApart
  <2>3. Slot(read_pos + (i - 1)) \in 0 .. Size - 1
    BY <2>1, SlotRange
  <2> QED BY <2>2, <2>3, <1>2 DEF IInv
<1>6. /\ Contents \in Seq(Byte) /\ Len(Contents) = B
      /\ \A i \in 1 .. B : Contents[i] = buf[Slot(read_pos + (i - 1))]
  BY ContentsFacts
<1>7. /\ Contents' \in Seq(Byte) /\ Len(Contents') = B
      /\ \A i \in 1 .. B : Contents'[i] = buf'[Slot(read_pos + (i - 1))]
  <2> DEFINE D == ContentsOf(read_pos, write_pos, buf')
  <2>1. Contents' = D
    BY <1>1, ContentsNow
  <2>2. buf' \in [0 .. Size - 1 -> Byte]
    BY <1>1 DEF IInv
  <2>3. /\ D \in Seq(Byte) /\ Len(D) = B
        /\ \A i \in 1 .. B : D[i] = buf'[Slot(read_pos + (i - 1))]
    BY <2>2, <1>3, ContentsSeq
  <2> HIDE DEF D
  <2> QED BY <2>1, <2>3
<1>8. \A i \in 1 .. B : Contents'[i] = Contents[i]
  BY <1>5, <1>6, <1>7
<1> QED BY <1>6, <1>7, <1>8, SeqEqual

(* Only three actions can touch what Contents is made of.                  *)
LEMMA RingStepKinds ==
  ASSUME [Next]_vars
  PROVE  CopyIn \/ AddWritePos \/ AddReadPos \/ UNCHANGED <<read_pos, write_pos, buf>>
<1>1. ASSUME NEW n \in StepSizes, NEW c \in Counts,
             \/ ring_buffer_write(n, c) \/ ring_buffer_advance_write(n, c)
             \/ ring_buffer_read(n, c) \/ ring_buffer_advance_read(n, c)
      PROVE  UNCHANGED <<read_pos, write_pos, buf>>
  BY <1>1 DEF ring_buffer_write, ring_buffer_advance_write,
              ring_buffer_read, ring_buffer_advance_read
<1>2. ASSUME NEW n \in Lengths,
             \/ ring_buffer_write_fully_with_abort(n)
             \/ ring_buffer_read_fully_with_abort(n)
             \/ ring_buffer_copy_contents(n)
      PROVE  UNCHANGED <<read_pos, write_pos, buf>>
  BY <1>2 DEF ring_buffer_write_fully_with_abort,
              ring_buffer_read_fully_with_abort, ring_buffer_copy_contents
<1>3. ASSUME ProducerStep
      PROVE  CopyIn \/ AddWritePos \/ UNCHANGED <<read_pos, write_pos, buf>>
  BY <1>3 DEF ProducerStep, CheckWrite, CheckAbortWrite
<1>4. ASSUME ConsumerStep
      PROVE  AddReadPos \/ UNCHANGED <<read_pos, write_pos, buf>>
  BY <1>4 DEF ConsumerStep, CheckRead, CopyOut, CheckAbortRead, MeasureEnd, PeekOut
<1>5. ASSUME Abort PROVE UNCHANGED <<read_pos, write_pos, buf>>
  BY <1>5 DEF Abort
<1>6. CASE UNCHANGED vars
  BY <1>6 DEF vars
<1> QED BY <1>1, <1>2, <1>3, <1>4, <1>5, <1>6 DEF Next

(* ring_buffer_write: publishing appends exactly the bytes written, with   *)
(* the consumer anywhere in a read, and no other step changes the contents *)
(* except by dropping the oldest: no byte is lost, invented or overtaken.  *)
THEOREM PublishedInOrder == Spec => PublishesWritten
<1> DEFINE Kept == \E n \in 0 .. Len(Contents) :
                     Contents' = SubSeq(Contents, n + 1, Len(Contents))
           Step == /\ write_pos' # write_pos /\ prod.op # "advance" =>
                        Contents' = Contents \o prod.data
                   /\ write_pos' = write_pos => Kept
<1>1. ASSUME IInv, [Next]_vars PROVE Step
  <2>1. CASE CopyIn
    <3>1. Contents' = Contents
      BY <1>1, <2>1, CopyInKeeps
    <3>2. Kept
      BY <1>1, <3>1, NothingRemoved
    <3> QED BY <2>1, <3>2 DEF CopyIn
  <2>2. CASE AddWritePos
    <3>1. write_pos' # write_pos
      <4>1. Between(read_pos, write_pos') = Between(read_pos, write_pos) + Chunk(prod)
        BY <1>1, <2>2, AddWritePosIInv
      <4>2. Between(read_pos, write_pos) \in 0 .. Size - 1
        BY <1>1, ContentsFacts
      <4>3. Chunk(prod) \in Nat \ {0}
        <5>1. Sound(prod) /\ prod.pc # "idle"
          BY <1>1, <2>2 DEF IInv, ProdInv, AddWritePos
        <5> QED BY <5>1, ChunkBounds
      <4>4. Between(read_pos, write_pos') # Between(read_pos, write_pos)
        BY <4>1, <4>2, <4>3
      <4> QED BY <4>4
    <3>2. prod.op # "advance" => Contents' = Contents \o prod.data
      BY <1>1, <2>2, PublishAppends
    <3> HIDE DEF Kept
    <3> QED BY <3>1, <3>2
  <2>3. CASE AddReadPos
    <3>1. Kept
      BY <1>1, <2>3, TakeRemoves
    <3>2. write_pos' = write_pos
      BY <2>3 DEF AddReadPos
    <3> HIDE DEF Kept
    <3> QED BY <3>1, <3>2
  <2>4. CASE UNCHANGED <<read_pos, write_pos, buf>>
    <3>1. Contents' = Contents
      BY <2>4 DEF Contents, available_read
    <3>2. Kept
      BY <1>1, <3>1, NothingRemoved
    <3> HIDE DEF Kept
    <3> QED BY <2>4, <3>2
  <2> QED BY <1>1, <2>1, <2>2, <2>3, <2>4, RingStepKinds
<1>2. IInv /\ [Next]_vars => [Step]_vars
  BY <1>1
<1>3. [][Step]_vars => PublishesWritten
  BY PTL DEF PublishesWritten
<1> HIDE DEF Step
<1> QED BY <1>2, <1>3, Invariance, PTL DEF Spec
=============================================================================
