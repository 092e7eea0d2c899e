--------------------------- MODULE AsgStreamProofs ---------------------------
(***************************************************************************)
(* Proofs about the address-space stream, for every size of the buffer and *)
(* of its slots, every set of calls, and every number of spins and wakeups.*)
(*                                                                         *)
(*   StaysInBuffer        what is in the rings and what transfer_size says *)
(*                        is in range;                                     *)
(*   TransferSizeIsExact  transfer_size is what is left of the transfer;   *)
(*   NoWakeUpIsLost       the host does not sleep on work;                 *)
(*   CellsArriveInOrder   the host reads the guest's cells in order;       *)
(*   ReplyArrivesInOrder  and the guest reads the host's.                  *)
(*                                                                         *)
(* Three invariants carry them.  Basics says how far each thread is in     *)
(* what it does: the sizes of the guest's call, what it has waited for,    *)
(* and what the host has in its hands.  Awakes adds the states of the host *)
(* and that it sees, or is woken for, what was handed over.  Ordered adds  *)
(* the stream itself: from the number that the decoder expects next to the *)
(* one that the guest sends next the cells lie in what the host holds, in  *)
(* the slots, and in the large ring, in that order, and only the last cell *)
(* may ask for a reply.                                                    *)
(***************************************************************************)
EXTENDS AsgStream, ModularArithmetic, FiniteSetTheorems, SequenceTheorems,
        WellFoundedInduction, TLAPS

-----------------------------------------------------------------------------
(***************************************************************************)
(* Basics.                                                                 *)
(***************************************************************************)
(* Where the two threads can be.                                           *)
GuestPcs ==
  {"idle", "alloc", "fill", "slot", "ping1", "after1", "large", "large1", "start",
   "chunk", "ping3", "after3", "finish", "read", "read1", "take", "close", "close1",
   "closed", "crashed"}
HostPcs ==
  {"idle", "top", "small", "large", "type1", "done1", "type3", "copy3", "done3", "none",
   "spin", "wait", "asleep", "back", "decode", "reply", "left"}

Guests ==
  [pc : GuestPcs, size : Nat, reply : Nat, async : BOOLEAN, sent : Nat,
   pinged : BOOLEAN, looped : BOOLEAN, slot : 0 .. Size - 1,
   seq : 0 .. Numbers - 1, got : Seq(Cells)]
Hosts ==
  [pc : HostPcs, want : Nat, inLarge : BOOLEAN, spins : Nat, avail : Nat,
   data : Seq(Cells), rest : Seq(Cells), reply : Nat, sent : Nat,
   expect : 0 .. Numbers - 1, exit : BOOLEAN]
Slot == [offset : 0 .. Size - 1, size : 1 .. Step]

(* The values of the variables.                                            *)
Typed ==
  /\ host_state \in {"NEED_NOTIFY", "CAN_CONSUME", "EXIT", "RENDERING"}
  /\ transfer_size \in Nat /\ transfer_mode \in {1, 3}
  /\ buf \in [0 .. Size - 1 -> Cells]
  /\ to_host \in Seq(Slot)
  /\ large \in Ring /\ from \in Ring
  /\ guest \in Guests /\ host \in Hosts
  /\ wakeups \in 0 .. MaxWakeups /\ exiting \in BOOLEAN

(* Where the guest may write into the large ring, or has just done so.     *)
Pushing == {"chunk", "ping3", "after3", "finish"}

GuestSizes ==
  /\ guest.pc \in {"alloc", "fill", "slot", "ping1", "after1"} =>
       guest.size \in 1 .. Step
  /\ guest.pc \in {"large", "large1", "start", "chunk"} => guest.size > 0
  /\ guest.pc \notin Pushing => guest.sent = 0
  /\ guest.pc = "chunk" => guest.sent < guest.size
  /\ guest.pc = "ping3" => guest.sent <= guest.size
  /\ guest.pc \in {"after3", "finish"} => guest.sent = guest.size

(* What the guest has waited for.                                          *)
Drained ==
  /\ guest.pc \in {"fill", "slot", "ping1", "after1", "large1", "start", "read1",
                   "take", "close1", "closed"} => large.len = 0
  /\ guest.pc \in {"start", "take", "closed"} \cup Pushing => to_host = <<>>

(* The host's loop.                                                        *)
Looking == {"small", "large", "none", "type1", "type3", "copy3", "spin", "wait", "asleep"}
HostData ==
  /\ host.pc \in Looking \cup {"idle", "top", "reply", "left"} => host.data = <<>>
  /\ host.pc \in Looking \cup {"done3", "left"} => host.rest = <<>>
  /\ host.pc \in Looking \cup {"top", "done3"} => host.want > 0
  /\ host.pc \in {"done1", "back", "decode"} => host.data # <<>>
  /\ host.pc \in {"type1", "done1"} => to_host # <<>>
  /\ host.pc = "done3" => Len(host.data) = host.avail
  /\ host.pc \in {"type3", "copy3", "done3"} => host.avail <= large.len

Basics == Typed /\ GuestSizes /\ Drained /\ HostData /\ TransferSizeExact

-----------------------------------------------------------------------------
LEMMA LesserNat ==
  ASSUME NEW a \in Nat, NEW b \in Nat
  PROVE  /\ Lesser(a, b) \in Nat /\ Lesser(a, b) <= a /\ Lesser(a, b) <= b
         /\ a > 0 /\ b > 0 => Lesser(a, b) > 0
BY DEF Lesser

LEMMA CellKinds ==
  ASSUME NEW n \in Int, NEW r \in Nat
  PROVE  Cmd(n, r) \in Cells /\ Reply(n, r) \in Cells
<1>1. n % Numbers \in 0 .. Numbers - 1 BY ModRange, BoundAssumption
<1> QED BY <1>1 DEF Cmd, Reply, Cells

LEMMA StoredTyped ==
  ASSUME NEW pos \in Int, NEW cells \in Seq(Cells), buf \in [0 .. Size - 1 -> Cells]
  PROVE  Stored(pos, cells) \in [0 .. Size - 1 -> Cells]
<1> SUFFICES ASSUME NEW c \in 0 .. Size - 1
             PROVE  (LET j == (c - pos) % Size
                     IN  IF j < Len(cells) THEN cells[j + 1] ELSE buf[c]) \in Cells
  BY DEF Stored
<1> DEFINE j == (c - pos) % Size
<1>1. j \in 0 .. Size - 1 BY ModRange, SizeAssumption
<1> HIDE DEF j
<1>2. CASE j < Len(cells)
  <2>1. j + 1 \in 1 .. Len(cells) BY <1>1, <1>2
  <2> QED BY <2>1, <1>2, ElementOfSeq DEF j
<1>3. CASE ~(j < Len(cells)) BY <1>3 DEF j
<1> QED BY <1>2, <1>3

LEMMA LoadedTyped ==
  ASSUME NEW pos \in Int, NEW k \in Nat, buf \in [0 .. Size - 1 -> Cells]
  PROVE  Loaded(pos, k) \in Seq(Cells) /\ Len(Loaded(pos, k)) = k
<1>1. ASSUME NEW j \in 1 .. k PROVE (pos + j - 1) % Size \in 0 .. Size - 1
  <2>1. pos + j - 1 \in Int OBVIOUS
  <2> QED BY <2>1, ModRange, SizeAssumption
<1>2. \A j \in 1 .. k : buf[(pos + j - 1) % Size] \in Cells BY <1>1
<1> QED BY <1>2 DEF Loaded

LEMMA TransferTyped ==
  ASSUME NEW i \in Nat, NEW k \in Nat, guest \in Guests
  PROVE  Transfer(i, k) \in Seq(Cells) /\ Len(Transfer(i, k)) = k
<1>1. ASSUME NEW j \in 1 .. k
      PROVE  Cmd(guest.seq + i + j - 1, IF i + j = guest.size THEN guest.reply ELSE 0)
               \in Cells
  <2> DEFINE r == IF i + j = guest.size THEN guest.reply ELSE 0
  <2>1. r \in Nat BY DEF Guests
  <2>2. guest.seq + i + j - 1 \in Int BY DEF Guests
  <2> HIDE DEF r
  <2>3. Cmd(guest.seq + i + j - 1, r) \in Cells BY <2>1, <2>2, CellKinds
  <2> QED BY <2>3 DEF r
<1> QED BY <1>1 DEF Transfer

LEMMA AnswerTyped ==
  ASSUME NEW k \in Nat, host \in Hosts
  PROVE  Answer(k) \in Seq(Cells) /\ Len(Answer(k)) = k
<1>1. ASSUME NEW j \in 1 .. k
      PROVE  Reply(host.expect - 1, host.sent + j) \in Cells
  <2>1. host.sent + j \in Nat /\ host.expect - 1 \in Int BY DEF Hosts
  <2> QED BY <2>1, CellKinds
<1> QED BY <1>1 DEF Answer

(* A finite set of numbers has a largest one: the one with the fewest      *)
(* above it.                                                               *)
LEMMA MaxExists ==
  ASSUME NEW S, S \subseteq Nat, S # {}, IsFiniteSet(S)
  PROVE  Max(S) \in S /\ \A x \in S : x <= Max(S)
<1> DEFINE Above(x) == {y \in S : y > x}
           T == {Cardinality(Above(x)) : x \in S}
<1>1. \A x \in S : IsFiniteSet(Above(x)) /\ Cardinality(Above(x)) \in Nat
  BY FS_Subset, FS_CardinalityType
<1>2. T \subseteq Nat /\ T # {} BY <1>1
<1>3. PICK n \in T : \A m \in T : ~(<<m, n>> \in OpToRel(<, Nat))
  <2> HIDE DEF T
  <2> QED BY <1>2, WFMin, NatLessThanWellFounded
<1>4. \A m \in T : ~(m < n) BY <1>2, <1>3 DEF OpToRel
<1>5. PICK x \in S : n = Cardinality(Above(x)) OBVIOUS
<1>6. ASSUME NEW y \in S PROVE y <= x
  <2> SUFFICES ASSUME y > x PROVE FALSE
    OBVIOUS
  <2>1. Above(y) \subseteq Above(x) /\ y \in Above(x) /\ y \notin Above(y)
    <3>1. \A z \in S : z \in Int /\ (z > y => z > x) /\ ~(y > y) OBVIOUS
    <3> QED BY <3>1
  <2>2. Cardinality(Above(y)) < Cardinality(Above(x))
    <3> HIDE DEF Above
    <3> QED BY <2>1, <1>1, FS_Subset
  <2>3. Cardinality(Above(y)) \in T OBVIOUS
  <2> HIDE DEF T, Above
  <2> QED BY <2>2, <2>3, <1>4, <1>5
<1>7. \E z \in S : \A y \in S : z >= y BY <1>6
<1> QED BY <1>7 DEF Max

(* What the decoder reads from the cells is a number.                      *)
LEMMA ReplyNat ==
  ASSUME NEW s \in Seq(Cells), s # <<>>
  PROVE  /\ Max({s[i].r : i \in DOMAIN s}) \in Nat
         /\ \E i \in 1 .. Len(s) : Max({s[j].r : j \in DOMAIN s}) = s[i].r
         /\ \A i \in 1 .. Len(s) : s[i].r <= Max({s[j].r : j \in DOMAIN s})
<1> DEFINE S == {s[i].r : i \in DOMAIN s}
<1>1. DOMAIN s = 1 .. Len(s) /\ Len(s) \in Nat /\ Len(s) > 0 BY EmptySeq, LenProperties
<1>2. \A c \in Cells : c.r \in Nat BY DEF Cells, Blank
<1>3. S \subseteq Nat BY <1>1, <1>2, ElementOfSeq
<1>4. S # {}
  <2>1. s[1].r \in S BY <1>1
  <2> QED BY <2>1
<1>5. IsFiniteSet(DOMAIN s) BY <1>1, FS_Interval
<1>6. IsFiniteSet(S)
  <2> DEFINE f == [i \in DOMAIN s |-> s[i].r]
  <2>1. f \in Surjection(DOMAIN s, S) BY DEF Surjection
  <2> HIDE DEF f, S
  <2> QED BY <2>1, <1>5, FS_Surjection
<1>7. /\ \A r \in S : \E i \in 1 .. Len(s) : r = s[i].r
      /\ \A i \in 1 .. Len(s) : s[i].r \in S
  BY <1>1
<1> HIDE DEF S
<1>8. Max(S) \in S /\ Max(S) \in Nat /\ \A r \in S : r <= Max(S) BY <1>3, <1>4, <1>6, MaxExists
<1>9. /\ \E i \in 1 .. Len(s) : Max(S) = s[i].r
      /\ \A i \in 1 .. Len(s) : s[i].r <= Max(S)
  BY <1>7, <1>8, Zenon
<1> QED BY <1>8, <1>9, Zenon DEF S

-----------------------------------------------------------------------------
LEMMA SentTyped ==
  ASSUME guest \in Guests
  PROVE  Sent \in Guests /\ Sent.pc \in {"idle", "read"} /\ Sent.slot = guest.slot
<1>1. (guest.seq + guest.size) % Numbers \in 0 .. Numbers - 1
  <2>1. guest.seq + guest.size \in Int BY DEF Guests
  <2> QED BY <2>1, ModRange, BoundAssumption
<1>2. <<>> \in Seq(Cells) OBVIOUS
<1> QED BY <1>1, <1>2 DEF Sent, NoCall, Guests, GuestPcs

LEMMA WakeupsTyped ==
  ASSUME NEW awake \in BOOLEAN, wakeups \in 0 .. MaxWakeups, NotifyUnless(awake)
  PROVE  wakeups' \in 0 .. MaxWakeups
BY BoundAssumption DEF NotifyUnless, Notified, Lesser

LEMMA InitTyped == Init => Typed
<1> SUFFICES ASSUME Init PROVE Typed
  OBVIOUS
<1>1. 0 \in 0 .. Size - 1 /\ 0 \in 0 .. Numbers - 1 BY SizeAssumption, BoundAssumption
<1>2. Blank \in Cells BY DEF Cells
<1>3. buf \in [0 .. Size - 1 -> Cells] BY <1>2 DEF Init
<1>4. guest \in Guests BY <1>1 DEF Init, NoCall, Guests, GuestPcs
<1>5. host \in Hosts BY <1>1 DEF Init, Hosts, HostPcs
<1>6. wakeups \in 0 .. MaxWakeups BY BoundAssumption DEF Init
<1>7. large \in Ring /\ from \in Ring BY <1>1 DEF Init, Ring
<1>8. to_host \in Seq(Slot) BY DEF Init
<1> QED BY <1>3, <1>4, <1>5, <1>6, <1>7, <1>8 DEF Init, Typed

LEMMA SubSeqTyped ==
  ASSUME NEW s \in Seq(Cells), NEW k \in Nat, k <= Len(s)
  PROVE  /\ SubSeq(s, 1, k) \in Seq(Cells) /\ Len(SubSeq(s, 1, k)) = k
         /\ SubSeq(s, k + 1, Len(s)) \in Seq(Cells)
         /\ Len(SubSeq(s, k + 1, Len(s))) = Len(s) - k
OBVIOUS

LEMMA ChunkSizeNat ==
  ASSUME guest \in Guests
  PROVE  chunkSize \in Nat
<1>1. Size \div 2 \in Nat /\ Size \div 4 \in Nat BY SizeAssumption
<1>2. guest.size \in Nat BY DEF Guests
<1> QED BY <1>1, <1>2 DEF chunkSize, Lesser

LEMMA NoCells == <<>> \in Seq(Cells)
OBVIOUS

LEMMA Typed_allocBuffer ==
  ASSUME NEW size \in Sends, NEW reply \in Replies, Typed, allocBuffer(size, reply)
  PROVE  Typed'
<1>1. size \in Nat /\ reply \in Nat BY CallAssumption
<1>2. guest' \in Guests BY <1>1, NoCells DEF Typed, allocBuffer, Guests, GuestPcs
<1> QED BY <1>2 DEF Typed, allocBuffer, shared

LEMMA Typed_write ==
  ASSUME NEW size \in Sends, NEW reply \in Nat, NEW async \in BOOLEAN,
         Typed, write(size, reply, async)
  PROVE  Typed'
<1>1. size \in Nat /\ reply \in Nat BY CallAssumption
<1>2. guest' \in Guests BY <1>1, NoCells DEF Typed, write, Guests, GuestPcs
<1> QED BY <1>2 DEF Typed, write, shared

LEMMA Typed_Close ==
  ASSUME Typed, Close
  PROVE  Typed'
<1>1. guest' \in Guests BY NoCells DEF Typed, Close, Guests, GuestPcs
<1> QED BY <1>1 DEF Typed, Close, shared

LEMMA Typed_ensureType1Finished ==
  ASSUME Typed, ensureType1Finished
  PROVE  Typed'
<1>1. AfterType1 \in GuestPcs BY DEF ensureType1Finished, AfterType1, GuestPcs
<1>2. guest' \in Guests BY <1>1 DEF Typed, ensureType1Finished, GuestAt, Guests
<1> QED BY <1>2 DEF Typed, ensureType1Finished, shared

LEMMA Typed_PingType1 ==
  ASSUME Typed, PingType1
  PROVE  Typed'
<1>1. guest' \in Guests BY DEF Typed, PingType1, GuestAt, Guests, GuestPcs
<1>2. Awake(host_state) \in BOOLEAN BY DEF Awake
<1>3. wakeups' \in 0 .. MaxWakeups BY <1>2, WakeupsTyped DEF Typed, PingType1
<1> QED BY <1>1, <1>3 DEF Typed, PingType1, shared

LEMMA Typed_StartLarge ==
  ASSUME Typed, StartLarge
  PROVE  Typed'
<1>1. guest' \in Guests BY DEF Typed, StartLarge, GuestAt, Guests, GuestPcs
<1>2. transfer_size' \in Nat /\ transfer_mode' \in {1, 3} BY DEF Typed, StartLarge, Guests
<1> QED BY <1>1, <1>2 DEF Typed, StartLarge

LEMMA Typed_ensureType3Finished ==
  ASSUME Typed, ensureType3Finished
  PROVE  Typed'
<1>1. Sent \in Guests BY SentTyped DEF Typed
<1>2. ASSUME large.len = 0 PROVE guest' \in Guests
  <2>1. AfterType3 \in Guests
    BY <1>1 DEF AfterType3, Typed, ensureType3Finished, Guests, GuestPcs
  <2>2. guest' = [AfterType3 EXCEPT !.looped = FALSE] BY <1>2 DEF ensureType3Finished
  <2>3. guest' \in Guests
    <3> DEFINE g == AfterType3
    <3>1. g \in Guests /\ guest' = [g EXCEPT !.looped = FALSE] BY <2>1, <2>2
    <3> HIDE DEF g
    <3> QED BY <3>1 DEF Guests
  <2> QED BY <2>3
<1>3. ASSUME large.len # 0 PROVE guest' \in Guests
  <2>1. guest' = [guest EXCEPT !.looped = TRUE] BY <1>3 DEF ensureType3Finished
  <2>2. guest' \in Guests BY <2>1 DEF Typed, Guests
  <2> QED BY <2>2
<1>4. wakeups' \in 0 .. MaxWakeups
  BY WakeupsTyped DEF Typed, ensureType3Finished, Awake
<1>5. guest' \in Guests BY <1>2, <1>3
<1>6. transfer_mode' \in {1, 3} BY DEF Typed, ensureType3Finished
<1> QED BY <1>4, <1>5, <1>6 DEF Typed, ensureType3Finished

LEMMA Typed_Fill ==
  ASSUME Typed, Fill
  PROVE  Typed'
<1>1. guest' \in Guests BY DEF Typed, Fill, GuestAt, Guests, GuestPcs
<1>2. Transfer(0, guest.size) \in Seq(Cells) BY TransferTyped DEF Typed, Guests
<1>3. guest.slot \in Int BY DEF Typed, Guests
<1>4. buf' \in [0 .. Size - 1 -> Cells] BY <1>2, <1>3, StoredTyped DEF Typed, Fill
<1> QED BY <1>1, <1>4 DEF Typed, Fill

LEMMA Typed_type1Write ==
  ASSUME Typed, GuestSizes, type1Write
  PROVE  Typed'
<1>1. guest' \in Guests BY DEF Typed, type1Write, GuestAt, Guests, GuestPcs
<1>2. guest.slot \in 0 .. Size - 1 /\ guest.size \in 1 .. Step
  BY DEF Typed, type1Write, Guests, GuestSizes
<1>3. [offset |-> guest.slot, size |-> guest.size] \in Slot BY <1>2 DEF Slot
<1>4. to_host' \in Seq(Slot) BY <1>3, AppendProperties DEF Typed, type1Write
<1> QED BY <1>1, <1>4 DEF Typed, type1Write

LEMMA Typed_AfterType1Write ==
  ASSUME Typed, AfterType1Write
  PROVE  Typed'
<1>1. Sent \in Guests BY SentTyped DEF Typed
<1>2. (Sent.slot + Step) % Size \in 0 .. Size - 1
  <2>1. Sent.slot + Step \in Int BY <1>1, SizeAssumption DEF Guests
  <2> QED BY <2>1, ModRange, SizeAssumption
<1>3. guest' \in Guests BY <1>1, <1>2 DEF AfterType1Write, Guests
<1>4. wakeups' \in 0 .. MaxWakeups
  BY WakeupsTyped DEF Typed, AfterType1Write, SkipsNotify
<1> QED BY <1>3, <1>4 DEF Typed, AfterType1Write, shared

LEMMA Typed_Chunk ==
  ASSUME Typed, GuestSizes, Chunk
  PROVE  Typed'
<1> DEFINE k == Lesser(guest.size - guest.sent, chunkSize)
<1>1. chunkSize \in Nat /\ guest.size - guest.sent \in Nat /\ guest.sent \in Nat
  BY ChunkSizeNat DEF Typed, Chunk, GuestSizes, Guests
<1>2. k \in Nat BY <1>1, LesserNat
<1>3. large.pos \in 0 .. Size - 1 /\ large.len \in 0 .. Size - 1 BY DEF Typed, Ring
<1>4. CASE k <= Room(large)
  <2>1. /\ buf' = Stored(large.pos + large.len, Transfer(guest.sent, k))
        /\ large' = Pushed(large, k)
        /\ guest' = [guest EXCEPT !.pc = "ping3", !.sent = @ + k]
    BY <1>4 DEF Chunk
  <2> HIDE DEF k
  <2>2. Transfer(guest.sent, k) \in Seq(Cells) BY <1>1, <1>2, TransferTyped DEF Typed
  <2>3. large.pos + large.len \in Int BY <1>3
  <2>4. buf' \in [0 .. Size - 1 -> Cells] BY <2>1, <2>2, <2>3, StoredTyped DEF Typed
  <2>5. guest.sent + k \in Nat BY <1>1, <1>2
  <2>6. guest' \in Guests BY <2>1, <2>5 DEF Typed, Guests, GuestPcs
  <2>7. large.len + k \in 0 .. Size - 1 BY <1>2, <1>3, <1>4, SizeAssumption DEF Room
  <2>8. large' \in Ring BY <2>1, <2>7 DEF Typed, Ring, Pushed
  <2> QED BY <2>4, <2>6, <2>8 DEF Typed, Chunk
<1>5. CASE ~(k <= Room(large))
  <2>1. guest' = [guest EXCEPT !.pc = "ping3"] /\ UNCHANGED <<buf, large>>
    BY <1>5 DEF Chunk, GuestAt
  <2>2. guest' \in Guests BY <2>1 DEF Typed, Guests, GuestPcs
  <2> QED BY <2>1, <2>2 DEF Typed, Chunk
<1> QED BY <1>4, <1>5

LEMMA Typed_PingType3 ==
  ASSUME Typed, PingType3
  PROVE  Typed'
<1> DEFINE ping == ~guest.pinged /\ ~Awake(host_state)
<1>1. ping \in BOOLEAN BY DEF Awake
<1>2. guest' = [guest EXCEPT !.pc = IF guest.sent < guest.size THEN "chunk" ELSE "after3",
                             !.pinged = @ \/ ping] /\ NotifyUnless(~ping)
  BY DEF PingType3
<1> HIDE DEF ping
<1>3. (guest.pinged \/ ping) \in BOOLEAN OBVIOUS
<1>4. guest' \in Guests BY <1>2, <1>3 DEF Typed, Guests, GuestPcs
<1>5. wakeups' \in 0 .. MaxWakeups BY <1>1, <1>2, WakeupsTyped DEF Typed
<1> QED BY <1>4, <1>5 DEF Typed, PingType3, shared

LEMMA Typed_AfterLarge ==
  ASSUME Typed, AfterLarge
  PROVE  Typed'
<1>1. Sent \in Guests /\ guest \in Guests BY SentTyped DEF Typed
<1>2. guest' \in Guests
  <2>1. CASE guest.async
    <3>1. guest' = Sent BY <2>1 DEF AfterLarge
    <3> QED BY <1>1, <3>1
  <2>2. CASE ~guest.async
    <3>1. guest' = [guest EXCEPT !.pc = "finish"] BY <2>2 DEF AfterLarge, GuestAt
    <3> QED BY <1>1, <3>1 DEF Guests, GuestPcs
  <2> QED BY <2>1, <2>2
<1>3. transfer_mode' \in {1, 3} BY DEF Typed, AfterLarge
<1>4. wakeups' \in 0 .. MaxWakeups BY WakeupsTyped DEF Typed, AfterLarge, SkipsNotify
<1> QED BY <1>2, <1>3, <1>4 DEF Typed, AfterLarge

LEMMA Typed_speculativeRead ==
  ASSUME Typed, speculativeRead
  PROVE  Typed'
<1> DEFINE got == guest.got \o Loaded(from.pos, from.len)
<1>1. from.pos \in 0 .. Size - 1 /\ from.len \in 0 .. Size - 1 BY DEF Typed, Ring
<1>2. Loaded(from.pos, from.len) \in Seq(Cells) BY <1>1, LoadedTyped DEF Typed
<1>3. got \in Seq(Cells) BY <1>2, ConcatProperties DEF Typed, Guests
<1>4. guest' = [guest EXCEPT !.got = got,
                             !.pc = IF Len(got) < guest.reply THEN "read" ELSE "idle",
                             !.reply = IF Len(got) < guest.reply THEN @ ELSE 0]
  BY DEF speculativeRead
<1> HIDE DEF got
<1>5. guest' \in Guests BY <1>3, <1>4 DEF Typed, Guests, GuestPcs
<1>6. from' \in Ring
  <2>1. (from.pos + from.len) % Size \in 0 .. Size - 1
    <3>1. from.pos + from.len \in Int BY <1>1
    <3> QED BY <3>1, ModRange, SizeAssumption
  <2>2. from.len - from.len \in 0 .. Size - 1 BY <1>1, SizeAssumption
  <2> QED BY <2>1, <2>2 DEF speculativeRead, Popped, Ring
<1> QED BY <1>5, <1>6 DEF Typed, speculativeRead

LEMMA Typed_readRaw ==
  ASSUME NEW want \in Wants, Typed, readRaw(want)
  PROVE  Typed'
<1>1. want \in Nat BY CallAssumption
<1>2. host' \in Hosts BY <1>1 DEF Typed, readRaw, Hosts, HostPcs
<1> QED BY <1>2 DEF Typed, readRaw

LEMMA Typed_TopOfLoop ==
  ASSUME Typed, TopOfLoop
  PROVE  Typed'
<1> DEFINE k == Lesser(host.want, Len(host.rest))
<1>1. k \in Nat /\ k <= Len(host.rest) /\ Len(host.rest) \in Nat
  <2>1. host.want \in Nat /\ Len(host.rest) \in Nat BY DEF Typed, Hosts
  <2> QED BY <2>1, LesserNat
<1>2. CASE k > 0
  <2>1. host' = [host EXCEPT !.pc = "back", !.data = SubSeq(host.rest, 1, k),
                             !.rest = SubSeq(@, k + 1, Len(@))]
        /\ host_state' = host_state
    BY <1>2 DEF TopOfLoop
  <2> HIDE DEF k
  <2>2. SubSeq(host.rest, 1, k) \in Seq(Cells)
        /\ SubSeq(host.rest, k + 1, Len(host.rest)) \in Seq(Cells)
    BY <1>1, SubSeqTyped DEF Typed, Hosts
  <2>3. host' \in Hosts BY <2>1, <2>2 DEF Typed, Hosts, HostPcs
  <2> QED BY <2>1, <2>3 DEF Typed, TopOfLoop
<1>3. CASE ~(k > 0)
  <2>1. host' = [host EXCEPT !.pc = IF host.exit THEN "left" ELSE "small"]
        /\ host_state' = "CAN_CONSUME"
    BY <1>3 DEF TopOfLoop, HostAt
  <2>2. host' \in Hosts BY <2>1 DEF Typed, Hosts, HostPcs
  <2> QED BY <2>1, <2>2 DEF Typed, TopOfLoop
<1> QED BY <1>2, <1>3

LEMMA Typed_CheckSmall ==
  ASSUME Typed, CheckSmall
  PROVE  Typed'
<1>1. host' \in Hosts BY DEF Typed, CheckSmall, Hosts, HostPcs
<1> QED BY <1>1 DEF Typed, CheckSmall, shared

LEMMA Typed_CheckLarge ==
  ASSUME Typed, CheckLarge
  PROVE  Typed'
<1>1. large.len \in Nat BY DEF Typed, Ring
<1>2. host' \in Hosts BY <1>1 DEF Typed, CheckLarge, Hosts, HostPcs
<1> QED BY <1>2 DEF Typed, CheckLarge, shared

LEMMA Typed_type1Read ==
  ASSUME Typed, HostData, type1Read
  PROVE  Typed'
<1> DEFINE cells == Loaded(Head(to_host).offset, Head(to_host).size)
           k == Lesser(host.want, Len(cells))
<1>1. Head(to_host) \in Slot
  BY HeadTailProperties DEF Typed, HostData, type1Read
<1>2. Head(to_host).offset \in Int /\ Head(to_host).size \in Nat BY <1>1 DEF Slot
<1>3. cells \in Seq(Cells) BY <1>2, LoadedTyped DEF Typed
<1>4. host.want \in Nat /\ Len(cells) \in Nat BY <1>3, LenProperties DEF Typed, Hosts
<1>5. host' = [host EXCEPT !.pc = "done1", !.data = SubSeq(cells, 1, k),
                           !.rest = SubSeq(cells, k + 1, Len(cells))]
  BY DEF type1Read
<1> HIDE DEF cells
<1>6. k \in Nat /\ k <= Len(cells) BY <1>4, LesserNat
<1> HIDE DEF k
<1>7. SubSeq(cells, 1, k) \in Seq(Cells) /\ SubSeq(cells, k + 1, Len(cells)) \in Seq(Cells)
  BY <1>3, <1>6, SubSeqTyped
<1>8. host' \in Hosts BY <1>5, <1>7 DEF Typed, Hosts, HostPcs
<1> QED BY <1>8 DEF Typed, type1Read, shared

LEMMA Typed_AdvanceType1 ==
  ASSUME Typed, HostData, AdvanceType1
  PROVE  Typed'
<1>1. to_host' \in Seq(Slot) BY HeadTailProperties DEF Typed, HostData, AdvanceType1
<1>2. host' \in Hosts BY DEF Typed, AdvanceType1, HostAt, Hosts, HostPcs
<1> QED BY <1>1, <1>2 DEF Typed, AdvanceType1

LEMMA Typed_type3Read ==
  ASSUME Typed, type3Read
  PROVE  Typed'
<1> DEFINE k == Lesser(Lesser(host.avail, transfer_size), host.want)
<1>1. host.avail \in Nat /\ host.want \in Nat /\ transfer_size \in Nat
  BY DEF Typed, Hosts
<1>2. k \in Nat /\ k <= transfer_size
  <2>1. Lesser(host.avail, transfer_size) \in Nat
        /\ Lesser(host.avail, transfer_size) <= transfer_size
    BY <1>1, LesserNat
  <2>2. /\ k \in Nat
        /\ k <= Lesser(host.avail, transfer_size) BY <1>1, <2>1, LesserNat
  <2> HIDE DEF k
  <2> QED BY <1>1, <2>1, <2>2
<1>3. host' = [host EXCEPT !.pc = "copy3", !.avail = k] /\ transfer_size' = transfer_size - k
  BY DEF type3Read
<1> HIDE DEF k
<1>4. host' \in Hosts BY <1>2, <1>3 DEF Typed, Hosts, HostPcs
<1>5. transfer_size' \in Nat BY <1>1, <1>2, <1>3
<1> QED BY <1>4, <1>5 DEF Typed, type3Read

LEMMA Typed_CopyType3 ==
  ASSUME Typed, CopyType3
  PROVE  Typed'
<1>1. large.pos \in Int /\ host.avail \in Nat BY DEF Typed, Ring, Hosts
<1>2. Loaded(large.pos, host.avail) \in Seq(Cells) BY <1>1, LoadedTyped DEF Typed
<1>3. host' \in Hosts BY <1>2 DEF Typed, CopyType3, Hosts, HostPcs
<1> QED BY <1>3 DEF Typed, CopyType3, shared

LEMMA Typed_AdvanceType3 ==
  ASSUME Typed, HostData, AdvanceType3
  PROVE  Typed'
<1>0. /\ large.pos \in 0 .. Size - 1 /\ large.len \in 0 .. Size - 1
      /\ host.avail \in Nat /\ host.avail <= large.len
  BY DEF Typed, Ring, Hosts, HostData, AdvanceType3
<1>1. large.pos + host.avail \in Int /\ large.len - host.avail \in 0 .. Size - 1
  BY <1>0, SizeAssumption
<1>2. (large.pos + host.avail) % Size \in 0 .. Size - 1
  BY <1>1, ModRange, SizeAssumption
<1>3. large' \in Ring BY <1>1, <1>2 DEF AdvanceType3, Popped, Ring
<1>4. host' \in Hosts BY DEF Typed, AdvanceType3, Hosts, HostPcs
<1> QED BY <1>3, <1>4 DEF Typed, AdvanceType3

LEMMA Typed_Spin ==
  ASSUME Typed, Spin
  PROVE  Typed'
<1>1. (host.spins + 1) % MaxSpins \in Nat
  <2>1. host.spins + 1 \in Int BY DEF Typed, Hosts
  <2>2. (host.spins + 1) % MaxSpins \in 0 .. MaxSpins - 1
    BY <2>1, ModRange, BoundAssumption
  <2> QED BY <2>2
<1>2. host' \in Hosts BY <1>1 DEF Typed, Spin, Hosts, HostPcs
<1> QED BY <1>2 DEF Typed, Spin, shared

LEMMA Typed_FoundNothing ==
  ASSUME Typed, FoundNothing
  PROVE  Typed'
<1>1. host' \in Hosts BY DEF Typed, FoundNothing, HostAt, Hosts, HostPcs
<1> QED BY <1>1 DEF Typed, FoundNothing, shared

LEMMA Typed_Sleep ==
  ASSUME Typed, Sleep
  PROVE  Typed'
<1>1. host' \in Hosts BY DEF Typed, Sleep, HostAt, Hosts, HostPcs
<1> QED BY <1>1 DEF Typed, Sleep, shared

LEMMA Typed_GiveUpReply ==
  ASSUME Typed, GiveUpReply
  PROVE  Typed'
<1>1. host' \in Hosts BY DEF Typed, GiveUpReply, HostAt, Hosts, HostPcs
<1> QED BY <1>1 DEF Typed, GiveUpReply, shared

LEMMA Typed_WakeToExit ==
  ASSUME Typed, WakeToExit
  PROVE  Typed'
<1>1. host' \in Hosts BY DEF Typed, WakeToExit, HostAt, Hosts, HostPcs
<1> QED BY <1>1 DEF Typed, WakeToExit, shared

LEMMA Typed_Return ==
  ASSUME Typed, Return
  PROVE  Typed'
<1>1. host' \in Hosts BY DEF Typed, Return, HostAt, Hosts, HostPcs
<1> QED BY <1>1 DEF Typed, Return, shared

LEMMA Typed_Wake ==
  ASSUME Typed, Wake
  PROVE  Typed'
<1>1. host' \in Hosts BY DEF Typed, Wake, HostAt, Hosts, HostPcs
<1>2. wakeups' \in 0 .. MaxWakeups BY BoundAssumption DEF Typed, Wake
<1> QED BY <1>1, <1>2 DEF Typed, Wake

LEMMA Typed_Decode ==
  ASSUME Typed, HostData, Decode
  PROVE  Typed'
<1> DEFINE reply == Max({host.data[i].r : i \in DOMAIN host.data})
<1>1. reply \in Nat BY ReplyNat DEF Typed, Hosts, HostData, Decode
<1>2. (host.expect + Len(host.data)) % Numbers \in 0 .. Numbers - 1
  <2>1. host.expect + Len(host.data) \in Int BY DEF Typed, Hosts
  <2> QED BY <2>1, ModRange, BoundAssumption
<1>3. host' = [host EXCEPT !.pc = IF reply > 0 THEN "reply" ELSE "idle",
                           !.reply = reply, !.sent = 0, !.data = <<>>,
                           !.expect = (@ + Len(host.data)) % Numbers]
  BY DEF Decode
<1> HIDE DEF reply
<1>4. host' \in Hosts BY <1>1, <1>2, <1>3, NoCells DEF Typed, Hosts, HostPcs
<1> QED BY <1>4 DEF Typed, Decode, shared

LEMMA Typed_commitBuffer ==
  ASSUME Typed, commitBuffer
  PROVE  Typed'
<1>1. host.reply - host.sent \in Int /\ Room(from) \in Nat
  <2>1. host.reply \in Nat /\ host.sent \in Nat BY DEF Typed, Hosts
  <2>2. from.len \in 0 .. Size - 1 BY DEF Typed, Ring
  <2>3. Room(from) \in Nat BY <2>2, SizeAssumption DEF Room
  <2> QED BY <2>1, <2>3
<1>2. todo \in Nat /\ todo <= Room(from) BY <1>1 DEF todo, Lesser, commitBuffer
<1>3. from.pos \in 0 .. Size - 1 /\ from.len \in 0 .. Size - 1 BY DEF Typed, Ring
<1>4. Answer(todo) \in Seq(Cells) BY <1>2, AnswerTyped DEF Typed
<1>5. buf' \in [0 .. Size - 1 -> Cells]
  <2>1. from.pos + from.len \in Int BY <1>3
  <2> QED BY <2>1, <1>4, StoredTyped DEF Typed, commitBuffer
<1>6. from' \in Ring
  <2>1. from.len + todo \in 0 .. Size - 1 BY <1>2, <1>3, SizeAssumption DEF Room
  <2> QED BY <2>1 DEF Typed, Ring, Pushed, commitBuffer
<1>7. host' \in Hosts
  <2>1. host.sent + todo \in Nat BY <1>2 DEF Typed, Hosts
  <2> QED BY <2>1 DEF Typed, commitBuffer, Hosts, HostPcs
<1> QED BY <1>5, <1>6, <1>7 DEF Typed, commitBuffer

LEMMA Typed_Crash ==
  ASSUME Typed, Crash
  PROVE  Typed'
<1>1. 0 \in 0 .. Size - 1 /\ 0 \in 0 .. Numbers - 1 BY SizeAssumption, BoundAssumption
<1>2. guest' \in Guests BY <1>1, NoCells DEF Crash, NoCall, Guests, GuestPcs
<1> QED BY <1>2 DEF Typed, Crash, shared

LEMMA Typed_Destroy ==
  ASSUME Typed, Destroy
  PROVE  Typed'
BY DEF Typed, Destroy

-----------------------------------------------------------------------------
(***************************************************************************)
(* What the actions do to a call, field by field.                          *)
(***************************************************************************)
KeepsCall ==
  /\ guest'.size = guest.size /\ guest'.reply = guest.reply /\ guest'.sent = guest.sent
  /\ guest'.async = guest.async /\ guest'.slot = guest.slot /\ guest'.seq = guest.seq
  /\ guest'.got = guest.got

EndsSending ==
  /\ guest'.pc = IF guest.reply > 0 THEN "read" ELSE "idle"
  /\ guest'.size = 0 /\ guest'.sent = 0 /\ guest'.async = FALSE
  /\ guest'.reply = guest.reply /\ guest'.seq = (guest.seq + guest.size) % Numbers
  /\ guest'.got = <<>>

StartsCall(place, size, reply, async) ==
  /\ guest'.pc = place /\ guest'.size = size /\ guest'.reply = reply
  /\ guest'.async = async /\ guest'.got = <<>>
  /\ guest'.sent = guest.sent /\ guest'.slot = guest.slot /\ guest'.seq = guest.seq

KeepsRings == UNCHANGED <<buf, to_host, large, from>>

LEMMA GuestFields ==
  ASSUME guest \in Guests, NEW place
  PROVE  GuestAt(place) => guest'.pc = place /\ KeepsCall
BY DEF GuestAt, Guests, KeepsCall

LEMMA DoCall ==
  ASSUME Typed
  PROVE  /\ \A size \in Sends, reply \in Replies : allocBuffer(size, reply) =>
              /\ guest.pc = "idle" /\ size <= Step /\ KeepsRings /\ UNCHANGED host
              /\ StartsCall("alloc", size, reply, guest.async)
         /\ \A size \in Sends, reply \in Nat, async \in BOOLEAN : write(size, reply, async) =>
              /\ guest.pc = "idle" /\ KeepsRings /\ UNCHANGED host
              /\ StartsCall("large", size, reply, async)
         /\ Close =>
              /\ guest.pc = "idle" /\ KeepsRings /\ UNCHANGED host
              /\ StartsCall("close", guest.size, guest.reply, guest.async)
<1>1. guest \in Guests BY DEF Typed
<1>2. ASSUME NEW size \in Sends, NEW reply \in Replies, allocBuffer(size, reply)
      PROVE  /\ guest.pc = "idle" /\ size <= Step /\ KeepsRings /\ UNCHANGED host
             /\ StartsCall("alloc", size, reply, guest.async)
  BY <1>1, <1>2 DEF Guests, allocBuffer, StartsCall, KeepsRings, shared
<1>3. ASSUME NEW size \in Sends, NEW reply \in Nat, NEW async \in BOOLEAN,
             write(size, reply, async)
      PROVE  /\ guest.pc = "idle" /\ KeepsRings /\ UNCHANGED host
             /\ StartsCall("large", size, reply, async)
  BY <1>1, <1>3 DEF Guests, write, StartsCall, KeepsRings, shared
<1>4. ASSUME Close
      PROVE  /\ guest.pc = "idle" /\ KeepsRings /\ UNCHANGED host
             /\ StartsCall("close", guest.size, guest.reply, guest.async)
  BY <1>1, <1>4 DEF Guests, Close, StartsCall, KeepsRings, shared
<1> QED BY <1>2, <1>3, <1>4

LEMMA DoEnsureType3 ==
  ASSUME Typed, ensureType3Finished
  PROVE  /\ KeepsRings /\ UNCHANGED <<host, transfer_size>>
         /\ \/ /\ guest.pc \in {"alloc", "large", "finish", "read", "close"}
               /\ guest'.pc = guest.pc /\ KeepsCall /\ large.len # 0
            \/ /\ large.len = 0 /\ KeepsCall
               /\ <<guest.pc, guest'.pc>> \in {<<"alloc", "fill">>, <<"large", "large1">>,
                                               <<"read", "read1">>, <<"close", "close1">>}
            \/ /\ large.len = 0 /\ guest.pc = "finish"
               /\ EndsSending /\ guest'.slot = guest.slot
<1>1. KeepsRings /\ UNCHANGED <<host, transfer_size>> BY DEF ensureType3Finished, KeepsRings
<1>2. guest \in Guests /\ guest.pc \in {"alloc", "large", "finish", "read", "close"}
  BY DEF Typed, ensureType3Finished
<1>3. CASE large.len # 0
  <2>1. guest' = [guest EXCEPT !.looped = TRUE] BY <1>3 DEF ensureType3Finished
  <2> QED BY <1>1, <1>2, <1>3, <2>1 DEF Guests, KeepsCall
<1>4. CASE large.len = 0
  <2>1. guest' = [AfterType3 EXCEPT !.looped = FALSE] BY <1>4 DEF ensureType3Finished
  <2>2. CASE guest.pc = "finish"
    <3>1. Sent \in Guests BY <1>2, SentTyped
    <3>2. guest' = [Sent EXCEPT !.looped = FALSE] BY <2>1, <2>2 DEF AfterType3
    <3>3. EndsSending /\ guest'.slot = guest.slot
      BY <1>2, <3>1, <3>2 DEF Guests, Sent, NoCall, EndsSending
    <3> QED BY <1>1, <1>4, <2>2, <3>3
  <2>3. ASSUME NEW place, AfterType3 = [guest EXCEPT !.pc = place]
        PROVE  guest'.pc = place /\ KeepsCall
    BY <1>2, <2>1, <2>3 DEF Guests, KeepsCall
  <2>4. CASE guest.pc = "alloc"
    <3>1. AfterType3 = [guest EXCEPT !.pc = "fill"] BY <2>4 DEF AfterType3
    <3> QED BY <1>1, <1>4, <2>3, <2>4, <3>1
  <2>5. CASE guest.pc = "large"
    <3>1. AfterType3 = [guest EXCEPT !.pc = "large1"] BY <2>5 DEF AfterType3
    <3> QED BY <1>1, <1>4, <2>3, <2>5, <3>1
  <2>6. CASE guest.pc = "read"
    <3>1. AfterType3 = [guest EXCEPT !.pc = "read1"] BY <2>6 DEF AfterType3
    <3> QED BY <1>1, <1>4, <2>3, <2>6, <3>1
  <2>7. CASE guest.pc = "close"
    <3>1. AfterType3 = [guest EXCEPT !.pc = "close1"] BY <2>7 DEF AfterType3
    <3> QED BY <1>1, <1>4, <2>3, <2>7, <3>1
  <2> QED BY <1>2, <2>2, <2>4, <2>5, <2>6, <2>7
<1> QED BY <1>3, <1>4

LEMMA DoEnsureType1 ==
  ASSUME Typed, ensureType1Finished
  PROVE  /\ KeepsRings /\ KeepsCall /\ to_host = <<>> /\ UNCHANGED <<host, transfer_size>>
         /\ <<guest.pc, guest'.pc>> \in {<<"large1", "start">>, <<"read1", "take">>,
                                         <<"close1", "closed">>}
<1>1. guest' = [guest EXCEPT !.pc = AfterType1] BY DEF ensureType1Finished, GuestAt
<1>2. <<guest.pc, AfterType1>> \in {<<"large1", "start">>, <<"read1", "take">>,
                                    <<"close1", "closed">>}
  BY DEF ensureType1Finished, AfterType1
<1>3. guest \in Guests BY DEF Typed
<1>4. guest'.pc = AfterType1 /\ KeepsCall BY <1>1, <1>3 DEF Guests, KeepsCall
<1> QED BY <1>2, <1>4 DEF ensureType1Finished, KeepsRings, shared

LEMMA DoAfterType1Write ==
  ASSUME Typed, AfterType1Write
  PROVE  /\ guest.pc = "after1" /\ KeepsRings /\ EndsSending
         /\ guest'.slot = (guest.slot + Step) % Size /\ UNCHANGED <<host, transfer_size>>
<1>1. guest \in Guests /\ Sent \in Guests /\ Sent.slot = guest.slot BY SentTyped DEF Typed
<1>2. guest' = [Sent EXCEPT !.slot = (@ + Step) % Size] BY DEF AfterType1Write
<1>3. EndsSending BY <1>1, <1>2 DEF Guests, Sent, NoCall, EndsSending
<1>4. guest'.slot = (guest.slot + Step) % Size BY <1>1, <1>2 DEF Guests
<1> QED BY <1>3, <1>4 DEF AfterType1Write, KeepsRings, shared

LEMMA DoAfterLarge ==
  ASSUME Typed, AfterLarge
  PROVE  /\ guest.pc = "after3" /\ KeepsRings /\ UNCHANGED <<host, transfer_size>>
         /\ \/ guest.async /\ EndsSending /\ guest'.slot = guest.slot
            \/ ~guest.async /\ guest'.pc = "finish" /\ KeepsCall
<1>1. guest \in Guests /\ Sent \in Guests /\ Sent.slot = guest.slot BY SentTyped DEF Typed
<1>2. CASE guest.async
  <2>1. guest' = Sent BY <1>2 DEF AfterLarge
  <2>2. EndsSending BY <1>1, <2>1 DEF Guests, Sent, NoCall, EndsSending
  <2> QED BY <1>1, <1>2, <2>1, <2>2 DEF AfterLarge, KeepsRings
<1>3. CASE ~guest.async
  <2>1. guest'.pc = "finish" /\ KeepsCall BY <1>1, <1>3, GuestFields DEF AfterLarge
  <2> QED BY <1>3, <2>1 DEF AfterLarge, KeepsRings
<1> QED BY <1>2, <1>3

LEMMA DoPingType3 ==
  ASSUME Typed, PingType3
  PROVE  /\ guest.pc = "ping3" /\ KeepsRings /\ KeepsCall /\ UNCHANGED <<host, transfer_size>>
         /\ guest'.pc = IF guest.sent < guest.size THEN "chunk" ELSE "after3"
BY DEF Typed, PingType3, Guests, KeepsRings, KeepsCall, shared

(* Nothing stored leaves the buffer as it is.                              *)
LEMMA StoredNothing ==
  ASSUME NEW pos \in Int, buf \in [0 .. Size - 1 -> Cells], NEW cells, Len(cells) = 0
  PROVE  Stored(pos, cells) = buf
<1>1. ASSUME NEW c \in 0 .. Size - 1 PROVE ~((c - pos) % Size < Len(cells))
  <2>1. c - pos \in Int OBVIOUS
  <2>2. (c - pos) % Size \in 0 .. Size - 1 BY <2>1, ModRange, SizeAssumption
  <2> QED BY <2>2
<1> QED BY <1>1 DEF Stored

(* The cells of a chunk, none when they do not fit.                        *)
Chunked == guest'.sent - guest.sent

LEMMA DoChunk ==
  ASSUME Typed, GuestSizes, Chunk
  PROVE  /\ guest.pc = "chunk" /\ guest'.pc = "ping3" /\ Chunked \in Nat
         /\ guest'.sent <= guest.size /\ large.len + Chunked <= Size - 1
         /\ guest'.size = guest.size /\ guest'.reply = guest.reply
         /\ guest'.async = guest.async /\ guest'.slot = guest.slot
         /\ guest'.seq = guest.seq /\ guest'.got = guest.got
         /\ buf' = Stored(large.pos + large.len, Transfer(guest.sent, Chunked))
         /\ large'.pos = large.pos /\ large'.len = large.len + Chunked
         /\ UNCHANGED <<to_host, from, host, transfer_size>>
<1>0. \E k \in Nat :
        /\ guest.pc = "chunk" /\ k <= guest.size - guest.sent /\ large.len + k <= Size - 1
        /\ guest'.pc = "ping3" /\ guest'.sent = guest.sent + k
        /\ guest'.size = guest.size /\ guest'.reply = guest.reply
        /\ guest'.async = guest.async /\ guest'.slot = guest.slot
        /\ guest'.seq = guest.seq /\ guest'.got = guest.got
        /\ buf' = Stored(large.pos + large.len, Transfer(guest.sent, k))
        /\ large'.pos = large.pos /\ large'.len = large.len + k
        /\ UNCHANGED <<to_host, from, host, transfer_size>>
  <2> DEFINE k == Lesser(guest.size - guest.sent, chunkSize)
  <2>1. chunkSize \in Nat /\ guest.size - guest.sent \in Nat /\ guest.sent \in Nat
    BY ChunkSizeNat DEF Typed, Chunk, GuestSizes, Guests
  <2>2. k \in Nat /\ k <= guest.size - guest.sent BY <2>1, LesserNat
  <2>3. /\ guest.pc = "chunk" /\ UNCHANGED <<to_host, from, host, transfer_size>>
        /\ large \in Ring /\ guest \in Guests /\ buf \in [0 .. Size - 1 -> Cells]
    BY DEF Chunk, Typed
  <2>4. CASE k <= Room(large)
    <3>1. /\ buf' = Stored(large.pos + large.len, Transfer(guest.sent, k))
          /\ large' = Pushed(large, k)
          /\ guest' = [guest EXCEPT !.pc = "ping3", !.sent = @ + k]
      BY <2>4 DEF Chunk
    <3> HIDE DEF k
    <3>2. /\ guest'.pc = "ping3" /\ guest'.sent = guest.sent + k
          /\ guest'.size = guest.size /\ guest'.reply = guest.reply
          /\ guest'.async = guest.async /\ guest'.slot = guest.slot
          /\ guest'.seq = guest.seq /\ guest'.got = guest.got
      BY <2>3, <3>1 DEF Guests
    <3>3. large'.pos = large.pos /\ large'.len = large.len + k BY <2>3, <3>1 DEF Ring, Pushed
    <3>4. large.len + k <= Size - 1 BY <2>2, <2>3, <2>4, SizeAssumption DEF Room, Ring
    <3> QED BY <2>2, <2>3, <3>1, <3>2, <3>3, <3>4
  <2>5. CASE ~(k <= Room(large))
    <3>1. guest' = [guest EXCEPT !.pc = "ping3"] /\ UNCHANGED <<buf, large>>
      BY <2>5 DEF Chunk, GuestAt
    <3>2. /\ guest'.pc = "ping3" /\ guest'.sent = guest.sent + 0
          /\ guest'.size = guest.size /\ guest'.reply = guest.reply
          /\ guest'.async = guest.async /\ guest'.slot = guest.slot
          /\ guest'.seq = guest.seq /\ guest'.got = guest.got
      BY <2>3, <3>1 DEF Guests
    <3>3. buf' = Stored(large.pos + large.len, Transfer(guest.sent, 0))
      <4>1. Len(Transfer(guest.sent, 0)) = 0 BY <2>1, <2>3, TransferTyped
      <4> QED BY <2>3, <3>1, <4>1, StoredNothing DEF Ring
    <3>4. large.len + 0 <= Size - 1 /\ large'.len = large.len + 0 /\ large'.pos = large.pos
      BY <2>3, <3>1, SizeAssumption DEF Ring
    <3> QED BY <2>1, <2>3, <3>2, <3>3, <3>4
  <2> QED BY <2>4, <2>5
<1>1. PICK k \in Nat :
        /\ guest.pc = "chunk" /\ k <= guest.size - guest.sent /\ large.len + k <= Size - 1
        /\ guest'.pc = "ping3" /\ guest'.sent = guest.sent + k
        /\ guest'.size = guest.size /\ guest'.reply = guest.reply
        /\ guest'.async = guest.async /\ guest'.slot = guest.slot
        /\ guest'.seq = guest.seq /\ guest'.got = guest.got
        /\ buf' = Stored(large.pos + large.len, Transfer(guest.sent, k))
        /\ large'.pos = large.pos /\ large'.len = large.len + k
        /\ UNCHANGED <<to_host, from, host, transfer_size>>
  BY <1>0, Zenon
<1>2. guest.sent \in Nat /\ guest.size \in Nat BY DEF Typed, Guests
<1>3. k = Chunked BY <1>1, <1>2 DEF Chunked
<1>4. guest.sent + k <= guest.size BY <1>1, <1>2
<1> QED BY <1>1, <1>3, <1>4

LEMMA DoSpeculativeRead ==
  ASSUME Typed, speculativeRead
  PROVE  /\ guest.pc = "take" /\ from.len > 0
         /\ guest'.got = guest.got \o Loaded(from.pos, from.len)
         /\ \/ Len(guest'.got) < guest.reply /\ guest'.pc = "read" /\ guest'.reply = guest.reply
            \/ ~(Len(guest'.got) < guest.reply) /\ guest'.pc = "idle" /\ guest'.reply = 0
         /\ guest'.size = guest.size /\ guest'.sent = guest.sent
         /\ guest'.async = guest.async /\ guest'.slot = guest.slot /\ guest'.seq = guest.seq
         /\ from'.len = 0 /\ UNCHANGED <<buf, to_host, large, host, transfer_size>>
<1> DEFINE got == guest.got \o Loaded(from.pos, from.len)
<1>1. guest' = [guest EXCEPT !.got = got,
                             !.pc = IF Len(got) < guest.reply THEN "read" ELSE "idle",
                             !.reply = IF Len(got) < guest.reply THEN @ ELSE 0]
      /\ guest \in Guests
  BY DEF speculativeRead, Typed
<1> HIDE DEF got
<1>2. /\ guest'.got = got /\ guest'.size = guest.size /\ guest'.sent = guest.sent
      /\ guest'.async = guest.async /\ guest'.slot = guest.slot /\ guest'.seq = guest.seq
      /\ guest'.pc = IF Len(got) < guest.reply THEN "read" ELSE "idle"
      /\ guest'.reply = IF Len(got) < guest.reply THEN guest.reply ELSE 0
  BY <1>1 DEF Guests
<1>3. from'.len = 0 BY DEF Typed, Ring, speculativeRead, Popped
<1> QED BY <1>2, <1>3 DEF speculativeRead, got

LEMMA CutInTwo ==
  ASSUME NEW s \in Seq(Cells), NEW k \in Nat, k <= Len(s)
  PROVE  /\ SubSeq(s, 1, k) \o SubSeq(s, k + 1, Len(s)) = s
         /\ k > 0 => SubSeq(s, 1, k) # <<>>
<1> DEFINE a == SubSeq(s, 1, k)  b == SubSeq(s, k + 1, Len(s))  u == a \o b
<1>1. Len(s) \in Nat OBVIOUS
<1>2. a \in Seq(Cells) /\ Len(a) = k /\ b \in Seq(Cells) /\ Len(b) = Len(s) - k
  BY SubSeqTyped
<1>3. (\A i \in 1 .. k : a[i] = s[i]) /\ \A i \in 1 .. Len(s) - k : b[i] = s[k + i]
  OBVIOUS
<1> HIDE DEF a, b
<1>0. /\ u \in Seq(Cells) /\ Len(u) = Len(a) + Len(b)
      /\ \A i \in 1 .. Len(a) + Len(b) : u[i] = IF i <= Len(a) THEN a[i] ELSE b[i - Len(a)]
  BY <1>2, ConcatProperties
<1> HIDE DEF u
<1>4. u \in Seq(Cells) /\ Len(u) = Len(s) BY <1>0, <1>1, <1>2
<1>5. ASSUME NEW i \in 1 .. Len(s) PROVE u[i] = s[i]
  <2>1. CASE i <= k
    <3>1. u[i] = a[i] BY <1>0, <1>1, <1>2, <2>1
    <3> QED BY <1>3, <2>1, <3>1
  <2>2. CASE i > k
    <3>1. i - k \in 1 .. Len(s) - k /\ u[i] = b[i - k] BY <1>0, <1>1, <1>2, <2>2
    <3>2. k + (i - k) = i OBVIOUS
    <3> QED BY <1>3, <3>1, <3>2
  <2> QED BY <1>1, <2>1, <2>2
<1>6. u = s BY <1>4, <1>5, SeqEqual
<1>7. k > 0 => a # <<>> BY <1>2
<1> QED BY <1>6, <1>7 DEF u, a, b

KeepsData ==
  /\ host'.data = host.data /\ host'.rest = host.rest /\ host'.expect = host.expect
  /\ host'.reply = host.reply /\ host'.sent = host.sent

LEMMA DoTopOfLoop ==
  ASSUME Typed, HostData, TopOfLoop
  PROVE  /\ host.pc = "top" /\ KeepsRings /\ UNCHANGED <<guest, transfer_size>>
         /\ host'.expect = host.expect /\ host'.avail = host.avail /\ host'.want = host.want
         /\ \/ /\ host'.pc = "back" /\ host'.data # <<>>
               /\ host'.data \o host'.rest = host.rest
            \/ /\ host'.pc \in {"left", "small"} /\ host.rest = <<>> /\ KeepsData
<1> DEFINE k == Lesser(host.want, Len(host.rest))
<1>1. /\ host \in Hosts /\ host.want \in Nat /\ host.want > 0 /\ Len(host.rest) \in Nat
      /\ host.rest \in Seq(Cells) /\ host.pc = "top" /\ host.data = <<>>
  BY DEF Typed, Hosts, TopOfLoop, HostData
<1>2. k \in Nat /\ k <= Len(host.rest) /\ (Len(host.rest) > 0 => k > 0) BY <1>1, LesserNat
<1>3. KeepsRings /\ UNCHANGED <<guest, transfer_size>> BY DEF TopOfLoop, KeepsRings
<1>4. CASE k > 0
  <2>1. host' = [host EXCEPT !.pc = "back", !.data = SubSeq(host.rest, 1, k),
                             !.rest = SubSeq(@, k + 1, Len(@))]
    BY <1>4 DEF TopOfLoop
  <2> HIDE DEF k
  <2>2. /\ host'.pc = "back" /\ host'.data = SubSeq(host.rest, 1, k)
        /\ host'.rest = SubSeq(host.rest, k + 1, Len(host.rest))
        /\ host'.expect = host.expect /\ host'.avail = host.avail /\ host'.want = host.want
    BY <1>1, <2>1 DEF Hosts
  <2>3. host'.data \o host'.rest = host.rest /\ host'.data # <<>>
    BY <1>1, <1>2, <1>4, <2>2, CutInTwo
  <2> QED BY <1>1, <1>3, <2>2, <2>3
<1>5. CASE ~(k > 0)
  <2>1. host' = [host EXCEPT !.pc = IF host.exit THEN "left" ELSE "small"]
    BY <1>5 DEF TopOfLoop, HostAt
  <2>2. /\ host'.pc \in {"left", "small"} /\ KeepsData
        /\ host'.expect = host.expect /\ host'.avail = host.avail /\ host'.want = host.want
    BY <1>1, <2>1 DEF Hosts, KeepsData
  <2>3. host.rest = <<>>
    <3>1. Len(host.rest) = 0 BY <1>1, <1>2, <1>5
    <3> QED BY <1>1, <3>1, EmptySeq
  <2> QED BY <1>1, <1>3, <2>2, <2>3
<1> QED BY <1>4, <1>5

LEMMA DoType1Read ==
  ASSUME Typed, HostData, type1Read
  PROVE  /\ host.pc = "type1" /\ host'.pc = "done1" /\ UNCHANGED <<shared, guest>>
         /\ host'.data # <<>> /\ Head(to_host) \in Slot
         /\ host'.data \o host'.rest = Loaded(Head(to_host).offset, Head(to_host).size)
         /\ host'.expect = host.expect /\ host'.avail = host.avail
<1> DEFINE cells == Loaded(Head(to_host).offset, Head(to_host).size)
           k == Lesser(host.want, Len(cells))
<1>1. Head(to_host) \in Slot /\ to_host # <<>>
  BY HeadTailProperties DEF Typed, HostData, type1Read
<1>2. /\ Head(to_host).offset \in Int /\ Head(to_host).size \in Nat
      /\ Head(to_host).size > 0
  BY <1>1, SizeAssumption DEF Slot
<1>3. cells \in Seq(Cells) /\ Len(cells) \in Nat /\ Len(cells) > 0
  BY <1>2, LoadedTyped DEF Typed
<1>4. host \in Hosts /\ host.want \in Nat /\ host.want > 0
  BY DEF Typed, Hosts, HostData, Looking, type1Read
<1>5. host' = [host EXCEPT !.pc = "done1", !.data = SubSeq(cells, 1, k),
                           !.rest = SubSeq(cells, k + 1, Len(cells))]
  BY DEF type1Read
<1> HIDE DEF cells
<1>6. k \in Nat /\ k <= Len(cells) /\ k > 0 BY <1>3, <1>4, LesserNat
<1> HIDE DEF k
<1>7. /\ host'.pc = "done1" /\ host'.data = SubSeq(cells, 1, k)
      /\ host'.rest = SubSeq(cells, k + 1, Len(cells))
      /\ host'.expect = host.expect /\ host'.avail = host.avail
  BY <1>4, <1>5 DEF Hosts
<1>8. host'.data \o host'.rest = cells /\ host'.data # <<>> BY <1>3, <1>6, <1>7, CutInTwo
<1> QED BY <1>1, <1>7, <1>8 DEF type1Read, cells

LEMMA DoType3Read ==
  ASSUME Typed, HostData, type3Read
  PROVE  /\ host.pc = "type3" /\ host'.pc = "copy3" /\ KeepsData /\ host'.want = host.want
         /\ host'.avail \in Nat /\ host'.avail <= host.avail
         /\ transfer_size' = transfer_size - host'.avail
         /\ KeepsRings /\ UNCHANGED guest
<1> DEFINE l == Lesser(host.avail, transfer_size)
           k == Lesser(l, host.want)
<1>1. host \in Hosts /\ host.avail \in Nat /\ host.want \in Nat /\ transfer_size \in Nat
  BY DEF Typed, Hosts
<1>2. l \in Nat /\ l <= host.avail BY <1>1, LesserNat
<1>3. host' = [host EXCEPT !.pc = "copy3", !.avail = k] /\ transfer_size' = transfer_size - k
  BY DEF type3Read
<1> HIDE DEF l
<1>4. k \in Nat /\ k <= l BY <1>1, <1>2, LesserNat
<1> HIDE DEF k
<1>5. host'.avail = k /\ host'.pc = "copy3" /\ KeepsData /\ host'.want = host.want
  BY <1>1, <1>3 DEF Hosts, KeepsData
<1> QED BY <1>1, <1>2, <1>3, <1>4, <1>5 DEF type3Read, KeepsRings

LEMMA DoCopyType3 ==
  ASSUME Typed, HostData, CopyType3
  PROVE  /\ host.pc = "copy3" /\ host'.pc = "done3" /\ UNCHANGED <<shared, guest>>
         /\ host'.data = Loaded(large.pos, host.avail) /\ Len(host'.data) = host.avail
         /\ host'.rest = host.rest /\ host'.expect = host.expect
         /\ host'.avail = host.avail /\ host'.want = host.want
<1>1. large.pos \in Int /\ host.avail \in Nat BY DEF Typed, Ring, Hosts
<1>2. Len(Loaded(large.pos, host.avail)) = host.avail BY <1>1, LoadedTyped DEF Typed
<1> QED BY <1>2 DEF Typed, CopyType3, Hosts

LEMMA DoAdvanceType3 ==
  ASSUME Typed, HostData, AdvanceType3
  PROVE  /\ host.pc = "done3" /\ KeepsData /\ host'.avail = 0 /\ host'.want = host.want
         /\ host'.pc = IF host.avail = 0 THEN "top" ELSE "back"
         /\ host.avail \in Nat /\ host.avail <= large.len
         /\ large'.pos = (large.pos + host.avail) % Size
         /\ large'.len = large.len - host.avail
         /\ UNCHANGED <<buf, to_host, from, guest, transfer_size>>
BY DEF Typed, Ring, Hosts, HostData, AdvanceType3, Popped, KeepsData

LEMMA DoType1Write ==
  ASSUME Typed, GuestSizes, type1Write
  PROVE  /\ guest.pc = "slot" /\ guest'.pc = "ping1" /\ KeepsCall
         /\ Len(to_host) < maxOutstanding /\ to_host' \in Seq(Slot)
         /\ to_host' = Append(to_host, [offset |-> guest.slot, size |-> guest.size])
         /\ Len(to_host') = Len(to_host) + 1 /\ to_host' # <<>>
         /\ UNCHANGED <<buf, large, from, host, transfer_size>>
<1>1. guest \in Guests /\ to_host \in Seq(Slot) /\ guest.size \in 1 .. Step
  BY DEF Typed, GuestSizes, type1Write
<1>2. guest.slot \in 0 .. Size - 1 BY <1>1 DEF Guests
<1>3. [offset |-> guest.slot, size |-> guest.size] \in Slot BY <1>1, <1>2 DEF Slot
<1>4. /\ to_host' \in Seq(Slot) /\ Len(to_host') = Len(to_host) + 1 /\ to_host' # <<>>
  BY <1>1, <1>3, AppendProperties DEF type1Write
<1>5. guest'.pc = "ping1" /\ KeepsCall BY <1>1, GuestFields DEF type1Write
<1> QED BY <1>4, <1>5 DEF type1Write

LEMMA TypedStep ==
  ASSUME Typed, GuestSizes, HostData, [Next]_vars
  PROVE  Typed'
<1>1. CASE Close BY <1>1, Typed_Close
<1>2. CASE ensureType3Finished BY <1>2, Typed_ensureType3Finished
<1>3. CASE ensureType1Finished BY <1>3, Typed_ensureType1Finished
<1>4. CASE Fill BY <1>4, Typed_Fill
<1>5. CASE type1Write BY <1>5, Typed_type1Write
<1>6. CASE PingType1 BY <1>6, Typed_PingType1
<1>7. CASE AfterType1Write BY <1>7, Typed_AfterType1Write
<1>8. CASE StartLarge BY <1>8, Typed_StartLarge
<1>9. CASE Chunk BY <1>9, Typed_Chunk
<1>10. CASE PingType3 BY <1>10, Typed_PingType3
<1>11. CASE AfterLarge BY <1>11, Typed_AfterLarge
<1>12. CASE speculativeRead BY <1>12, Typed_speculativeRead
<1>13. CASE TopOfLoop BY <1>13, Typed_TopOfLoop
<1>14. CASE CheckSmall BY <1>14, Typed_CheckSmall
<1>15. CASE CheckLarge BY <1>15, Typed_CheckLarge
<1>16. CASE type1Read BY <1>16, Typed_type1Read
<1>17. CASE AdvanceType1 BY <1>17, Typed_AdvanceType1
<1>18. CASE type3Read BY <1>18, Typed_type3Read
<1>19. CASE CopyType3 BY <1>19, Typed_CopyType3
<1>20. CASE AdvanceType3 BY <1>20, Typed_AdvanceType3
<1>21. CASE FoundNothing BY <1>21, Typed_FoundNothing
<1>22. CASE Spin BY <1>22, Typed_Spin
<1>23. CASE Sleep BY <1>23, Typed_Sleep
<1>24. CASE Wake BY <1>24, Typed_Wake
<1>25. CASE WakeToExit BY <1>25, Typed_WakeToExit
<1>26. CASE Return BY <1>26, Typed_Return
<1>27. CASE Decode BY <1>27, Typed_Decode
<1>28. CASE commitBuffer BY <1>28, Typed_commitBuffer
<1>29. CASE GiveUpReply BY <1>29, Typed_GiveUpReply
<1>30. CASE Crash BY <1>30, Typed_Crash
<1>31. CASE Destroy BY <1>31, Typed_Destroy
<1>32. ASSUME NEW size \in Sends, NEW reply \in Replies, allocBuffer(size, reply)
      PROVE  Typed'
  BY <1>32, Typed_allocBuffer
<1>33. ASSUME NEW size \in Sends, NEW reply \in Nat, NEW async \in BOOLEAN,
             write(size, reply, async)
      PROVE  Typed'
  BY <1>33, Typed_write
<1>34. ASSUME NEW want \in Wants, readRaw(want)
      PROVE  Typed'
  BY <1>34, Typed_readRaw
<1>35. CASE UNCHANGED vars BY <1>35 DEF vars, shared, Typed
<1>36. Replies \subseteq Nat BY CallAssumption
<1> QED
  BY <1>1, <1>2, <1>3, <1>4, <1>5, <1>6, <1>7, <1>8, <1>9, <1>10,
     <1>11, <1>12, <1>13, <1>14, <1>15, <1>16, <1>17, <1>18, <1>19,
     <1>20, <1>21, <1>22, <1>23, <1>24, <1>25, <1>26, <1>27, <1>28,
     <1>29, <1>30, <1>31, <1>32, <1>33, <1>34, <1>35, <1>36
  DEF Next, GuestStep, HostStep, writeFully, writeFullyAsync

LEMMA SizesStep ==
  ASSUME Typed, GuestSizes, [Next]_vars
  PROVE  GuestSizes'
<1>1. CASE Close
  BY <1>1, DoCall DEF GuestSizes, StartsCall, Pushing
<1>2. CASE ensureType3Finished
  BY <1>2, DoEnsureType3 DEF GuestSizes, KeepsCall, EndsSending, Pushing
<1>3. CASE ensureType1Finished
  BY <1>3, DoEnsureType1 DEF GuestSizes, KeepsCall, Pushing
<1>4. CASE Fill
  BY <1>4 DEF Typed, GuestSizes, Fill, GuestAt, Guests, NoCall, Pushing
<1>5. CASE type1Write
  BY <1>5 DEF Typed, GuestSizes, type1Write, GuestAt, Guests, NoCall, Pushing
<1>6. CASE PingType1
  BY <1>6 DEF Typed, GuestSizes, PingType1, GuestAt, Guests, NoCall, Pushing
<1>7. CASE AfterType1Write
  BY <1>7, DoAfterType1Write DEF GuestSizes, EndsSending, Pushing
<1>8. CASE StartLarge
  BY <1>8 DEF Typed, GuestSizes, StartLarge, GuestAt, Guests, NoCall, Pushing
<1>9. CASE Chunk
  BY <1>9, DoChunk DEF GuestSizes, Pushing, Typed, Guests
<1>10. CASE PingType3
  BY <1>10, DoPingType3 DEF GuestSizes, KeepsCall, Pushing, Typed, Guests
<1>11. CASE AfterLarge
  BY <1>11, DoAfterLarge DEF GuestSizes, KeepsCall, EndsSending, Pushing
<1>12. CASE speculativeRead
  BY <1>12, DoSpeculativeRead DEF GuestSizes, Pushing
<1>13. CASE TopOfLoop BY <1>13 DEF GuestSizes, TopOfLoop, shared
<1>14. CASE CheckSmall BY <1>14 DEF GuestSizes, CheckSmall, shared
<1>15. CASE CheckLarge BY <1>15 DEF GuestSizes, CheckLarge, shared
<1>16. CASE type1Read BY <1>16 DEF GuestSizes, type1Read, shared
<1>17. CASE AdvanceType1 BY <1>17 DEF GuestSizes, AdvanceType1, shared
<1>18. CASE type3Read BY <1>18 DEF GuestSizes, type3Read, shared
<1>19. CASE CopyType3 BY <1>19 DEF GuestSizes, CopyType3, shared
<1>20. CASE AdvanceType3 BY <1>20 DEF GuestSizes, AdvanceType3, shared
<1>21. CASE FoundNothing BY <1>21 DEF GuestSizes, FoundNothing, shared
<1>22. CASE Spin BY <1>22 DEF GuestSizes, Spin, shared
<1>23. CASE Sleep BY <1>23 DEF GuestSizes, Sleep, shared
<1>24. CASE Wake BY <1>24 DEF GuestSizes, Wake, shared
<1>25. CASE WakeToExit BY <1>25 DEF GuestSizes, WakeToExit, shared
<1>26. CASE Return BY <1>26 DEF GuestSizes, Return, shared
<1>27. CASE Decode BY <1>27 DEF GuestSizes, Decode, shared
<1>28. CASE commitBuffer BY <1>28 DEF GuestSizes, commitBuffer, shared
<1>29. CASE GiveUpReply BY <1>29 DEF GuestSizes, GiveUpReply, shared
<1>30. CASE Crash
  BY <1>30 DEF Typed, GuestSizes, Crash, GuestAt, Guests, NoCall, Pushing
<1>31. CASE Destroy BY <1>31 DEF GuestSizes, Destroy, shared
<1>32. ASSUME NEW size \in Sends, NEW reply \in Replies, allocBuffer(size, reply)
      PROVE  GuestSizes'
  BY <1>32, DoCall, CallAssumption DEF GuestSizes, StartsCall, Pushing
<1>33. ASSUME NEW size \in Sends, NEW reply \in Nat, NEW async \in BOOLEAN,
             write(size, reply, async)
      PROVE  GuestSizes'
  BY <1>33, DoCall, CallAssumption DEF GuestSizes, StartsCall, Pushing
<1>34. ASSUME NEW want \in Wants, readRaw(want)
      PROVE  GuestSizes'
  BY <1>34 DEF GuestSizes, readRaw, shared
<1>35. CASE UNCHANGED vars BY <1>35 DEF vars, shared, GuestSizes
<1>36. Replies \subseteq Nat BY CallAssumption
<1> QED
  BY <1>1, <1>2, <1>3, <1>4, <1>5, <1>6, <1>7, <1>8, <1>9, <1>10,
     <1>11, <1>12, <1>13, <1>14, <1>15, <1>16, <1>17, <1>18, <1>19,
     <1>20, <1>21, <1>22, <1>23, <1>24, <1>25, <1>26, <1>27, <1>28,
     <1>29, <1>30, <1>31, <1>32, <1>33, <1>34, <1>35, <1>36
  DEF Next, GuestStep, HostStep, writeFully, writeFullyAsync

LEMMA DrainedStep ==
  ASSUME Typed, GuestSizes, Drained, HostData, [Next]_vars
  PROVE  Drained'
<1>1. CASE Close
  BY <1>1, DoCall DEF Drained, StartsCall, Pushing
<1>2. CASE ensureType3Finished
  BY <1>2, DoEnsureType3 DEF Drained, KeepsRings, EndsSending, Pushing
<1>3. CASE ensureType1Finished
  BY <1>3, DoEnsureType1 DEF Drained, KeepsRings, Pushing
<1>4. CASE Fill
  BY <1>4 DEF Typed, Drained, Fill, GuestAt, Guests, Pushing, shared, HostData
<1>5. CASE type1Write
  BY <1>5 DEF Typed, Drained, type1Write, GuestAt, Guests, Pushing, shared, HostData
<1>6. CASE PingType1
  BY <1>6 DEF Typed, Drained, PingType1, GuestAt, Guests, Pushing, shared, HostData
<1>7. CASE AfterType1Write
  BY <1>7, DoAfterType1Write DEF Drained, KeepsRings, EndsSending, Pushing
<1>8. CASE StartLarge
  BY <1>8 DEF Typed, Drained, StartLarge, GuestAt, Guests, Pushing, shared, HostData
<1>9. CASE Chunk
  BY <1>9, DoChunk DEF Drained, Pushing
<1>10. CASE PingType3
  BY <1>10, DoPingType3 DEF Drained, KeepsRings, Pushing
<1>11. CASE AfterLarge
  BY <1>11, DoAfterLarge DEF Drained, KeepsRings, EndsSending, Pushing
<1>12. CASE speculativeRead
  BY <1>12, DoSpeculativeRead DEF Drained, Pushing
<1>13. CASE TopOfLoop BY <1>13 DEF Drained, TopOfLoop, shared
<1>14. CASE CheckSmall BY <1>14 DEF Drained, CheckSmall, shared
<1>15. CASE CheckLarge BY <1>15 DEF Drained, CheckLarge, shared
<1>16. CASE type1Read BY <1>16 DEF Drained, type1Read, shared
<1>17. CASE AdvanceType1
  BY <1>17 DEF Typed, Drained, AdvanceType1, GuestAt, Guests, Pushing, shared, HostData
<1>18. CASE type3Read BY <1>18 DEF Drained, type3Read, shared
<1>19. CASE CopyType3 BY <1>19 DEF Drained, CopyType3, shared
<1>20. CASE AdvanceType3
  BY <1>20, DoAdvanceType3 DEF Drained, Typed, Ring
<1>21. CASE FoundNothing BY <1>21 DEF Drained, FoundNothing, shared
<1>22. CASE Spin BY <1>22 DEF Drained, Spin, shared
<1>23. CASE Sleep BY <1>23 DEF Drained, Sleep, shared
<1>24. CASE Wake BY <1>24 DEF Drained, Wake, shared
<1>25. CASE WakeToExit BY <1>25 DEF Drained, WakeToExit, shared
<1>26. CASE Return BY <1>26 DEF Drained, Return, shared
<1>27. CASE Decode BY <1>27 DEF Drained, Decode, shared
<1>28. CASE commitBuffer BY <1>28 DEF Drained, commitBuffer, shared
<1>29. CASE GiveUpReply BY <1>29 DEF Drained, GiveUpReply, shared
<1>30. CASE Crash
  BY <1>30 DEF Crash, NoCall, Drained, Pushing
<1>31. CASE Destroy BY <1>31 DEF Drained, Destroy, shared
<1>32. ASSUME NEW size \in Sends, NEW reply \in Replies, allocBuffer(size, reply)
      PROVE  Drained'
  BY <1>32, DoCall DEF Drained, StartsCall, Pushing
<1>33. ASSUME NEW size \in Sends, NEW reply \in Nat, NEW async \in BOOLEAN,
             write(size, reply, async)
      PROVE  Drained'
  BY <1>33, DoCall DEF Drained, StartsCall, Pushing
<1>34. ASSUME NEW want \in Wants, readRaw(want)
      PROVE  Drained'
  BY <1>34 DEF Drained, readRaw, shared
<1>35. CASE UNCHANGED vars BY <1>35 DEF vars, shared, Drained
<1>36. Replies \subseteq Nat BY CallAssumption
<1> QED
  BY <1>1, <1>2, <1>3, <1>4, <1>5, <1>6, <1>7, <1>8, <1>9, <1>10,
     <1>11, <1>12, <1>13, <1>14, <1>15, <1>16, <1>17, <1>18, <1>19,
     <1>20, <1>21, <1>22, <1>23, <1>24, <1>25, <1>26, <1>27, <1>28,
     <1>29, <1>30, <1>31, <1>32, <1>33, <1>34, <1>35, <1>36
  DEF Next, GuestStep, HostStep, writeFully, writeFullyAsync

LEMMA HostDataChunk ==
  ASSUME Typed, GuestSizes, HostData, Chunk
  PROVE  HostData'
<1>1. large.len \in Nat /\ host.avail \in Nat BY DEF Typed, Ring, Hosts
<1>2. Chunked \in Nat /\ large'.len = large.len + Chunked /\ UNCHANGED <<to_host, host>>
  BY DoChunk
<1>3. host.avail <= large.len => host.avail <= large'.len BY <1>1, <1>2
<1> QED BY <1>2, <1>3 DEF HostData

LEMMA HostDataCheckLarge ==
  ASSUME Typed, HostData, CheckLarge
  PROVE  HostData'
<1>1. /\ host'.pc \in {"type3", "none"} /\ host'.avail = large.len /\ host.pc = "large"
      /\ host'.data = host.data /\ host'.rest = host.rest /\ host'.want = host.want
      /\ UNCHANGED <<to_host, large>> /\ large.len \in Nat
  BY DEF Typed, Ring, Hosts, CheckLarge, shared
<1>2. host'.avail <= large'.len BY <1>1
<1> QED BY <1>1, <1>2 DEF HostData, Looking

LEMMA HostDataType3Read ==
  ASSUME Typed, HostData, type3Read
  PROVE  HostData'
<1>1. large.len \in Nat /\ host.avail \in Nat /\ host.avail <= large.len /\ host.pc = "type3"
  BY DEF Typed, Ring, Hosts, HostData, type3Read
<1>2. /\ host'.pc = "copy3" /\ KeepsData /\ host'.want = host.want /\ host'.avail \in Nat
      /\ host'.avail <= host.avail /\ KeepsRings
  BY DoType3Read
<1>3. host'.avail <= large'.len BY <1>1, <1>2 DEF KeepsRings
<1> QED BY <1>1, <1>2, <1>3 DEF HostData, Looking, KeepsData

LEMMA HostDataAdvanceType3 ==
  ASSUME Typed, HostData, AdvanceType3
  PROVE  HostData'
<1>1. /\ host.pc = "done3" /\ KeepsData /\ host'.want = host.want
      /\ host'.pc = IF host.avail = 0 THEN "top" ELSE "back"
  BY DoAdvanceType3
<1>2. host.data \in Seq(Cells) /\ Len(host.data) = host.avail /\ host.avail \in Nat
  BY <1>1 DEF Typed, Hosts, HostData
<1>3. host.avail = 0 <=> host.data = <<>> BY <1>2, EmptySeq
<1>4. host.want > 0 BY <1>1 DEF HostData
<1> QED BY <1>1, <1>3, <1>4 DEF HostData, Looking, KeepsData

LEMMA HostDataStep ==
  ASSUME Typed, GuestSizes, HostData, [Next]_vars
  PROVE  HostData'
<1>1. CASE Close BY <1>1 DEF HostData, Close, shared
<1>2. CASE ensureType3Finished BY <1>2 DEF HostData, ensureType3Finished, shared
<1>3. CASE ensureType1Finished BY <1>3 DEF HostData, ensureType1Finished, shared
<1>4. CASE Fill BY <1>4 DEF HostData, Fill, shared
<1>5. CASE type1Write
  BY <1>5, DoType1Write DEF HostData
<1>6. CASE PingType1 BY <1>6 DEF HostData, PingType1, shared
<1>7. CASE AfterType1Write BY <1>7 DEF HostData, AfterType1Write, shared
<1>8. CASE StartLarge BY <1>8 DEF HostData, StartLarge, shared
<1>9. CASE Chunk
  BY <1>9, HostDataChunk
<1>10. CASE PingType3 BY <1>10 DEF HostData, PingType3, shared
<1>11. CASE AfterLarge BY <1>11 DEF HostData, AfterLarge, shared
<1>12. CASE speculativeRead BY <1>12 DEF HostData, speculativeRead, shared
<1>13. CASE TopOfLoop
  BY <1>13, DoTopOfLoop DEF HostData, Looking, KeepsData, KeepsRings
<1>14. CASE CheckSmall
  BY <1>14 DEF Typed, HostData, CheckSmall, HostAt, Hosts, Looking, shared
<1>15. CASE CheckLarge
  BY <1>15, HostDataCheckLarge
<1>16. CASE type1Read
  BY <1>16, DoType1Read DEF HostData, Looking, shared
<1>17. CASE AdvanceType1
  BY <1>17 DEF Typed, HostData, AdvanceType1, HostAt, Hosts, Looking, shared
<1>18. CASE type3Read
  BY <1>18, HostDataType3Read
<1>19. CASE CopyType3
  BY <1>19, DoCopyType3 DEF HostData, Looking, shared
<1>20. CASE AdvanceType3
  BY <1>20, HostDataAdvanceType3
<1>21. CASE FoundNothing
  BY <1>21 DEF Typed, HostData, FoundNothing, HostAt, Hosts, Looking, shared
<1>22. CASE Spin
  BY <1>22 DEF Typed, HostData, Spin, HostAt, Hosts, Looking, shared
<1>23. CASE Sleep
  BY <1>23 DEF Typed, HostData, Sleep, HostAt, Hosts, Looking, shared
<1>24. CASE Wake
  BY <1>24 DEF Typed, HostData, Wake, HostAt, Hosts, Looking, shared
<1>25. CASE WakeToExit
  BY <1>25 DEF Typed, HostData, WakeToExit, HostAt, Hosts, Looking, shared
<1>26. CASE Return
  BY <1>26 DEF Typed, HostData, Return, HostAt, Hosts, Looking, shared
<1>27. CASE Decode
  BY <1>27 DEF Typed, HostData, Decode, HostAt, Hosts, Looking, shared
<1>28. CASE commitBuffer
  BY <1>28 DEF Typed, HostData, commitBuffer, HostAt, Hosts, Looking, shared
<1>29. CASE GiveUpReply
  BY <1>29 DEF Typed, HostData, GiveUpReply, HostAt, Hosts, Looking, shared
<1>30. CASE Crash BY <1>30 DEF HostData, Crash, shared
<1>31. CASE Destroy BY <1>31 DEF HostData, Destroy, shared
<1>32. ASSUME NEW size \in Sends, NEW reply \in Replies, allocBuffer(size, reply)
      PROVE  HostData'
  BY <1>32 DEF HostData, allocBuffer, shared
<1>33. ASSUME NEW size \in Sends, NEW reply \in Nat, NEW async \in BOOLEAN,
             write(size, reply, async)
      PROVE  HostData'
  BY <1>33 DEF HostData, write, shared
<1>34. ASSUME NEW want \in Wants, readRaw(want)
      PROVE  HostData'
  BY <1>34, CallAssumption DEF Typed, HostData, readRaw, Hosts, Looking
<1>35. CASE UNCHANGED vars BY <1>35 DEF vars, shared, HostData
<1>36. Replies \subseteq Nat BY CallAssumption
<1> QED
  BY <1>1, <1>2, <1>3, <1>4, <1>5, <1>6, <1>7, <1>8, <1>9, <1>10,
     <1>11, <1>12, <1>13, <1>14, <1>15, <1>16, <1>17, <1>18, <1>19,
     <1>20, <1>21, <1>22, <1>23, <1>24, <1>25, <1>26, <1>27, <1>28,
     <1>29, <1>30, <1>31, <1>32, <1>33, <1>34, <1>35, <1>36
  DEF Next, GuestStep, HostStep, writeFully, writeFullyAsync

Unsent == IF guest.pc \in {"chunk", "ping3"} THEN guest.size - guest.sent ELSE 0
Taking == IF host.pc \in {"copy3", "done3"} THEN host.avail ELSE 0

LEMMA ExactMeans ==
  TransferSizeExact <=> (guest.pc # "crashed" => transfer_size = Unsent + large.len - Taking)
BY DEF TransferSizeExact, Unsent, Taking

LEMMA ExactMeansNext ==
  TransferSizeExact'
    <=> (guest'.pc # "crashed" => transfer_size' = Unsent' + large'.len - Taking')
BY DEF TransferSizeExact, Unsent, Taking

LEMMA SizesNat ==
  ASSUME Typed, GuestSizes
  PROVE  /\ large.len \in Nat /\ Unsent \in Nat /\ Taking \in Nat /\ host.avail \in Nat
         /\ guest.size \in Nat /\ guest.sent \in Nat
<1>1. /\ large.len \in Nat /\ host.avail \in Nat /\ guest.size \in Nat /\ guest.sent \in Nat
  BY DEF Typed, Ring, Hosts, Guests
<1>2. guest.pc \in {"chunk", "ping3"} => guest.sent <= guest.size BY <1>1 DEF GuestSizes
<1>3. Unsent \in Nat BY <1>1, <1>2 DEF Unsent
<1>4. Taking \in Nat BY <1>1 DEF Taking
<1> QED BY <1>1, <1>3, <1>4

LEMMA ExactStartLarge ==
  ASSUME Basics, StartLarge
  PROVE  TransferSizeExact'
<1>1. /\ guest.pc = "start" /\ guest'.pc = "chunk" /\ KeepsCall
      /\ transfer_size' = guest.size /\ UNCHANGED <<large, host>>
  BY GuestFields DEF StartLarge, Basics, Typed
<1>2. large.len = 0 /\ guest.sent = 0 BY <1>1 DEF Basics, Drained, GuestSizes, Pushing
<1>3. Taking = 0
  BY <1>2, SizesNat DEF Basics, HostData, Taking
<1>4. Unsent' = guest.size /\ Taking' = 0 /\ guest.size \in Nat
  BY <1>1, <1>2, <1>3, SizesNat DEF Basics, Unsent, Taking, KeepsCall
<1> QED BY <1>1, <1>2, <1>4, ExactMeansNext

LEMMA ExactChunk ==
  ASSUME Basics, Chunk
  PROVE  TransferSizeExact'
<1>1. /\ guest.pc = "chunk" /\ guest'.pc = "ping3" /\ Chunked \in Nat
      /\ guest'.size = guest.size /\ guest'.sent <= guest.size
      /\ large'.len = large.len + Chunked /\ UNCHANGED <<host, transfer_size>>
  BY DoChunk DEF Basics
<1>2. Unsent = guest.size - guest.sent /\ Unsent' = guest.size - guest'.sent /\ Taking' = Taking
  BY <1>1 DEF Unsent, Taking
<1>3. transfer_size = Unsent + large.len - Taking BY <1>1, ExactMeans DEF Basics
<1>4. guest'.sent = guest.sent + Chunked
  <2>1. guest'.sent \in Nat /\ guest.sent \in Nat
    BY TypedStep DEF Next, GuestStep, Basics, Typed, Guests
  <2> QED BY <2>1 DEF Chunked
<1>5. transfer_size' = Unsent' + large'.len - Taking'
  BY <1>1, <1>2, <1>3, <1>4, SizesNat DEF Basics
<1> QED BY <1>5, ExactMeansNext

LEMMA ExactType3Read ==
  ASSUME Basics, type3Read
  PROVE  TransferSizeExact'
<1>1. /\ host.pc = "type3" /\ host'.pc = "copy3" /\ host'.avail \in Nat
      /\ transfer_size' = transfer_size - host'.avail /\ UNCHANGED <<guest, large>>
  BY DoType3Read DEF Basics, KeepsRings
<1>2. Taking = 0 /\ Taking' = host'.avail /\ Unsent' = Unsent BY <1>1 DEF Taking, Unsent
<1>3. guest.pc # "crashed" => transfer_size = Unsent + large.len - Taking
  BY ExactMeans DEF Basics
<1>4. guest.pc # "crashed" => transfer_size' = Unsent' + large'.len - Taking'
  BY <1>1, <1>2, <1>3, SizesNat DEF Basics
<1> QED BY <1>1, <1>4, ExactMeansNext

LEMMA ExactAdvanceType3 ==
  ASSUME Basics, AdvanceType3
  PROVE  TransferSizeExact'
<1>1. /\ host.pc = "done3" /\ host'.pc \in {"top", "back"} /\ host.avail \in Nat
      /\ large'.len = large.len - host.avail /\ UNCHANGED <<guest, transfer_size>>
  BY DoAdvanceType3 DEF Basics
<1>2. Taking' = 0 /\ Taking = host.avail /\ Unsent' = Unsent BY <1>1 DEF Taking, Unsent
<1>3. guest.pc # "crashed" => transfer_size = Unsent + large.len - Taking
  BY ExactMeans DEF Basics
<1>4. guest.pc # "crashed" => transfer_size' = Unsent' + large'.len - Taking'
  BY <1>1, <1>2, <1>3, SizesNat DEF Basics
<1> QED BY <1>1, <1>4, ExactMeansNext

LEMMA ExactStep ==
  ASSUME Basics, [Next]_vars
  PROVE  TransferSizeExact'
<1> USE DEF Basics
<1>1. CASE Close
  BY <1>1, DoCall DEF Close, shared, TransferSizeExact, StartsCall
<1>2. CASE ensureType3Finished
  BY <1>2, DoEnsureType3 DEF KeepsRings, EndsSending, TransferSizeExact
<1>3. CASE ensureType1Finished
  BY <1>3, DoEnsureType1 DEF KeepsRings, TransferSizeExact
<1>4. CASE Fill
  BY <1>4 DEF Typed, Guests, Hosts, Fill, GuestAt, HostAt, shared, TransferSizeExact
<1>5. CASE type1Write
  BY <1>5 DEF Typed, Guests, Hosts, type1Write, GuestAt, HostAt, shared, TransferSizeExact
<1>6. CASE PingType1
  BY <1>6 DEF Typed, Guests, Hosts, PingType1, GuestAt, HostAt, shared, TransferSizeExact
<1>7. CASE AfterType1Write
  BY <1>7, DoAfterType1Write DEF KeepsRings, EndsSending, TransferSizeExact
<1>8. CASE StartLarge
  BY <1>8, ExactStartLarge
<1>9. CASE Chunk
  BY <1>9, DoChunk, ExactChunk
<1>10. CASE PingType3
  BY <1>10, DoPingType3 DEF KeepsRings, KeepsCall, TransferSizeExact, GuestSizes, Typed, Guests
<1>11. CASE AfterLarge
  BY <1>11, DoAfterLarge DEF KeepsRings, EndsSending, TransferSizeExact
<1>12. CASE speculativeRead
  BY <1>12, DoSpeculativeRead DEF TransferSizeExact
<1>13. CASE TopOfLoop
  BY <1>13, DoTopOfLoop DEF TransferSizeExact, KeepsRings
<1>14. CASE CheckSmall
  BY <1>14 DEF Typed, Guests, Hosts, CheckSmall, GuestAt, HostAt, shared, TransferSizeExact
<1>15. CASE CheckLarge
  BY <1>15 DEF Typed, Guests, Hosts, CheckLarge, GuestAt, HostAt, shared, TransferSizeExact
<1>16. CASE type1Read
  BY <1>16, DoType1Read DEF TransferSizeExact, type1Read, shared
<1>17. CASE AdvanceType1
  BY <1>17 DEF Typed, Guests, Hosts, AdvanceType1, GuestAt, HostAt, shared, TransferSizeExact
<1>18. CASE type3Read
  BY <1>18, ExactType3Read
<1>19. CASE CopyType3
  BY <1>19 DEF Typed, Guests, Hosts, CopyType3, GuestAt, HostAt, shared, TransferSizeExact
<1>20. CASE AdvanceType3
  BY <1>20, ExactAdvanceType3
<1>21. CASE FoundNothing
  BY <1>21 DEF Typed, Guests, Hosts, FoundNothing, GuestAt, HostAt, shared, TransferSizeExact
<1>22. CASE Spin
  BY <1>22 DEF Typed, Guests, Hosts, Spin, GuestAt, HostAt, shared, TransferSizeExact
<1>23. CASE Sleep
  BY <1>23 DEF Typed, Guests, Hosts, Sleep, GuestAt, HostAt, shared, TransferSizeExact
<1>24. CASE Wake
  BY <1>24 DEF Typed, Guests, Hosts, Wake, GuestAt, HostAt, shared, TransferSizeExact
<1>25. CASE WakeToExit
  BY <1>25 DEF Typed, Guests, Hosts, WakeToExit, GuestAt, HostAt, shared, TransferSizeExact
<1>26. CASE Return
  BY <1>26 DEF Typed, Guests, Hosts, Return, GuestAt, HostAt, shared, TransferSizeExact
<1>27. CASE Decode
  BY <1>27 DEF Typed, Guests, Hosts, Decode, GuestAt, HostAt, shared, TransferSizeExact
<1>28. CASE commitBuffer
  BY <1>28 DEF Typed, Guests, Hosts, commitBuffer, GuestAt, HostAt, shared, TransferSizeExact
<1>29. CASE GiveUpReply
  BY <1>29 DEF Typed, Guests, Hosts, GiveUpReply, GuestAt, HostAt, shared, TransferSizeExact
<1>30. CASE Crash
  BY <1>30 DEF Typed, Guests, Hosts, Crash, GuestAt, HostAt, shared, TransferSizeExact
<1>31. CASE Destroy
  BY <1>31 DEF Typed, Guests, Hosts, Destroy, GuestAt, HostAt, shared, TransferSizeExact
<1>32. ASSUME NEW size \in Sends, NEW reply \in Replies, allocBuffer(size, reply)
      PROVE  TransferSizeExact'
  BY <1>32, DoCall DEF allocBuffer, shared, TransferSizeExact, StartsCall
<1>33. ASSUME NEW size \in Sends, NEW reply \in Nat, NEW async \in BOOLEAN,
             write(size, reply, async)
      PROVE  TransferSizeExact'
  BY <1>33, DoCall DEF write, shared, TransferSizeExact, StartsCall
<1>34. ASSUME NEW want \in Wants, readRaw(want)
      PROVE  TransferSizeExact'
  BY <1>34 DEF Typed, Guests, Hosts, readRaw, GuestAt, HostAt, shared, TransferSizeExact
<1>35. CASE UNCHANGED vars BY <1>35 DEF vars, shared, TransferSizeExact
<1>36. Replies \subseteq Nat BY CallAssumption
<1> QED
  BY <1>1, <1>2, <1>3, <1>4, <1>5, <1>6, <1>7, <1>8, <1>9, <1>10,
     <1>11, <1>12, <1>13, <1>14, <1>15, <1>16, <1>17, <1>18, <1>19,
     <1>20, <1>21, <1>22, <1>23, <1>24, <1>25, <1>26, <1>27, <1>28,
     <1>29, <1>30, <1>31, <1>32, <1>33, <1>34, <1>35, <1>36
  DEF Next, GuestStep, HostStep, writeFully, writeFullyAsync

LEMMA BasicsStep == Basics /\ [Next]_vars => Basics'
<1> SUFFICES ASSUME Basics, [Next]_vars PROVE Basics'
  OBVIOUS
<1>1. Typed' BY TypedStep DEF Basics
<1>2. GuestSizes' BY SizesStep DEF Basics
<1>3. Drained' BY DrainedStep DEF Basics
<1>4. HostData' BY HostDataStep DEF Basics
<1>5. TransferSizeExact' BY ExactStep
<1> QED BY <1>1, <1>2, <1>3, <1>4, <1>5 DEF Basics

LEMMA InitBasics == Init => Basics
<1> SUFFICES ASSUME Init PROVE Basics
  OBVIOUS
<1>1. Typed BY InitTyped
<1>2. GuestSizes /\ Drained BY DEF Init, NoCall, GuestSizes, Drained, Pushing
<1>3. HostData BY DEF Init, HostData, Looking
<1>4. TransferSizeExact BY DEF Init, NoCall, TransferSizeExact
<1> QED BY <1>1, <1>2, <1>3, <1>4 DEF Basics

LEMMA BasicsInvariance == Spec => []Basics
BY InitBasics, BasicsStep, PTL DEF Spec

(* The values of the variables, for every size of the buffer and of its    *)
(* slots: the rings never hold more than fits, a slot never more than a    *)
(* slot's cells, and transfer_size (AddressSpaceStream.cpp:460,            *)
(* RingStream.cpp:322) does not drop below 0.                              *)
THEOREM StaysInBuffer == Spec => []TypeOK
<1>1. Basics => TypeOK BY DEF Basics, Typed, TypeOK, Guests, Hosts, Slot
<1> QED BY <1>1, BasicsInvariance, PTL

(* transfer_size is what the guest has still to send and what the host has *)
(* still to take, after every step of either: writeFully sets it when the  *)
(* last transfer is gone, and type3Read takes off what it is about to copy *)
(* (RingStream.cpp:313-330).                                               *)
THEOREM TransferSizeIsExact == Spec => []TransferSizeExact
<1>1. Basics => TransferSizeExact BY DEF Basics
<1> QED BY <1>1, BasicsInvariance, PTL

-----------------------------------------------------------------------------
(***************************************************************************)
(* Waking the host.                                                        *)
(***************************************************************************)
States ==
  /\ host_state = "RENDERING" => host.pc \in {"decode", "reply", "idle"}
  /\ host_state = "EXIT" => exiting
  /\ exiting => Gone

(* Once the guest has looked at host_state after its write, the host finds *)
(* the cells on its next look or a wake-up is on its way.                  *)
SlotsSeen ==
  /\ guest.pc \notin {"ping1", "after1", "crashed"}
  /\ host.pc \in {"large", "none", "spin", "wait", "asleep"} /\ to_host # <<>>
  => wakeups > 0
LargeSeen ==
  /\ guest.pc \notin {"chunk", "ping3", "after3", "crashed"}
  /\ host.pc \in {"none", "spin", "wait", "asleep"} /\ large.len > 0
  => wakeups > 0

LEMMA NotifiedPositive ==
  ASSUME Typed, NEW awake \in BOOLEAN, NotifyUnless(awake)
  PROVE  /\ wakeups > 0 => wakeups' > 0
         /\ ~awake => wakeups' > 0
BY BoundAssumption DEF Typed, NotifyUnless, Notified, Lesser

LEMMA StatesStep ==
  ASSUME Typed, HostData, States, [Next]_vars
  PROVE  States'
<1>1. CASE Close
  BY <1>1, DoCall DEF States, Gone, StartsCall, Close, shared
<1>2. CASE ensureType3Finished
  BY <1>2 DEF States, Gone, ensureType3Finished
<1>3. CASE ensureType1Finished
  BY <1>3 DEF States, Gone, ensureType1Finished, shared
<1>4. CASE Fill
  BY <1>4 DEF States, Gone, Fill, GuestAt, NoCall, Typed, Guests, shared
<1>5. CASE type1Write
  BY <1>5 DEF States, Gone, type1Write, GuestAt, NoCall, Typed, Guests, shared
<1>6. CASE PingType1
  BY <1>6 DEF States, Gone, PingType1, GuestAt, NoCall, Typed, Guests, shared
<1>7. CASE AfterType1Write
  BY <1>7 DEF States, Gone, AfterType1Write, GuestAt, NoCall, Typed, Guests, shared
<1>8. CASE StartLarge
  BY <1>8 DEF States, Gone, StartLarge, GuestAt, NoCall, Typed, Guests, shared
<1>9. CASE Chunk
  BY <1>9 DEF States, Gone, Chunk, GuestAt, NoCall, Typed, Guests, shared
<1>10. CASE PingType3
  BY <1>10 DEF States, Gone, PingType3, GuestAt, NoCall, Typed, Guests, shared
<1>11. CASE AfterLarge
  BY <1>11 DEF States, Gone, AfterLarge, GuestAt, NoCall, Typed, Guests, shared
<1>12. CASE speculativeRead
  BY <1>12 DEF States, Gone, speculativeRead, GuestAt, NoCall, Typed, Guests, shared
<1>13. CASE TopOfLoop
  BY <1>13 DEF Typed, Hosts, States, Gone, TopOfLoop, HostAt, shared
<1>14. CASE CheckSmall
  BY <1>14 DEF Typed, Hosts, States, Gone, CheckSmall, HostAt, shared
<1>15. CASE CheckLarge
  BY <1>15 DEF Typed, Hosts, States, Gone, CheckLarge, HostAt, shared
<1>16. CASE type1Read
  BY <1>16 DEF Typed, Hosts, States, Gone, type1Read, HostAt, shared
<1>17. CASE AdvanceType1
  BY <1>17 DEF Typed, Hosts, States, Gone, AdvanceType1, HostAt, shared
<1>18. CASE type3Read
  BY <1>18 DEF Typed, Hosts, States, Gone, type3Read, HostAt, shared
<1>19. CASE CopyType3
  BY <1>19 DEF Typed, Hosts, States, Gone, CopyType3, HostAt, shared
<1>20. CASE AdvanceType3
  BY <1>20 DEF Typed, Hosts, States, Gone, AdvanceType3, HostAt, shared
<1>21. CASE FoundNothing
  BY <1>21 DEF Typed, Hosts, States, Gone, FoundNothing, HostAt, shared
<1>22. CASE Spin
  BY <1>22 DEF Typed, Hosts, States, Gone, Spin, HostAt, shared
<1>23. CASE Sleep
  BY <1>23 DEF Typed, Hosts, States, Gone, Sleep, HostAt, shared
<1>24. CASE Wake
  BY <1>24 DEF Typed, Hosts, States, Gone, Wake, HostAt, shared
<1>25. CASE WakeToExit
  BY <1>25 DEF Typed, Hosts, States, Gone, WakeToExit, HostAt, shared
<1>26. CASE Return
  BY <1>26 DEF Typed, Hosts, States, Gone, Return, HostAt, shared
<1>27. CASE Decode
  BY <1>27 DEF Typed, Hosts, States, Gone, Decode, HostAt, shared
<1>28. CASE commitBuffer
  BY <1>28 DEF Typed, Hosts, States, Gone, commitBuffer, HostAt, shared
<1>29. CASE GiveUpReply
  BY <1>29 DEF Typed, Hosts, States, Gone, GiveUpReply, HostAt, shared
<1>30. CASE Crash
  BY <1>30 DEF States, Gone, Crash, GuestAt, NoCall, Typed, Guests, shared
<1>31. CASE Destroy
  BY <1>31 DEF States, Gone, Destroy, GuestAt, NoCall, Typed, Guests, shared
<1>32. ASSUME NEW size \in Sends, NEW reply \in Replies, allocBuffer(size, reply)
      PROVE  States'
  BY <1>32, DoCall DEF States, Gone, StartsCall, allocBuffer, shared
<1>33. ASSUME NEW size \in Sends, NEW reply \in Nat, NEW async \in BOOLEAN,
             write(size, reply, async)
      PROVE  States'
  BY <1>33, DoCall DEF States, Gone, StartsCall, write, shared
<1>34. ASSUME NEW want \in Wants, readRaw(want)
      PROVE  States'
  BY <1>34 DEF Typed, Hosts, States, Gone, readRaw, HostAt, shared
<1>35. CASE UNCHANGED vars BY <1>35 DEF vars, shared, States, Gone
<1>36. Replies \subseteq Nat BY CallAssumption
<1> QED
  BY <1>1, <1>2, <1>3, <1>4, <1>5, <1>6, <1>7, <1>8, <1>9, <1>10,
     <1>11, <1>12, <1>13, <1>14, <1>15, <1>16, <1>17, <1>18, <1>19,
     <1>20, <1>21, <1>22, <1>23, <1>24, <1>25, <1>26, <1>27, <1>28,
     <1>29, <1>30, <1>31, <1>32, <1>33, <1>34, <1>35, <1>36
  DEF Next, GuestStep, HostStep, writeFully, writeFullyAsync

LEMMA After1Notifies ==
  ASSUME Typed, States, AfterType1Write
  PROVE  /\ wakeups > 0 => wakeups' > 0
         /\ host.pc \in {"large", "none", "spin", "wait", "asleep"} => wakeups' > 0
<1>1. SkipsNotify \in BOOLEAN /\ NotifyUnless(SkipsNotify)
  BY DEF AfterType1Write, SkipsNotify
<1>2. host.pc \in {"large", "none", "spin", "wait", "asleep"} => ~SkipsNotify
  BY DEF States, SkipsNotify
<1> QED BY <1>1, <1>2, NotifiedPositive

LEMMA After3Notifies ==
  ASSUME Typed, States, AfterLarge
  PROVE  /\ wakeups > 0 => wakeups' > 0
         /\ host.pc \in {"large", "none", "spin", "wait", "asleep"} => wakeups' > 0
<1>1. SkipsNotify \in BOOLEAN /\ NotifyUnless(SkipsNotify)
  BY DEF AfterLarge, SkipsNotify
<1>2. host.pc \in {"large", "none", "spin", "wait", "asleep"} => ~SkipsNotify
  BY DEF States, SkipsNotify
<1> QED BY <1>1, <1>2, NotifiedPositive

LEMMA Type3Notifies ==
  ASSUME Typed, ensureType3Finished, wakeups > 0
  PROVE  wakeups' > 0
<1>1. (~guest.looped \/ Awake(host_state)) \in BOOLEAN BY DEF Awake
<1>2. NotifyUnless(~guest.looped \/ Awake(host_state)) BY DEF ensureType3Finished
<1> QED BY <1>1, <1>2, NotifiedPositive

LEMMA Ping3Notifies ==
  ASSUME Typed, PingType3, wakeups > 0
  PROVE  wakeups' > 0
<1>1. (~(~guest.pinged /\ ~Awake(host_state))) \in BOOLEAN BY DEF Awake
<1>2. NotifyUnless(~(~guest.pinged /\ ~Awake(host_state))) BY DEF PingType3
<1> QED BY <1>1, <1>2, NotifiedPositive

LEMMA SlotsSeenStep ==
  ASSUME Basics, States, SlotsSeen, [Next]_vars
  PROVE  SlotsSeen'
<1> USE DEF Basics
<1>1. CASE Close
  BY <1>1, DoCall DEF SlotsSeen, StartsCall, Close, shared
<1>2. CASE ensureType3Finished
  BY <1>2, DoEnsureType3, Type3Notifies DEF SlotsSeen, KeepsRings
<1>3. CASE ensureType1Finished
  BY <1>3 DEF SlotsSeen, ensureType1Finished, GuestAt, NoCall, Typed, Guests, shared
<1>4. CASE Fill
  BY <1>4 DEF SlotsSeen, Fill, GuestAt, NoCall, Typed, Guests, shared
<1>5. CASE type1Write
  BY <1>5 DEF SlotsSeen, type1Write, GuestAt, NoCall, Typed, Guests, shared
<1>6. CASE PingType1
  BY <1>6, GuestFields DEF SlotsSeen, PingType1, Typed
<1>7. CASE AfterType1Write
  BY <1>7, DoAfterType1Write, After1Notifies DEF SlotsSeen, KeepsRings
<1>8. CASE StartLarge
  BY <1>8 DEF SlotsSeen, StartLarge, GuestAt, NoCall, Typed, Guests, shared
<1>9. CASE Chunk
  BY <1>9, DoChunk DEF SlotsSeen, Chunk
<1>10. CASE PingType3
  BY <1>10, DoPingType3, Ping3Notifies DEF SlotsSeen, KeepsRings
<1>11. CASE AfterLarge
  BY <1>11, DoAfterLarge, After3Notifies DEF SlotsSeen, KeepsRings
<1>12. CASE speculativeRead
  BY <1>12, DoSpeculativeRead DEF SlotsSeen, speculativeRead
<1>13. CASE TopOfLoop
  BY <1>13, DoTopOfLoop DEF SlotsSeen, KeepsRings, TopOfLoop
<1>14. CASE CheckSmall
  BY <1>14 DEF Typed, Hosts, SlotsSeen, CheckSmall, HostAt, shared
<1>15. CASE CheckLarge
  BY <1>15 DEF Typed, Hosts, SlotsSeen, CheckLarge, HostAt, shared
<1>16. CASE type1Read
  BY <1>16, DoType1Read DEF SlotsSeen
<1>17. CASE AdvanceType1
  BY <1>17 DEF Typed, Hosts, SlotsSeen, AdvanceType1, HostAt, shared
<1>18. CASE type3Read
  BY <1>18, DoType3Read DEF SlotsSeen
<1>19. CASE CopyType3
  BY <1>19, DoCopyType3 DEF SlotsSeen
<1>20. CASE AdvanceType3
  BY <1>20, DoAdvanceType3 DEF SlotsSeen
<1>21. CASE FoundNothing
  BY <1>21 DEF Typed, Hosts, SlotsSeen, FoundNothing, HostAt, shared
<1>22. CASE Spin
  BY <1>22 DEF Typed, Hosts, SlotsSeen, Spin, HostAt, shared
<1>23. CASE Sleep
  BY <1>23 DEF Typed, Hosts, SlotsSeen, Sleep, HostAt, shared
<1>24. CASE Wake
  BY <1>24 DEF Typed, Hosts, SlotsSeen, Wake, HostAt, shared
<1>25. CASE WakeToExit
  BY <1>25 DEF Typed, Hosts, SlotsSeen, WakeToExit, HostAt, shared
<1>26. CASE Return
  BY <1>26 DEF Typed, Hosts, SlotsSeen, Return, HostAt, shared
<1>27. CASE Decode
  BY <1>27 DEF Typed, Hosts, SlotsSeen, Decode, HostAt, shared
<1>28. CASE commitBuffer
  BY <1>28 DEF Typed, Hosts, SlotsSeen, commitBuffer, HostAt, shared
<1>29. CASE GiveUpReply
  BY <1>29 DEF Typed, Hosts, SlotsSeen, GiveUpReply, HostAt, shared
<1>30. CASE Crash
  BY <1>30 DEF SlotsSeen, Crash, GuestAt, NoCall, Typed, Guests, shared
<1>31. CASE Destroy
  BY <1>31 DEF SlotsSeen, Destroy, GuestAt, NoCall, Typed, Guests, shared
<1>32. ASSUME NEW size \in Sends, NEW reply \in Replies, allocBuffer(size, reply)
      PROVE  SlotsSeen'
  BY <1>32, DoCall DEF SlotsSeen, StartsCall, allocBuffer, shared
<1>33. ASSUME NEW size \in Sends, NEW reply \in Nat, NEW async \in BOOLEAN,
             write(size, reply, async)
      PROVE  SlotsSeen'
  BY <1>33, DoCall DEF SlotsSeen, StartsCall, write, shared
<1>34. ASSUME NEW want \in Wants, readRaw(want)
      PROVE  SlotsSeen'
  BY <1>34 DEF Typed, Hosts, SlotsSeen, readRaw, HostAt, shared
<1>35. CASE UNCHANGED vars BY <1>35 DEF vars, shared, SlotsSeen
<1>36. Replies \subseteq Nat BY CallAssumption
<1> QED
  BY <1>1, <1>2, <1>3, <1>4, <1>5, <1>6, <1>7, <1>8, <1>9, <1>10,
     <1>11, <1>12, <1>13, <1>14, <1>15, <1>16, <1>17, <1>18, <1>19,
     <1>20, <1>21, <1>22, <1>23, <1>24, <1>25, <1>26, <1>27, <1>28,
     <1>29, <1>30, <1>31, <1>32, <1>33, <1>34, <1>35, <1>36
  DEF Next, GuestStep, HostStep, writeFully, writeFullyAsync

LEMMA LargeSeenStep ==
  ASSUME Basics, States, LargeSeen, [Next]_vars
  PROVE  LargeSeen'
<1> USE DEF Basics
<1>1. CASE Close
  BY <1>1, DoCall DEF LargeSeen, StartsCall, Close, shared
<1>2. CASE ensureType3Finished
  BY <1>2, DoEnsureType3, Type3Notifies DEF LargeSeen, KeepsRings
<1>3. CASE ensureType1Finished
  BY <1>3 DEF LargeSeen, ensureType1Finished, GuestAt, NoCall, Typed, Guests, shared
<1>4. CASE Fill
  BY <1>4 DEF LargeSeen, Fill, GuestAt, NoCall, Typed, Guests, shared
<1>5. CASE type1Write
  BY <1>5 DEF LargeSeen, type1Write, GuestAt, NoCall, Typed, Guests, shared
<1>6. CASE PingType1
  BY <1>6, GuestFields DEF LargeSeen, PingType1, Typed, Drained, shared
<1>7. CASE AfterType1Write
  BY <1>7, DoAfterType1Write, After1Notifies DEF LargeSeen, KeepsRings
<1>8. CASE StartLarge
  BY <1>8 DEF LargeSeen, StartLarge, GuestAt, NoCall, Typed, Guests, shared
<1>9. CASE Chunk
  BY <1>9, DoChunk DEF LargeSeen, Chunk
<1>10. CASE PingType3
  BY <1>10, DoPingType3, Ping3Notifies DEF LargeSeen, KeepsRings
<1>11. CASE AfterLarge
  BY <1>11, DoAfterLarge, After3Notifies DEF LargeSeen, KeepsRings
<1>12. CASE speculativeRead
  BY <1>12, DoSpeculativeRead DEF LargeSeen, speculativeRead
<1>13. CASE TopOfLoop
  BY <1>13, DoTopOfLoop DEF LargeSeen, KeepsRings, TopOfLoop
<1>14. CASE CheckSmall
  BY <1>14 DEF Typed, Hosts, LargeSeen, CheckSmall, HostAt, shared
<1>15. CASE CheckLarge
  BY <1>15 DEF Typed, Hosts, LargeSeen, CheckLarge, HostAt, shared
<1>16. CASE type1Read
  BY <1>16, DoType1Read DEF LargeSeen
<1>17. CASE AdvanceType1
  BY <1>17 DEF Typed, Hosts, LargeSeen, AdvanceType1, HostAt, shared
<1>18. CASE type3Read
  BY <1>18, DoType3Read DEF LargeSeen
<1>19. CASE CopyType3
  BY <1>19, DoCopyType3 DEF LargeSeen
<1>20. CASE AdvanceType3
  BY <1>20, DoAdvanceType3 DEF LargeSeen
<1>21. CASE FoundNothing
  BY <1>21 DEF Typed, Hosts, LargeSeen, FoundNothing, HostAt, shared
<1>22. CASE Spin
  BY <1>22 DEF Typed, Hosts, LargeSeen, Spin, HostAt, shared
<1>23. CASE Sleep
  BY <1>23 DEF Typed, Hosts, LargeSeen, Sleep, HostAt, shared
<1>24. CASE Wake
  BY <1>24 DEF Typed, Hosts, LargeSeen, Wake, HostAt, shared
<1>25. CASE WakeToExit
  BY <1>25 DEF Typed, Hosts, LargeSeen, WakeToExit, HostAt, shared
<1>26. CASE Return
  BY <1>26 DEF Typed, Hosts, LargeSeen, Return, HostAt, shared
<1>27. CASE Decode
  BY <1>27 DEF Typed, Hosts, LargeSeen, Decode, HostAt, shared
<1>28. CASE commitBuffer
  BY <1>28 DEF Typed, Hosts, LargeSeen, commitBuffer, HostAt, shared
<1>29. CASE GiveUpReply
  BY <1>29 DEF Typed, Hosts, LargeSeen, GiveUpReply, HostAt, shared
<1>30. CASE Crash
  BY <1>30 DEF LargeSeen, Crash, GuestAt, NoCall, Typed, Guests, shared
<1>31. CASE Destroy
  BY <1>31 DEF LargeSeen, Destroy, GuestAt, NoCall, Typed, Guests, shared
<1>32. ASSUME NEW size \in Sends, NEW reply \in Replies, allocBuffer(size, reply)
      PROVE  LargeSeen'
  BY <1>32, DoCall DEF LargeSeen, StartsCall, allocBuffer, shared
<1>33. ASSUME NEW size \in Sends, NEW reply \in Nat, NEW async \in BOOLEAN,
             write(size, reply, async)
      PROVE  LargeSeen'
  BY <1>33, DoCall DEF LargeSeen, StartsCall, write, shared
<1>34. ASSUME NEW want \in Wants, readRaw(want)
      PROVE  LargeSeen'
  BY <1>34 DEF Typed, Hosts, LargeSeen, readRaw, HostAt, shared
<1>35. CASE UNCHANGED vars BY <1>35 DEF vars, shared, LargeSeen
<1>36. Replies \subseteq Nat BY CallAssumption
<1> QED
  BY <1>1, <1>2, <1>3, <1>4, <1>5, <1>6, <1>7, <1>8, <1>9, <1>10,
     <1>11, <1>12, <1>13, <1>14, <1>15, <1>16, <1>17, <1>18, <1>19,
     <1>20, <1>21, <1>22, <1>23, <1>24, <1>25, <1>26, <1>27, <1>28,
     <1>29, <1>30, <1>31, <1>32, <1>33, <1>34, <1>35, <1>36
  DEF Next, GuestStep, HostStep, writeFully, writeFullyAsync

Awakes == Basics /\ States /\ SlotsSeen /\ LargeSeen

LEMMA InitAwakes == Init => Awakes
<1> SUFFICES ASSUME Init PROVE Awakes
  OBVIOUS
<1>1. States /\ SlotsSeen /\ LargeSeen BY DEF Init, NoCall, States, SlotsSeen, LargeSeen, Gone
<1> QED BY <1>1, InitBasics DEF Awakes

LEMMA AwakesStep == Awakes /\ [Next]_vars => Awakes'
<1> SUFFICES ASSUME Awakes, [Next]_vars PROVE Awakes'
  OBVIOUS
<1>1. Basics' BY BasicsStep DEF Awakes
<1>2. States' BY StatesStep DEF Awakes, Basics
<1>3. SlotsSeen' BY SlotsSeenStep DEF Awakes
<1>4. LargeSeen' BY LargeSeenStep DEF Awakes
<1> QED BY <1>1, <1>2, <1>3, <1>4 DEF Awakes

LEMMA AwakesInvariance == Spec => []Awakes
BY InitAwakes, AwakesStep, PTL DEF Spec

(* The guest looks at host_state after its write (AddressSpaceStream.cpp:  *)
(* 780), the host looks at the rings before it sleeps (RingStream.cpp:     *)
(* 187-196): whatever the order of the two, the host does not sleep on     *)
(* cells that nobody will wake it for.                                     *)
THEOREM NoWakeUpIsLost == Spec => []NeverSleepsOnWork
<1>1. ASSUME Awakes PROVE NeverSleepsOnWork
  <2> SUFFICES ASSUME host.pc = "asleep", Quiet, to_host # <<>> \/ large.len > 0
               PROVE  wakeups > 0
    BY DEF NeverSleepsOnWork
  <2>1. CASE to_host # <<>> BY <1>1, <2>1 DEF Awakes, SlotsSeen, Quiet
  <2>2. CASE large.len > 0 BY <1>1, <2>2 DEF Awakes, LargeSeen, Quiet
  <2> QED BY <2>1, <2>2
<1> QED BY <1>1, AwakesInvariance, PTL

-----------------------------------------------------------------------------
(***************************************************************************)
(* Places in the buffer and numbers of cells.                              *)
(***************************************************************************)
Off(pos, j) == (pos + j) % Size
Num(n, k) == (n + k) % Numbers

LEMMA SizePositive == Size \in Nat \ {0} /\ Numbers \in Nat \ {0} /\ Step \in Nat \ {0}
BY SizeAssumption, BoundAssumption

LEMMA OffRange ==
  ASSUME NEW p \in Int, NEW j \in Int
  PROVE  Off(p, j) \in 0 .. Size - 1
<1>1. p + j \in Int OBVIOUS
<1> QED BY <1>1, ModRange, SizePositive DEF Off

LEMMA OffOff ==
  ASSUME NEW p \in Int, NEW i \in Int, NEW j \in Int
  PROVE  Off(Off(p, i), j) = Off(p, i + j)
<1>1. p + i \in Int /\ (p + i) + j = p + (i + j) OBVIOUS
<1>2. (((p + i) % Size) + j) % Size = ((p + i) + j) % Size
  BY <1>1, ModAdd, SizePositive
<1> QED BY <1>1, <1>2 DEF Off

LEMMA OffZero ==
  ASSUME NEW p \in 0 .. Size - 1
  PROVE  Off(p, 0) = p
<1>1. p \in Int /\ p + 0 = p BY SizePositive
<1>2. p % Size = p BY <1>1, SmallMod, SizePositive
<1> QED BY <1>1, <1>2 DEF Off

LEMMA OffApart ==
  ASSUME NEW p \in Int, NEW i \in Int, NEW j \in Int,
         i # j, i - j < Size, j - i < Size
  PROVE  Off(p, i) # Off(p, j)
<1> SUFFICES ASSUME Off(p, i) = Off(p, j) PROVE FALSE
  OBVIOUS
<1> DEFINE a == (p + i) \div Size  c == (p + j) \div Size  r == (p + i) % Size
<1>0. p + i \in Int /\ p + j \in Int OBVIOUS
<1>1. p + i = Size * a + r /\ a \in Int BY <1>0, ModQ, SizePositive
<1>2. p + j = Size * c + r /\ c \in Int BY <1>0, ModQ, SizePositive DEF Off
<1>3. r \in Int BY <1>0, ModRange, SizePositive
<1> HIDE DEF a, c, r
<1>4. Size * (a - c) = Size * a - Size * c BY <1>1, <1>2, SizePositive
<1>5. Size * (a - c) = i - j
  <2> DEFINE x == Size * a  y == Size * c
  <2>1. x \in Int /\ y \in Int BY <1>1, <1>2, SizePositive
  <2>2. p + i = x + r /\ p + j = y + r BY <1>1, <1>2
  <2>3. Size * (a - c) = x - y BY <1>4
  <2> HIDE DEF x, y
  <2> QED BY <1>3, <2>1, <2>2, <2>3
<1>6. a - c \in Int /\ i - j \in Int /\ -Size < i - j BY <1>1, <1>2, SizePositive
<1>7. a - c = 0 BY <1>5, <1>6, SmallFactor, SizePositive
<1> QED BY <1>5, <1>7, SizePositive

LEMMA NumRange ==
  ASSUME NEW n \in Int, NEW k \in Int
  PROVE  Num(n, k) \in 0 .. Numbers - 1
<1>1. n + k \in Int OBVIOUS
<1> QED BY <1>1, ModRange, SizePositive DEF Num

LEMMA NumNum ==
  ASSUME NEW n \in Int, NEW i \in Int, NEW j \in Int
  PROVE  Num(Num(n, i), j) = Num(n, i + j)
<1>1. n + i \in Int /\ (n + i) + j = n + (i + j) OBVIOUS
<1>2. (((n + i) % Numbers) + j) % Numbers = ((n + i) + j) % Numbers
  BY <1>1, ModAdd, SizePositive
<1> QED BY <1>1, <1>2 DEF Num

LEMMA NumZero ==
  ASSUME NEW n \in 0 .. Numbers - 1
  PROVE  Num(n, 0) = n
<1>1. n \in Int /\ n + 0 = n BY SizePositive
<1>2. n % Numbers = n BY <1>1, SmallMod, SizePositive
<1> QED BY <1>1, <1>2 DEF Num

(* Where cells were stored there are these cells, elsewhere what was there.*)
LEMMA StoredHere ==
  ASSUME NEW pos \in Int, NEW cells, Len(cells) \in Nat, Len(cells) <= Size,
         NEW j \in 0 .. Len(cells) - 1
  PROVE  Stored(pos, cells)[Off(pos, j)] = cells[j + 1]
<1> DEFINE c == Off(pos, j)
<1>0. j \in Int BY SizePositive
<1>1. c \in 0 .. Size - 1 BY <1>0, OffRange
<1>2. (c - pos) % Size = j
  <2>1. pos + j \in Int /\ -pos \in Int /\ (pos + j) + (-pos) = j OBVIOUS
  <2>2. (((pos + j) % Size) + (-pos)) % Size = ((pos + j) + (-pos)) % Size
    BY <2>1, ModAdd, SizePositive
  <2>3. j % Size = j
    <3>1. j \in 0 .. Size - 1 /\ j \in Int BY SizePositive
    <3> QED BY <3>1, SmallMod, SizePositive
  <2>4. c + (-pos) = c - pos BY <1>1
  <2> QED BY <2>1, <2>2, <2>3, <2>4 DEF Off
<1> HIDE DEF c
<1>3. Stored(pos, cells)[c] = IF (c - pos) % Size < Len(cells)
                                THEN cells[((c - pos) % Size) + 1] ELSE buf[c]
  BY <1>1 DEF Stored
<1> QED BY <1>2, <1>3 DEF c

LEMMA StoredElsewhere ==
  ASSUME NEW pos \in Int, NEW cells, Len(cells) \in Nat, NEW c \in 0 .. Size - 1,
         \A j \in 0 .. Len(cells) - 1 : c # Off(pos, j)
  PROVE  Stored(pos, cells)[c] = buf[c]
<1> DEFINE j == (c - pos) % Size
<1>1. c - pos \in Int /\ c \in Int /\ pos + (c - pos) = c BY SizePositive
<1>2. j \in 0 .. Size - 1 BY <1>1, ModRange, SizePositive
<1>3. Off(pos, j) = c
  <2>1. (((c - pos) % Size) + pos) % Size = ((c - pos) + pos) % Size
    BY <1>1, ModAdd, SizePositive
  <2>2. (c - pos) + pos = c /\ pos + j = j + pos BY <1>1, <1>2
  <2>3. c % Size = c BY <1>1, SmallMod, SizePositive
  <2> QED BY <2>1, <2>2, <2>3 DEF Off
<1>4. Stored(pos, cells)[c] = IF j < Len(cells) THEN cells[j + 1] ELSE buf[c]
  BY DEF Stored
<1> HIDE DEF j
<1>5. ~(j < Len(cells)) BY <1>2, <1>3
<1> QED BY <1>4, <1>5

-----------------------------------------------------------------------------
(***************************************************************************)
(* Cells of the stream: in the host's hands, in a part of the buffer, and  *)
(* in the slots.  Only the last one may ask for a reply; "ends" are the    *)
(* replies that it may ask for.                                            *)
(***************************************************************************)
Last(end, ends) == IF end THEN ends ELSE {0}
CellOK(c, n, ends) == c.kind = "cmd" /\ c.n = n /\ c.r \in ends

Row(s, n, ends) ==
  \A i \in 1 .. Len(s) : CellOK(s[i], Num(n, i - 1), Last(i = Len(s), ends))

Block(b, pos, m, n, ends) ==
  \A j \in 0 .. m - 1 : CellOK(b[Off(pos, j)], Num(n, j), Last(j = m - 1, ends))

(* Slot k holds the cells from at[k] on; t of them were taken.             *)
SlotRow(b, q, t, at, ends) ==
  \A k \in t + 1 .. Len(q) :
    /\ at[k + 1] = Num(at[k], q[k].size)
    /\ Block(b, q[k].offset, q[k].size, at[k], Last(k = Len(q), ends))

(* What is read, then the slots, then the large ring without the t3 cells  *)
(* that were copied: from n up to one of "fronts".                         *)
StreamAt(b, read, n, q, t, ring, t3, ends, fronts, at) ==
  /\ t <= Len(q) /\ t3 <= ring.len
  /\ Row(read, n, Last(Len(q) = t /\ ring.len = t3, ends))
  /\ at[t + 1] = Num(n, Len(read))
  /\ SlotRow(b, q, t, at, ends)
  /\ Block(b, Off(ring.pos, t3), ring.len - t3, at[Len(q) + 1], ends)
  /\ Num(at[Len(q) + 1], ring.len - t3) \in fronts

Stream(b, read, n, q, t, ring, t3, ends, fronts) ==
  \E at \in [1 .. Len(q) + 1 -> 0 .. Numbers - 1] :
    StreamAt(b, read, n, q, t, ring, t3, ends, fronts, at)

LEMMA LastGrows ==
  ASSUME NEW e \in BOOLEAN, NEW S, NEW T, S \subseteq T
  PROVE  Last(e, S) \subseteq Last(e, T)
BY DEF Last

LEMMA RowGrows ==
  ASSUME NEW s, NEW n, NEW S, NEW T, S \subseteq T, Row(s, n, S)
  PROVE  Row(s, n, T)
BY DEF Row, CellOK, Last

LEMMA BlockGrows ==
  ASSUME NEW b, NEW pos, NEW m, NEW n, NEW S, NEW T, S \subseteq T, Block(b, pos, m, n, S)
  PROVE  Block(b, pos, m, n, T)
BY DEF Block, CellOK, Last

LEMMA RowNothing ==
  ASSUME NEW n, NEW S
  PROVE  Row(<<>>, n, S)
BY DEF Row

(* What is there of the cells is all that a block depends on.              *)
LEMMA BlockKeeps ==
  ASSUME NEW b, NEW c, NEW pos, NEW m, NEW n, NEW S, Block(b, pos, m, n, S),
         \A j \in 0 .. m - 1 : c[Off(pos, j)] = b[Off(pos, j)]
  PROVE  Block(c, pos, m, n, S)
BY DEF Block, CellOK

LEMMA BlockLoads ==
  ASSUME NEW pos \in Int, NEW m \in Nat, NEW n \in Int, NEW S, Block(buf, pos, m, n, S)
  PROVE  Row(Loaded(pos, m), n, S) /\ Len(Loaded(pos, m)) = m
<1>1. Len(Loaded(pos, m)) = m BY DEF Loaded
<1>2. ASSUME NEW i \in 1 .. m
      PROVE  CellOK(Loaded(pos, m)[i], Num(n, i - 1), Last(i = m, S))
  <2>1. i - 1 \in 0 .. m - 1 /\ (i - 1 = m - 1 <=> i = m) /\ pos + i - 1 = pos + (i - 1)
    OBVIOUS
  <2>2. Loaded(pos, m)[i] = buf[Off(pos, i - 1)] BY <2>1 DEF Loaded, Off
  <2>3. CellOK(buf[Off(pos, i - 1)], Num(n, i - 1), Last(i - 1 = m - 1, S))
    BY <2>1 DEF Block
  <2> QED BY <2>1, <2>2, <2>3
<1> QED BY <1>1, <1>2 DEF Row

(* A block is cut in two.                                                  *)
LEMMA BlockCut ==
  ASSUME NEW b, NEW pos \in Int, NEW m \in Nat, NEW k \in 0 .. m, NEW n \in Int, NEW S,
         Block(b, pos, m, n, S)
  PROVE  /\ Block(b, pos, k, n, Last(m = k, S))
         /\ Block(b, Off(pos, k), m - k, Num(n, k), S)
<1>1. ASSUME NEW j \in 0 .. k - 1
      PROVE  CellOK(b[Off(pos, j)], Num(n, j), Last(j = k - 1, Last(m = k, S)))
  <2>1. j \in 0 .. m - 1 /\ (j = m - 1 <=> j = k - 1 /\ m = k) OBVIOUS
  <2>2. CellOK(b[Off(pos, j)], Num(n, j), Last(j = m - 1, S)) BY <2>1 DEF Block
  <2>3. Last(j = k - 1, Last(m = k, S)) = Last(j = m - 1, S) BY <2>1 DEF Last
  <2> QED BY <2>2, <2>3
<1>2. ASSUME NEW j \in 0 .. m - k - 1
      PROVE  CellOK(b[Off(Off(pos, k), j)], Num(Num(n, k), j), Last(j = m - k - 1, S))
  <2>1. k + j \in 0 .. m - 1 /\ (k + j = m - 1 <=> j = m - k - 1) /\ j \in Int /\ k \in Int
    OBVIOUS
  <2>2. CellOK(b[Off(pos, k + j)], Num(n, k + j), Last(k + j = m - 1, S)) BY <2>1 DEF Block
  <2>3. Off(Off(pos, k), j) = Off(pos, k + j) /\ Num(Num(n, k), j) = Num(n, k + j)
    BY <2>1, OffOff, NumNum
  <2> QED BY <2>1, <2>2, <2>3
<1> QED BY <1>1, <1>2 DEF Block

(* Two blocks become one, when the first one does not ask for a reply.     *)
LEMMA BlockJoin ==
  ASSUME NEW b, NEW pos \in Int, NEW m \in Nat, NEW k \in Nat, NEW n \in Int, NEW S,
         Block(b, pos, m, n, {0}), Block(b, Off(pos, m), k, Num(n, m), S),
         k = 0 => S = {0}
  PROVE  Block(b, pos, m + k, n, S)
<1> SUFFICES ASSUME NEW j \in 0 .. m + k - 1
             PROVE  CellOK(b[Off(pos, j)], Num(n, j), Last(j = m + k - 1, S))
  BY DEF Block
<1>1. CASE j < m
  <2>1. j \in 0 .. m - 1 BY <1>1
  <2>2. CellOK(b[Off(pos, j)], Num(n, j), Last(j = m - 1, {0})) BY <2>1 DEF Block
  <2>3. Last(j = m - 1, {0}) = {0} BY DEF Last
  <2>4. j = m + k - 1 => k = 0 BY <1>1
  <2>5. Last(j = m + k - 1, S) = {0} BY <2>4 DEF Last
  <2> QED BY <2>2, <2>3, <2>5
<1>2. CASE ~(j < m)
  <2> DEFINE i == j - m
  <2>1. i \in 0 .. k - 1 /\ m + i = j /\ (i = k - 1 <=> j = m + k - 1)
        /\ i \in Int /\ m \in Int
    BY <1>2
  <2> HIDE DEF i
  <2>2. CellOK(b[Off(Off(pos, m), i)], Num(Num(n, m), i), Last(i = k - 1, S))
    BY <2>1 DEF Block
  <2>3. Off(Off(pos, m), i) = Off(pos, m + i) /\ Num(Num(n, m), i) = Num(n, m + i)
    BY <2>1, OffOff, NumNum
  <2> QED BY <2>1, <2>2, <2>3
<1> QED BY <1>1, <1>2

(* The decoder takes the first part of a row.                              *)
LEMMA RowDrop ==
  ASSUME NEW d \in Seq(Cells), NEW r \in Seq(Cells), NEW n \in Int, NEW S, Row(d \o r, n, S)
  PROVE  /\ Row(r, Num(n, Len(d)), S)
         /\ \A i \in 1 .. Len(d) :
              CellOK(d[i], Num(n, i - 1), Last(i = Len(d) /\ r = <<>>, S))
<1> DEFINE s == d \o r
<1>1. /\ Len(s) = Len(d) + Len(r)
      /\ \A i \in 1 .. Len(d) + Len(r) : s[i] = IF i <= Len(d) THEN d[i] ELSE r[i - Len(d)]
      /\ Len(d) \in Nat /\ Len(r) \in Nat
  BY ConcatProperties, LenProperties
<1>2. \A i \in 1 .. Len(s) : CellOK(s[i], Num(n, i - 1), Last(i = Len(s), S)) BY DEF Row
<1> HIDE DEF s
<1>3. ASSUME NEW i \in 1 .. Len(r)
      PROVE  CellOK(r[i], Num(Num(n, Len(d)), i - 1), Last(i = Len(r), S))
  <2>0. Len(s) = Len(d) + Len(r) /\ Len(d) \in Nat /\ Len(r) \in Nat BY <1>1
  <2>1. Len(d) + i \in 1 .. Len(s) /\ (Len(d) + i = Len(s) <=> i = Len(r))
        /\ i - 1 \in Int /\ Len(d) \in Int /\ Len(d) + i - 1 = Len(d) + (i - 1)
    BY <2>0
  <2>2. s[Len(d) + i] = r[i] BY <1>1, <2>1
  <2>3. CellOK(s[Len(d) + i], Num(n, Len(d) + i - 1), Last(Len(d) + i = Len(s), S))
    BY <1>2, <2>1
  <2>4. Num(n, Len(d) + i - 1) = Num(Num(n, Len(d)), i - 1) BY <2>1, NumNum
  <2> QED BY <2>1, <2>2, <2>3, <2>4
<1>4. ASSUME NEW i \in 1 .. Len(d)
      PROVE  CellOK(d[i], Num(n, i - 1), Last(i = Len(d) /\ r = <<>>, S))
  <2>1. i \in 1 .. Len(s) /\ s[i] = d[i] BY <1>1
  <2>2. Len(r) = 0 <=> r = <<>> BY EmptySeq
  <2>3. i = Len(s) <=> i = Len(d) /\ r = <<>> BY <1>1, <2>2
  <2>4. CellOK(s[i], Num(n, i - 1), Last(i = Len(s), S)) BY <1>2, <2>1
  <2> QED BY <2>1, <2>3, <2>4
<1> QED BY <1>3, <1>4 DEF Row

-----------------------------------------------------------------------------
(***************************************************************************)
(* What the calls do to the stream.                                        *)
(***************************************************************************)
LEMMA StreamGrows ==
  ASSUME NEW b, NEW read, NEW n, NEW q, NEW t, NEW ring, NEW t3, NEW S, NEW T, NEW F, NEW G,
         S \subseteq T, F \subseteq G, Stream(b, read, n, q, t, ring, t3, S, F)
  PROVE  Stream(b, read, n, q, t, ring, t3, T, G)
<1>1. PICK at \in [1 .. Len(q) + 1 -> 0 .. Numbers - 1] :
        StreamAt(b, read, n, q, t, ring, t3, S, F, at)
  BY DEF Stream
<1>2. Row(read, n, Last(Len(q) = t /\ ring.len = t3, T))
  BY <1>1, RowGrows, LastGrows DEF StreamAt
<1>3. SlotRow(b, q, t, at, T)
  <2>1. \A k \in t + 1 .. Len(q) : Last(k = Len(q), S) \subseteq Last(k = Len(q), T)
    BY LastGrows
  <2> QED BY <1>1, <2>1, BlockGrows DEF StreamAt, SlotRow
<1>4. Block(b, Off(ring.pos, t3), ring.len - t3, at[Len(q) + 1], T)
  BY <1>1, BlockGrows DEF StreamAt
<1>5. StreamAt(b, read, n, q, t, ring, t3, T, G, at) BY <1>1, <1>2, <1>3, <1>4 DEF StreamAt
<1> QED BY <1>5 DEF Stream

LEMMA StreamKeeps ==
  ASSUME NEW b, NEW c, NEW read, NEW n, NEW q, NEW t, NEW ring, NEW t3, NEW S, NEW F,
         Stream(b, read, n, q, t, ring, t3, S, F),
         \A k \in t + 1 .. Len(q) : \A j \in 0 .. q[k].size - 1 :
           c[Off(q[k].offset, j)] = b[Off(q[k].offset, j)],
         \A j \in 0 .. ring.len - t3 - 1 :
           c[Off(Off(ring.pos, t3), j)] = b[Off(Off(ring.pos, t3), j)]
  PROVE  Stream(c, read, n, q, t, ring, t3, S, F)
<1>1. PICK at \in [1 .. Len(q) + 1 -> 0 .. Numbers - 1] :
        StreamAt(b, read, n, q, t, ring, t3, S, F, at)
  BY DEF Stream
<1>2. ASSUME NEW k \in t + 1 .. Len(q)
      PROVE  /\ at[k + 1] = Num(at[k], q[k].size)
             /\ Block(c, q[k].offset, q[k].size, at[k], Last(k = Len(q), S))
  <2>1. /\ at[k + 1] = Num(at[k], q[k].size)
        /\ Block(b, q[k].offset, q[k].size, at[k], Last(k = Len(q), S))
    BY <1>1 DEF StreamAt, SlotRow
  <2>2. \A j \in 0 .. q[k].size - 1 : c[Off(q[k].offset, j)] = b[Off(q[k].offset, j)]
    OBVIOUS
  <2> QED BY <2>1, <2>2, BlockKeeps
<1>3. Block(c, Off(ring.pos, t3), ring.len - t3, at[Len(q) + 1], S)
  BY <1>1, BlockKeeps DEF StreamAt
<1>4. StreamAt(c, read, n, q, t, ring, t3, S, F, at)
  <2>1. SlotRow(c, q, t, at, S) BY <1>2, Zenon DEF SlotRow
  <2> QED BY <1>1, <1>3, <2>1, Zenon DEF StreamAt
<1> QED BY <1>4 DEF Stream

(* The guest hands over a slot (type1Write).                               *)
LEMMA StreamSlot ==
  ASSUME NEW b, NEW read, NEW n, NEW q \in Seq(Slot), NEW t \in Nat, NEW ring \in Ring,
         NEW S, NEW f \in 0 .. Numbers - 1, ring.len = 0, NEW slot \in Slot,
         Stream(b, read, n, q, t, ring, 0, {0}, {f}),
         Block(b, slot.offset, slot.size, f, S)
  PROVE  Stream(b, read, n, Append(q, slot), t, ring, 0, S, {Num(f, slot.size)})
<1>1. PICK at \in [1 .. Len(q) + 1 -> 0 .. Numbers - 1] :
        StreamAt(b, read, n, q, t, ring, 0, {0}, {f}, at)
  BY DEF Stream
<1> DEFINE p == Append(q, slot)
           g == Num(f, slot.size)
           to == [i \in 1 .. Len(q) + 2 |-> IF i <= Len(q) + 1 THEN at[i] ELSE g]
<1>2. /\ Len(q) \in Nat /\ Len(p) = Len(q) + 1 /\ p[Len(q) + 1] = slot
      /\ \A k \in 1 .. Len(q) : p[k] = q[k]
  BY AppendProperties, LenProperties
<1>3. t <= Len(q) BY <1>1 DEF StreamAt
<1>4. at[Len(q) + 1] = f
  <2>1. at[Len(q) + 1] \in 0 .. Numbers - 1 BY <1>2
  <2>2. Num(at[Len(q) + 1], ring.len - 0) = f BY <1>1 DEF StreamAt
  <2> QED BY <2>1, <2>2, NumZero
<1>5. slot.size \in Int /\ g \in 0 .. Numbers - 1
  <2>1. slot.size \in Int BY SizePositive DEF Slot
  <2>2. f \in Int BY SizePositive
  <2> QED BY <2>1, <2>2, NumRange
<1>6. g = Num(f, slot.size) OBVIOUS
<1> HIDE DEF p, g
<1>7. /\ to \in [1 .. Len(p) + 1 -> 0 .. Numbers - 1]
      /\ \A i \in 1 .. Len(q) + 1 : to[i] = at[i]
      /\ to[Len(q) + 2] = g
  BY <1>2, <1>5
<1> HIDE DEF to
<1>8. Row(read, n, Last(Len(p) = t /\ ring.len = 0, S))
  <2>1. Row(read, n, Last(Len(q) = t /\ ring.len = 0, {0})) BY <1>1 DEF StreamAt
  <2>2. Len(p) # t BY <1>2, <1>3
  <2> QED BY <2>1, <2>2 DEF Last
<1>9. to[t + 1] = Num(n, Len(read))
  <2>1. t + 1 \in 1 .. Len(q) + 1 BY <1>2, <1>3
  <2> QED BY <1>1, <1>7, <2>1 DEF StreamAt
<1>10. ASSUME NEW k \in t + 1 .. Len(p)
       PROVE  /\ to[k + 1] = Num(to[k], p[k].size)
              /\ Block(b, p[k].offset, p[k].size, to[k], Last(k = Len(p), S))
  <2>1. CASE k <= Len(q)
    <3>1. k \in t + 1 .. Len(q) /\ k \in 1 .. Len(q) /\ k + 1 \in 1 .. Len(q) + 1
          /\ k \in 1 .. Len(q) + 1 /\ k # Len(p)
      BY <1>2, <2>1
    <3>2. /\ at[k + 1] = Num(at[k], q[k].size)
          /\ Block(b, q[k].offset, q[k].size, at[k], Last(k = Len(q), {0}))
      BY <1>1, <3>1 DEF StreamAt, SlotRow
    <3>3. Last(k = Len(q), {0}) = Last(k = Len(p), S) BY <3>1 DEF Last
    <3> QED BY <1>2, <1>7, <3>1, <3>2, <3>3
  <2>2. CASE ~(k <= Len(q))
    <3>1. k = Len(q) + 1 /\ k + 1 = Len(q) + 2 /\ k = Len(p) /\ k \in 1 .. Len(q) + 1
      BY <1>2, <2>2
    <3>2. Last(k = Len(p), S) = S BY <3>1 DEF Last
    <3> QED BY <1>2, <1>4, <1>6, <1>7, <3>1, <3>2
  <2> QED BY <2>1, <2>2
<1>11. Block(b, Off(ring.pos, 0), ring.len - 0, to[Len(p) + 1], S) BY DEF Block
<1>12. Num(to[Len(p) + 1], ring.len - 0) \in {g}
  <2>1. to[Len(p) + 1] = g BY <1>2, <1>7
  <2> QED BY <1>5, <2>1, NumZero
<1>13. StreamAt(b, read, n, p, t, ring, 0, S, {g}, to)
  BY <1>2, <1>3, <1>8, <1>9, <1>10, <1>11, <1>12 DEF StreamAt, SlotRow
<1>14. Stream(b, read, n, p, t, ring, 0, S, {g}) BY <1>7, <1>13 DEF Stream
<1> QED BY <1>6, <1>14 DEF p

(* It pushes a chunk into the large ring.                                  *)
LEMMA StreamChunk ==
  ASSUME NEW b, NEW read, NEW n, NEW ring \in Ring, NEW more, NEW t3 \in Nat,
         NEW S, NEW f \in 0 .. Numbers - 1, NEW k \in Nat, k = 0 => S = {0},
         more.pos = ring.pos, more.len = ring.len + k,
         Stream(b, read, n, <<>>, 0, ring, t3, {0}, {f}),
         Block(b, Off(ring.pos, ring.len), k, f, S)
  PROVE  Stream(b, read, n, <<>>, 0, more, t3, S, {Num(f, k)})
<1>1. PICK at \in [1 .. Len(<<>>) + 1 -> 0 .. Numbers - 1] :
        StreamAt(b, read, n, <<>>, 0, ring, t3, {0}, {f}, at)
  BY DEF Stream
<1>2. Len(<<>>) = 0 OBVIOUS
<1> DEFINE a == at[1]  m == ring.len - t3
<1>3. a \in 0 .. Numbers - 1 /\ a \in Int BY <1>1, <1>2, SizePositive
<1>4. /\ t3 <= ring.len /\ Row(read, n, Last(Len(<<>>) = 0 /\ ring.len = t3, {0}))
      /\ a = Num(n, Len(read)) /\ SlotRow(b, <<>>, 0, at, {0})
      /\ Block(b, Off(ring.pos, t3), m, a, {0}) /\ Num(a, m) = f
  BY <1>1, <1>2 DEF StreamAt
<1>5. /\ ring.len \in Nat /\ ring.pos \in Int /\ m \in Nat /\ m \in Int /\ t3 + m = ring.len
      /\ more.len - t3 = m + k /\ t3 <= more.len
  BY <1>4, SizePositive DEF Ring
<1> HIDE DEF a, m
<1>m. m \in Int /\ ring.pos \in Int /\ t3 + m = ring.len BY <1>5
<1>t. t3 \in Int OBVIOUS
<1>6. Off(Off(ring.pos, t3), m) = Off(ring.pos, ring.len)
  <2>1. Off(Off(ring.pos, t3), m) = Off(ring.pos, t3 + m) BY <1>m, <1>t, OffOff
  <2> QED BY <2>1, <1>m
<1>7. Off(ring.pos, t3) \in Int
  <2>1. Off(ring.pos, t3) \in 0 .. Size - 1 BY <1>m, <1>t, OffRange
  <2> QED BY <2>1
<1>8. Block(b, Off(ring.pos, t3), m + k, a, S)
  BY <1>3, <1>4, <1>5, <1>6, <1>7, BlockJoin
<1>9. Num(a, m + k) = Num(f, k) BY <1>3, <1>4, <1>5, NumNum
<1>10. Row(read, n, Last(Len(<<>>) = 0 /\ more.len = t3, S))
  <2>1. Row(read, n, {0}) BY <1>4 DEF Last
  <2>2. more.len = t3 => k = 0 BY <1>5
  <2> QED BY <2>1, <2>2 DEF Last
<1>11. SlotRow(b, <<>>, 0, at, S) BY <1>2 DEF SlotRow
<1>12. StreamAt(b, read, n, <<>>, 0, more, t3, S, {Num(f, k)}, at)
  BY <1>2, <1>4, <1>5, <1>8, <1>9, <1>10, <1>11 DEF StreamAt, a
<1> QED BY <1>1, <1>12 DEF Stream

(* The host reads the first slot (type1Read), ...                          *)
LEMMA StreamTakeSlot ==
  ASSUME NEW n \in 0 .. Numbers - 1, NEW q \in Seq(Slot), NEW ring \in Ring, NEW S, NEW F,
         ring.len = 0, q # <<>>, Stream(buf, <<>>, n, q, 0, ring, 0, S, F)
  PROVE  Stream(buf, Loaded(q[1].offset, q[1].size), n, q, 1, ring, 0, S, F)
<1>1. PICK at \in [1 .. Len(q) + 1 -> 0 .. Numbers - 1] :
        StreamAt(buf, <<>>, n, q, 0, ring, 0, S, F, at)
  BY DEF Stream
<1>2. Len(q) \in Nat /\ Len(q) >= 1 /\ q[1] \in Slot BY LenProperties, EmptySeq, ElementOfSeq
<1>3. q[1].offset \in Int /\ q[1].size \in Nat BY <1>2, SizePositive DEF Slot
<1>4. at[1] = n
  <2>1. at[0 + 1] = Num(n, Len(<<>>)) BY <1>1 DEF StreamAt
  <2> QED BY <2>1, NumZero
<1>5. /\ at[1 + 1] = Num(n, q[1].size)
      /\ Block(buf, q[1].offset, q[1].size, n, Last(1 = Len(q), S))
  <2>1. 1 \in 0 + 1 .. Len(q) BY <1>2
  <2> QED BY <1>1, <1>4, <2>1 DEF StreamAt, SlotRow
<1> DEFINE read == Loaded(q[1].offset, q[1].size)
<1>6. Row(read, n, Last(1 = Len(q), S)) /\ Len(read) = q[1].size
  <2>1. n \in Int BY SizePositive
  <2> QED BY <1>3, <1>5, <2>1, BlockLoads
<1> HIDE DEF read
<1>7. Row(read, n, Last(Len(q) = 1 /\ ring.len = 0, S)) BY <1>6 DEF Last
<1>8. SlotRow(buf, q, 1, at, S) BY <1>1, <1>2 DEF StreamAt, SlotRow
<1>9. StreamAt(buf, read, n, q, 1, ring, 0, S, F, at)
  BY <1>1, <1>2, <1>5, <1>6, <1>7, <1>8 DEF StreamAt
<1> QED BY <1>9 DEF Stream, read

(* ... and gives it back.                                                  *)
LEMMA StreamNextSlot ==
  ASSUME NEW b, NEW read, NEW n, NEW q \in Seq(Slot), NEW ring, NEW S, NEW F,
         Stream(b, read, n, q, 1, ring, 0, S, F)
  PROVE  Stream(b, read, n, Tail(q), 0, ring, 0, S, F)
<1>1. PICK at \in [1 .. Len(q) + 1 -> 0 .. Numbers - 1] :
        StreamAt(b, read, n, q, 1, ring, 0, S, F, at)
  BY DEF Stream
<1> DEFINE p == Tail(q)
           to == [i \in 1 .. Len(q) |-> at[i + 1]]
<1>2. Len(q) \in Nat /\ 1 <= Len(q) BY <1>1, LenProperties DEF StreamAt
<1>3. Len(p) = Len(q) - 1 /\ \A k \in 1 .. Len(q) - 1 : p[k] = q[k + 1]
  <2>1. q # <<>> BY <1>2
  <2> QED BY <1>2, <2>1, HeadTailProperties
<1> HIDE DEF p
<1>4. /\ to \in [1 .. Len(p) + 1 -> 0 .. Numbers - 1]
      /\ \A i \in 1 .. Len(q) : to[i] = at[i + 1]
  BY <1>2, <1>3
<1> HIDE DEF to
<1>5. Row(read, n, Last(Len(p) = 0 /\ ring.len = 0, S))
  <2>1. Row(read, n, Last(Len(q) = 1 /\ ring.len = 0, S)) BY <1>1 DEF StreamAt
  <2>2. Len(p) = 0 <=> Len(q) = 1 BY <1>2, <1>3
  <2> QED BY <2>1, <2>2 DEF Last
<1>6. to[0 + 1] = Num(n, Len(read))
  <2>1. to[1] = at[1 + 1] BY <1>2, <1>4
  <2> QED BY <1>1, <2>1 DEF StreamAt
<1>7. ASSUME NEW k \in 0 + 1 .. Len(p)
      PROVE  /\ to[k + 1] = Num(to[k], p[k].size)
             /\ Block(b, p[k].offset, p[k].size, to[k], Last(k = Len(p), S))
  <2> DEFINE l == k + 1
  <2>1. /\ l \in 1 + 1 .. Len(q) /\ k \in 1 .. Len(q) - 1 /\ k \in 1 .. Len(q)
        /\ l \in 1 .. Len(q) /\ (l = Len(q) <=> k = Len(p))
    BY <1>2, <1>3
  <2>2. to[k] = at[l] /\ to[l] = at[l + 1] /\ p[k] = q[l] BY <1>3, <1>4, <2>1
  <2>3. l = k + 1 OBVIOUS
  <2> HIDE DEF l
  <2>4. /\ at[l + 1] = Num(at[l], q[l].size)
        /\ Block(b, q[l].offset, q[l].size, at[l], Last(l = Len(q), S))
    BY <1>1, <2>1 DEF StreamAt, SlotRow
  <2>5. Last(l = Len(q), S) = Last(k = Len(p), S) BY <2>1 DEF Last
  <2> QED BY <2>2, <2>3, <2>4, <2>5
<1>8. to[Len(p) + 1] = at[Len(q) + 1]
  <2>1. Len(p) + 1 = Len(q) /\ Len(q) \in 1 .. Len(q) BY <1>2, <1>3
  <2> QED BY <1>4, <2>1
<1>9. StreamAt(b, read, n, p, 0, ring, 0, S, F, to)
  <2>1. 0 <= Len(p) BY <1>2, <1>3
  <2> QED BY <1>1, <1>5, <1>6, <1>7, <1>8, <2>1 DEF StreamAt, SlotRow
<1> QED BY <1>4, <1>9 DEF Stream, p

(* It copies cells of the large ring (type3Read), ...                      *)
LEMMA StreamCopy ==
  ASSUME NEW n \in 0 .. Numbers - 1, NEW ring \in Ring, NEW S, NEW F,
         NEW k \in 0 .. ring.len, Stream(buf, <<>>, n, <<>>, 0, ring, 0, S, F)
  PROVE  Stream(buf, Loaded(ring.pos, k), n, <<>>, 0, ring, k, S, F)
<1>1. PICK at \in [1 .. Len(<<>>) + 1 -> 0 .. Numbers - 1] :
        StreamAt(buf, <<>>, n, <<>>, 0, ring, 0, S, F, at)
  BY DEF Stream
<1>2. Len(<<>>) = 0 OBVIOUS
<1>3. /\ ring.pos \in 0 .. Size - 1 /\ ring.pos \in Int /\ ring.len \in Nat
      /\ ring.len - 0 = ring.len /\ k \in Nat /\ k <= ring.len
  BY SizePositive DEF Ring
<1>n. n \in Int BY SizePositive
<1>k. k \in Int OBVIOUS
<1>l. ring.len - k \in Int /\ k + (ring.len - k) = ring.len BY <1>3, <1>k
<1>4. at[1] = n
  <2>1. at[0 + 1] = Num(n, Len(<<>>)) BY <1>1 DEF StreamAt
  <2> QED BY <1>2, <2>1, NumZero
<1>5. Block(buf, ring.pos, ring.len, n, S) /\ Num(n, ring.len) \in F
  BY <1>1, <1>2, <1>3, <1>4, OffZero DEF StreamAt
<1>6. /\ Block(buf, ring.pos, k, n, Last(ring.len = k, S))
      /\ Block(buf, Off(ring.pos, k), ring.len - k, Num(n, k), S)
  BY <1>3, <1>5, <1>n, BlockCut
<1> DEFINE read == Loaded(ring.pos, k)
<1>7. Row(read, n, Last(ring.len = k, S)) /\ Len(read) = k BY <1>3, <1>6, <1>n, BlockLoads
<1> HIDE DEF read
<1> DEFINE to == [i \in 1 .. 1 |-> Num(n, k)]
<1>8. to \in [1 .. Len(<<>>) + 1 -> 0 .. Numbers - 1] /\ to[1] = Num(n, k)
  <2>1. Num(n, k) \in 0 .. Numbers - 1 BY <1>n, <1>k, NumRange
  <2>2. Len(<<>>) + 1 = 1 BY <1>2
  <2> HIDE DEF Num
  <2> QED BY <2>1, <2>2
<1> HIDE DEF to
<1>9. Num(Num(n, k), ring.len - k) = Num(n, ring.len)
  <2>1. Num(Num(n, k), ring.len - k) = Num(n, k + (ring.len - k)) BY <1>n, <1>k, <1>l, NumNum
  <2> QED BY <2>1, <1>l
<1>10. Row(read, n, Last(Len(<<>>) = 0 /\ ring.len = k, S)) BY <1>2, <1>7 DEF Last
<1>11. SlotRow(buf, <<>>, 0, to, S) BY <1>2 DEF SlotRow
<1>12. StreamAt(buf, read, n, <<>>, 0, ring, k, S, F, to)
  BY <1>2, <1>3, <1>5, <1>6, <1>7, <1>8, <1>9, <1>10, <1>11 DEF StreamAt
<1> QED BY <1>8, <1>12 DEF Stream, read

(* ... and advances the ring.                                              *)
LEMMA StreamAdvance ==
  ASSUME NEW b, NEW read, NEW n, NEW q, NEW t, NEW ring \in Ring, NEW left, NEW S, NEW F,
         NEW k \in 0 .. ring.len, left.pos = Off(ring.pos, k), left.len = ring.len - k,
         Stream(b, read, n, q, t, ring, k, S, F)
  PROVE  Stream(b, read, n, q, t, left, 0, S, F)
<1>1. PICK at \in [1 .. Len(q) + 1 -> 0 .. Numbers - 1] :
        StreamAt(b, read, n, q, t, ring, k, S, F, at)
  BY DEF Stream
<1>2. ring.pos \in Int /\ ring.len \in Nat /\ k \in Int /\ k <= ring.len
  BY SizePositive DEF Ring
<1>3. /\ left.len - 0 = ring.len - k /\ 0 <= left.len
      /\ (left.len = 0 <=> ring.len = k)
  BY <1>2
<1>4. Off(left.pos, 0) = Off(ring.pos, k) BY <1>2, OffRange, OffZero
<1>5. StreamAt(b, read, n, q, t, left, 0, S, F, at) BY <1>1, <1>3, <1>4 DEF StreamAt
<1> QED BY <1>5 DEF Stream

(* The decoder consumes what is in its hands.                              *)
LEMMA StreamDecode ==
  ASSUME NEW b, NEW d \in Seq(Cells), NEW r \in Seq(Cells), NEW n \in 0 .. Numbers - 1,
         NEW q, NEW t, NEW ring, NEW t3, NEW S, NEW F,
         Stream(b, d \o r, n, q, t, ring, t3, S, F)
  PROVE  Stream(b, r, Num(n, Len(d)), q, t, ring, t3, S, F)
<1>1. PICK at \in [1 .. Len(q) + 1 -> 0 .. Numbers - 1] :
        StreamAt(b, d \o r, n, q, t, ring, t3, S, F, at)
  BY DEF Stream
<1>2. n \in Int /\ Len(d) \in Int /\ Len(r) \in Int BY SizePositive, LenProperties
<1>3. Row(r, Num(n, Len(d)), Last(Len(q) = t /\ ring.len = t3, S))
  BY <1>1, <1>2, RowDrop DEF StreamAt
<1>4. at[t + 1] = Num(Num(n, Len(d)), Len(r))
  <2>1. Len(d \o r) = Len(d) + Len(r) BY ConcatProperties
  <2> QED BY <1>1, <1>2, <2>1, NumNum DEF StreamAt
<1>5. StreamAt(b, r, Num(n, Len(d)), q, t, ring, t3, S, F, at) BY <1>1, <1>3, <1>4 DEF StreamAt
<1> QED BY <1>5 DEF Stream

-----------------------------------------------------------------------------
(***************************************************************************)
(* Where the two threads are in the stream.                                *)
(***************************************************************************)
Crashed == guest.pc = "crashed"

(* How much of its call the guest has handed over.                         *)
Advanced1 == {"ping1", "after1"}
Put == IF guest.pc \in Advanced1 THEN guest.size
       ELSE IF guest.pc \in Pushing THEN guest.sent ELSE 0
Frontier == Num(guest.seq, Put)

(* Whether it has handed over the cell that asks for the reply.            *)
Requested ==
  /\ guest.reply > 0
  /\ \/ guest.pc \in {"ping1", "after1", "after3", "finish", "read", "read1", "take"}
     \/ guest.pc = "ping3" /\ guest.sent = guest.size
Due == IF Requested THEN guest.reply ELSE 0

(* A guest that died leaves the stream where it was.                       *)
Ends == IF Crashed THEN Nat ELSE {Due}
Frontiers == IF Crashed THEN 0 .. Numbers - 1 ELSE {Frontier}

Read == host.data \o host.rest
Taken1 == IF host.pc = "done1" THEN 1 ELSE 0
Taken3 == IF host.pc = "done3" THEN host.avail ELSE 0

(***************************************************************************)
(* The invariant.                                                          *)
(***************************************************************************)
StreamInv ==
  Stream(buf, Read, host.expect, to_host, Taken1, large, Taken3, Ends, Frontiers)

(* The slot is filled before it is handed over.                            *)
FilledInv ==
  guest.pc = "slot" =>
    \A j \in 0 .. guest.size - 1 :
      buf[Off(guest.slot, j)] =
        Cmd(guest.seq + j, IF j + 1 = guest.size THEN guest.reply ELSE 0)

(* The slots handed over are the last ones before the guest's own.         *)
Lag == IF guest.pc \in Advanced1 THEN 0 ELSE 1
Places(q, slot, lag) ==
  \A k \in 1 .. Len(q) : q[k].offset = Off(slot, -(Step * (Len(q) - k + lag)))
PlacesInv ==
  /\ ~Crashed => Places(to_host, guest.slot, Lag)
  /\ Len(to_host) <= maxOutstanding
  /\ to_host = <<>> \/ large.len = 0

(* The host has decoded all that was handed over.                          *)
Nothing == Read = <<>> /\ Len(to_host) = Taken1 /\ large.len = Taken3

(* The reply: asked for, or being written, or complete.                    *)
Asked == host.pc # "reply" /\ ~Nothing /\ from.len = 0 /\ guest.got = <<>>
Writing ==
  /\ host.pc = "reply" /\ host.reply = guest.reply
  /\ Len(guest.got) + from.len = host.sent
Written == host.pc # "reply" /\ Nothing /\ Len(guest.got) + from.len = guest.reply
ReplyInv ==
  /\ host.pc = "reply" => Nothing /\ host.sent < host.reply
  /\ ~Crashed /\ ~Requested => host.pc # "reply" /\ from.len = 0
  /\ Requested => Asked \/ Writing \/ Written

(* What is in the ring goes on where the guest is.                         *)
FromInv ==
  ~Crashed => \A j \in 0 .. from.len - 1 :
                buf[Off(from.pos, j)] = Reply(Frontier - 1, Len(guest.got) + j + 1)

AsyncPcs == {"large", "large1", "start", "chunk", "ping3", "after3"}
GotInv ==
  /\ RepliesInOrder
  /\ guest.pc \notin {"idle", "read", "read1", "take"} => guest.got = <<>>
  /\ guest.pc \in {"read", "read1", "take"} => guest.reply > 0
  /\ guest.async => guest.reply = 0 /\ guest.pc \in AsyncPcs

Ordered == StreamInv /\ FilledInv /\ PlacesInv /\ ReplyInv /\ FromInv /\ GotInv
Known == Basics /\ States

-----------------------------------------------------------------------------
(***************************************************************************)
(* The guest's steps that leave the rings alone.                           *)
(***************************************************************************)
GuestView ==
  /\ ~Crashed /\ ~Crashed' /\ Frontier' = Frontier
  /\ Requested' <=> Requested
  /\ Requested => guest'.reply = guest.reply /\ guest'.got = guest.got
  /\ guest'.pc # "slot" /\ KeepsRings /\ UNCHANGED host

LEMMA GotTyped ==
  ASSUME Typed
  PROVE  /\ guest.pc \in GuestPcs /\ guest.size \in Nat /\ guest.reply \in Nat
         /\ guest.sent \in Nat /\ guest.slot \in 0 .. Size - 1 /\ guest.slot \in Int
         /\ guest.seq \in 0 .. Numbers - 1 /\ guest.seq \in Int
         /\ guest.got \in Seq(Cells) /\ guest.async \in BOOLEAN
BY SizePositive DEF Typed, Guests

LEMMA PutTyped ==
  ASSUME Typed
  PROVE  Put \in Nat /\ Frontier \in 0 .. Numbers - 1 /\ Frontier \in Int /\ Due \in Nat
<1>1. Put \in Nat /\ Put \in Int /\ Due \in Nat BY GotTyped DEF Put, Due
<1>2. Frontier \in 0 .. Numbers - 1
  <2>1. guest.seq \in Int BY GotTyped
  <2> QED BY <1>1, <2>1, NumRange DEF Frontier
<1>3. Numbers \in Nat BY SizePositive
<1> QED BY <1>1, <1>2, <1>3

LEMMA ViewStarts ==
  ASSUME NEW place, NEW size, NEW reply, NEW async, Known, guest.pc = "idle",
         KeepsRings, UNCHANGED host, place \in {"alloc", "large", "close"},
         StartsCall(place, size, reply, async)
  PROVE  GuestView
BY DEF GuestView, StartsCall, Crashed, Frontier, Put, Requested, Advanced1, Pushing

(* The steps of a call that only move on.                                  *)
Moves(p, q) ==
  \/ p = q /\ p \in {"alloc", "large", "finish", "read", "close"}
  \/ <<p, q>> \in {<<"alloc", "fill">>, <<"large", "large1">>, <<"read", "read1">>,
                   <<"close", "close1">>, <<"large1", "start">>, <<"read1", "take">>,
                   <<"close1", "closed">>, <<"ping1", "after1">>, <<"start", "chunk">>,
                   <<"after3", "finish">>}

LEMMA ViewMoves ==
  ASSUME Known, KeepsRings, UNCHANGED host, KeepsCall, Moves(guest.pc, guest'.pc)
  PROVE  GuestView
<1>1. guest.pc \notin Pushing => guest.sent = 0 BY DEF Known, Basics, GuestSizes
<1>2. Put' = Put BY <1>1 DEF Put, Advanced1, Pushing, KeepsCall, Moves
<1>3. Frontier' = Frontier BY <1>2 DEF Frontier, KeepsCall
<1> QED BY <1>3 DEF GuestView, Crashed, Requested, KeepsCall, Moves

LEMMA ViewPing3 ==
  ASSUME Known, PingType3
  PROVE  GuestView
<1>1. /\ guest.pc = "ping3" /\ KeepsRings /\ KeepsCall /\ UNCHANGED host
      /\ guest'.pc = IF guest.sent < guest.size THEN "chunk" ELSE "after3"
  BY DoPingType3 DEF Known, Basics
<1>2. guest.sent <= guest.size /\ guest.sent \in Nat /\ guest.size \in Nat
  BY <1>1, GotTyped DEF Known, Basics, GuestSizes
<1>3. Put' = Put BY <1>1 DEF Put, Advanced1, Pushing, KeepsCall
<1>4. Frontier' = Frontier BY <1>1, <1>3 DEF Frontier, KeepsCall
<1>5. Requested' <=> Requested BY <1>1, <1>2 DEF Requested, KeepsCall
<1> QED BY <1>1, <1>4, <1>5 DEF GuestView, Crashed, KeepsCall

LEMMA ViewEnds ==
  ASSUME Known, GotInv, EndsSending, KeepsRings, UNCHANGED host,
         guest.pc \in {"after1", "after3", "finish"}
  PROVE  GuestView
<1>1. Put = guest.size /\ guest.got = <<>>
  BY DEF Known, Basics, GuestSizes, Put, Advanced1, Pushing, GotInv
<1>2. Frontier = guest'.seq BY <1>1 DEF Frontier, Num, EndsSending
<1>3. Put' = 0 BY DEF Put, Advanced1, Pushing, EndsSending
<1>4. Frontier \in 0 .. Numbers - 1 BY PutTyped DEF Known, Basics
<1>5. Frontier' = Frontier BY <1>2, <1>3, <1>4, NumZero DEF Frontier
<1>6. Requested' <=> Requested BY DEF Requested, EndsSending
<1> QED BY <1>1, <1>5, <1>6 DEF GuestView, Crashed, EndsSending

LEMMA GotStarts ==
  ASSUME NEW place, NEW size, NEW reply, NEW async, GotInv, guest.pc = "idle",
         place \in {"alloc", "large", "close"}, StartsCall(place, size, reply, async),
         \/ async = guest.async
         \/ place = "large" /\ (async => reply = 0)
  PROVE  GotInv'
BY DEF GotInv, RepliesInOrder, StartsCall, AsyncPcs

LEMMA GotMoves ==
  ASSUME GotInv, KeepsCall,
         guest'.pc \in {"idle", "read", "read1", "take"}
           => guest.pc \in {"idle", "read", "read1", "take"} /\ guest.reply > 0,
         guest'.pc \notin {"idle", "read", "read1", "take"}
           => guest.pc \notin {"idle", "read", "read1", "take"},
         guest.async /\ guest.pc \in AsyncPcs => guest'.pc \in AsyncPcs
  PROVE  GotInv'
BY DEF GotInv, RepliesInOrder, KeepsCall

LEMMA GotEnds ==
  ASSUME GotInv, EndsSending
  PROVE  GotInv'
BY DEF GotInv, RepliesInOrder, EndsSending

LEMMA GotKeeps ==
  ASSUME GotInv, UNCHANGED guest
  PROVE  GotInv'
BY DEF GotInv, RepliesInOrder

LEMMA PlacesKeep ==
  ASSUME PlacesInv, ~Crashed, guest'.slot = guest.slot, Lag' = Lag, UNCHANGED <<to_host, large>>
  PROVE  PlacesInv'
BY DEF PlacesInv

LEMMA PlacesAdvance ==
  ASSUME Known, PlacesInv, ~Crashed, guest.pc = "after1",
         guest'.pc \notin Advanced1, guest'.slot = (guest.slot + Step) % Size,
         UNCHANGED <<to_host, large>>
  PROVE  PlacesInv'
<1> DEFINE s == guest.slot  t == guest'.slot  n == Len(to_host)
<1>1. s \in Int /\ t = Off(s, Step) /\ n \in Nat /\ Step \in Int
  BY GotTyped, SizePositive, LenProperties DEF Known, Basics, Typed, Off
<1>2. Lag = 0 /\ Lag' = 1 BY DEF Lag, Advanced1
<1>3. \A k \in 1 .. n : to_host[k].offset = Off(s, -(Step * (n - k + 0)))
  BY <1>2 DEF PlacesInv, Places
<1> HIDE DEF s, t, n
<1>4. ASSUME NEW k \in 1 .. n PROVE to_host[k].offset = Off(t, -(Step * (n - k + 1)))
  <2> DEFINE d == n - k
             x == Step * d
             y == Step * (d + 1)
  <2>1. d \in Int BY <1>1
  <2>2. n - k + 0 = d /\ n - k + 1 = d + 1 BY <1>1
  <2> HIDE DEF d
  <2>3. x \in Int /\ y \in Int /\ Step + -y = -x BY <1>1, <2>1
  <2>4. to_host[k].offset = Off(s, -x) BY <1>3, <2>2
  <2> HIDE DEF x, y
  <2>5. -y \in Int BY <2>3
  <2>6. Off(Off(s, Step), -y) = Off(s, Step + -y) BY <1>1, <2>5, OffOff
  <2>7. Off(t, -y) = to_host[k].offset BY <1>1, <2>3, <2>4, <2>6
  <2> QED BY <2>2, <2>7 DEF y
<1>5. Places(to_host, t, 1) BY <1>4 DEF Places, n
<1> QED BY <1>2, <1>5 DEF PlacesInv, t


LEMMA QuietGuest ==
  ASSUME Known, Ordered,
         \/ \E size \in Sends, reply \in Replies :
              allocBuffer(size, reply) \/ write(size, reply, FALSE)
         \/ \E size \in Sends : write(size, 0, TRUE)
         \/ Close \/ ensureType3Finished \/ ensureType1Finished \/ PingType1
         \/ AfterType1Write \/ StartLarge \/ PingType3 \/ AfterLarge
  PROVE  GuestView /\ GotInv' /\ PlacesInv'
<1>1. Typed /\ GotInv /\ PlacesInv BY DEF Known, Basics, Ordered
<1>2. ASSUME NEW place, NEW size, NEW reply, NEW async,
             guest.pc = "idle", KeepsRings, UNCHANGED host,
             place \in {"alloc", "large", "close"}, StartsCall(place, size, reply, async),
             \/ async = guest.async
             \/ place = "large" /\ (async => reply = 0)
      PROVE  GuestView /\ GotInv' /\ PlacesInv'
  <2>1. GuestView BY <1>2, ViewStarts
  <2>2. GotInv' BY <1>1, <1>2, GotStarts
  <2>3. guest'.slot = guest.slot /\ Lag' = Lag /\ UNCHANGED <<to_host, large>>
    BY <1>2 DEF StartsCall, Lag, Advanced1, KeepsRings
  <2>4. PlacesInv' BY <1>1, <1>2, <2>3, PlacesKeep DEF Crashed
  <2> QED BY <2>1, <2>2, <2>4
<1>3. ASSUME KeepsRings, UNCHANGED host, KeepsCall, Moves(guest.pc, guest'.pc),
             guest.pc = "after3" => ~guest.async
      PROVE  GuestView /\ GotInv' /\ PlacesInv'
  <2>1. GuestView BY <1>3, ViewMoves
  <2>2. /\ guest'.pc \in {"idle", "read", "read1", "take"}
              => guest.pc \in {"idle", "read", "read1", "take"} /\ guest.reply > 0
        /\ guest'.pc \notin {"idle", "read", "read1", "take"}
              => guest.pc \notin {"idle", "read", "read1", "take"}
        /\ guest.async /\ guest.pc \in AsyncPcs => guest'.pc \in AsyncPcs
    BY <1>1, <1>3 DEF GotInv, Moves, AsyncPcs
  <2>3. GotInv' BY <1>1, <1>3, <2>2, GotMoves
  <2>4. guest'.slot = guest.slot /\ Lag' = Lag /\ UNCHANGED <<to_host, large>>
    BY <1>3 DEF KeepsCall, Lag, Advanced1, KeepsRings, Moves
  <2>5. ~Crashed BY <1>3 DEF Crashed, Moves
  <2>6. PlacesInv' BY <1>1, <2>4, <2>5, PlacesKeep
  <2> QED BY <2>1, <2>3, <2>6
<1>4. ASSUME EndsSending, KeepsRings, UNCHANGED host, guest'.slot = guest.slot,
             guest.pc \in {"after3", "finish"}
      PROVE  GuestView /\ GotInv' /\ PlacesInv'
  <2>1. GuestView BY <1>1, <1>4, ViewEnds
  <2>2. GotInv' BY <1>1, <1>4, GotEnds
  <2>3. Lag' = Lag /\ UNCHANGED <<to_host, large>> /\ ~Crashed
    BY <1>4 DEF EndsSending, Lag, Advanced1, KeepsRings, Crashed
  <2>4. PlacesInv' BY <1>1, <1>4, <2>3, PlacesKeep
  <2> QED BY <2>1, <2>2, <2>4
<1>5. ASSUME NEW size \in Sends, NEW reply \in Replies, allocBuffer(size, reply)
      PROVE  GuestView /\ GotInv' /\ PlacesInv'
  <2>1. /\ guest.pc = "idle" /\ KeepsRings /\ UNCHANGED host
        /\ StartsCall("alloc", size, reply, guest.async)
    BY <1>1, <1>5, DoCall
  <2> QED BY <1>2, <2>1
<1>6. ASSUME NEW size \in Sends, NEW reply \in Nat, NEW async \in BOOLEAN,
             write(size, reply, async), async => reply = 0
      PROVE  GuestView /\ GotInv' /\ PlacesInv'
  <2>1. /\ guest.pc = "idle" /\ KeepsRings /\ UNCHANGED host
        /\ StartsCall("large", size, reply, async)
    BY <1>1, <1>6, DoCall
  <2> QED BY <1>2, <1>6, <2>1
<1>7. ASSUME Close PROVE GuestView /\ GotInv' /\ PlacesInv'
  <2>1. /\ guest.pc = "idle" /\ KeepsRings /\ UNCHANGED host
        /\ StartsCall("close", guest.size, guest.reply, guest.async)
    BY <1>1, <1>7, DoCall
  <2> QED BY <1>2, <2>1
<1>8. ASSUME ensureType3Finished PROVE GuestView /\ GotInv' /\ PlacesInv'
  <2>1. /\ KeepsRings /\ UNCHANGED <<host, transfer_size>>
        /\ \/ /\ guest.pc \in {"alloc", "large", "finish", "read", "close"}
              /\ guest'.pc = guest.pc /\ KeepsCall /\ large.len # 0
           \/ /\ large.len = 0 /\ KeepsCall
              /\ <<guest.pc, guest'.pc>> \in {<<"alloc", "fill">>, <<"large", "large1">>,
                                              <<"read", "read1">>, <<"close", "close1">>}
           \/ /\ large.len = 0 /\ guest.pc = "finish"
              /\ EndsSending /\ guest'.slot = guest.slot
    BY <1>1, <1>8, DoEnsureType3, Zenon
  <2>2. CASE EndsSending /\ guest'.slot = guest.slot /\ guest.pc = "finish"
    BY <1>4, <2>1, <2>2
  <2>3. CASE /\ guest.pc \in {"alloc", "large", "finish", "read", "close"}
             /\ guest'.pc = guest.pc /\ KeepsCall
    BY <1>3, <2>1, <2>3 DEF Moves
  <2>4. CASE /\ KeepsCall
             /\ <<guest.pc, guest'.pc>> \in {<<"alloc", "fill">>, <<"large", "large1">>,
                                             <<"read", "read1">>, <<"close", "close1">>}
    BY <1>3, <2>1, <2>4 DEF Moves
  <2> QED BY <2>1, <2>2, <2>3, <2>4
<1>9. ASSUME ensureType1Finished PROVE GuestView /\ GotInv' /\ PlacesInv'
  <2>1. /\ KeepsRings /\ KeepsCall /\ UNCHANGED <<host, transfer_size>>
        /\ <<guest.pc, guest'.pc>> \in {<<"large1", "start">>, <<"read1", "take">>,
                                        <<"close1", "closed">>}
    BY <1>1, <1>9, DoEnsureType1, Zenon
  <2> QED BY <1>3, <2>1 DEF Moves
<1>10. ASSUME PingType1 PROVE GuestView /\ GotInv' /\ PlacesInv'
  <2>1. guest.pc = "ping1" /\ guest'.pc = "after1" /\ KeepsCall
        /\ KeepsRings /\ UNCHANGED host
    BY <1>1, <1>10, GuestFields DEF PingType1, Typed, KeepsRings, shared
  <2> QED BY <1>3, <2>1 DEF Moves
<1>11. ASSUME AfterType1Write PROVE GuestView /\ GotInv' /\ PlacesInv'
  <2>1. /\ guest.pc = "after1" /\ KeepsRings /\ EndsSending
        /\ guest'.slot = (guest.slot + Step) % Size /\ UNCHANGED <<host, transfer_size>>
    BY <1>1, <1>11, DoAfterType1Write, Zenon
  <2>2. GuestView BY <1>1, <2>1, ViewEnds
  <2>3. GotInv' BY <1>1, <2>1, GotEnds
  <2>4. guest'.pc \notin Advanced1 /\ UNCHANGED <<to_host, large>> /\ ~Crashed
    BY <2>1 DEF EndsSending, Advanced1, KeepsRings, Crashed
  <2>5. PlacesInv' BY <1>1, <2>1, <2>4, PlacesAdvance
  <2> QED BY <2>2, <2>3, <2>5
<1>12. ASSUME StartLarge PROVE GuestView /\ GotInv' /\ PlacesInv'
  <2>1. guest.pc = "start" /\ guest'.pc = "chunk" /\ KeepsCall
        /\ KeepsRings /\ UNCHANGED host
    BY <1>1, <1>12, GuestFields DEF StartLarge, Typed, KeepsRings
  <2> QED BY <1>3, <2>1 DEF Moves
<1>13. ASSUME PingType3 PROVE GuestView /\ GotInv' /\ PlacesInv'
  <2>1. /\ guest.pc = "ping3" /\ KeepsRings /\ KeepsCall
        /\ guest'.pc = IF guest.sent < guest.size THEN "chunk" ELSE "after3"
    BY <1>1, <1>13, DoPingType3
  <2>2. GuestView BY <1>13, ViewPing3
  <2>3. guest'.pc \in {"chunk", "after3"} BY <2>1
  <2>4. GotInv' BY <1>1, <2>1, <2>3, GotMoves DEF AsyncPcs
  <2>5. guest'.slot = guest.slot /\ Lag' = Lag /\ UNCHANGED <<to_host, large>> /\ ~Crashed
    BY <2>1, <2>3 DEF KeepsCall, Lag, Advanced1, KeepsRings, Crashed
  <2>6. PlacesInv' BY <1>1, <2>5, PlacesKeep
  <2> QED BY <2>2, <2>4, <2>6
<1>14. ASSUME AfterLarge PROVE GuestView /\ GotInv' /\ PlacesInv'
  <2>1. /\ guest.pc = "after3" /\ KeepsRings /\ UNCHANGED <<host, transfer_size>>
        /\ \/ guest.async /\ EndsSending /\ guest'.slot = guest.slot
           \/ ~guest.async /\ guest'.pc = "finish" /\ KeepsCall
    BY <1>1, <1>14, DoAfterLarge, Zenon
  <2>2. CASE guest.async /\ EndsSending /\ guest'.slot = guest.slot
    BY <1>4, <2>1, <2>2
  <2>3. CASE ~guest.async /\ guest'.pc = "finish" /\ KeepsCall
    BY <1>3, <2>1, <2>3 DEF Moves
  <2> QED BY <2>1, <2>2, <2>3
<1> QED
  BY <1>5, <1>6, <1>7, <1>8, <1>9, <1>10, <1>11, <1>12, <1>13, <1>14, CallAssumption

-----------------------------------------------------------------------------
(***************************************************************************)
(* The host's steps that leave the stream where it is.                     *)
(***************************************************************************)
HostView ==
  /\ Read' = Read /\ host'.expect = host.expect
  /\ host'.reply = host.reply /\ host'.sent = host.sent
  /\ Taken1' = Taken1 /\ Taken3' = Taken3
  /\ host'.pc = "reply" <=> host.pc = "reply"
  /\ KeepsRings /\ UNCHANGED guest

LEMMA ViewLoop ==
  ASSUME KeepsData, KeepsRings, UNCHANGED guest,
         host.pc \notin {"done1", "done3", "reply"}, host'.pc \notin {"done1", "done3", "reply"}
  PROVE  HostView
BY DEF HostView, KeepsData, Read, Taken1, Taken3

LEMMA QuietHost ==
  ASSUME Known,
         \/ \E want \in Wants : readRaw(want)
         \/ TopOfLoop \/ CheckSmall \/ CheckLarge \/ type3Read \/ FoundNothing
         \/ Spin \/ Sleep \/ Wake \/ WakeToExit \/ Return \/ Destroy
  PROVE  HostView
<1>1. Typed /\ HostData /\ host \in Hosts BY DEF Known, Basics, Typed
<1>2. ASSUME NEW want \in Wants, readRaw(want) PROVE HostView
  <2>1. host.pc = "idle" /\ host'.pc = "top" /\ KeepsData /\ KeepsRings /\ UNCHANGED guest
    BY <1>1, <1>2 DEF readRaw, Hosts, KeepsData, KeepsRings
  <2> QED BY <2>1, ViewLoop
<1>3. CASE TopOfLoop
  <2>1. /\ host.pc = "top" /\ KeepsRings /\ UNCHANGED guest
        /\ host'.expect = host.expect
        /\ \/ /\ host'.pc = "back" /\ host'.data # <<>>
              /\ host'.data \o host'.rest = host.rest
           \/ /\ host'.pc \in {"left", "small"} /\ host.rest = <<>> /\ KeepsData
    BY <1>1, <1>3, DoTopOfLoop
  <2>2. CASE KeepsData /\ host'.pc \in {"left", "small"} BY <2>1, <2>2, ViewLoop
  <2>3. CASE host'.pc = "back" /\ host'.data \o host'.rest = host.rest
    <3>1. host.data = <<>> /\ host.rest \in Seq(Cells) BY <1>1, <2>1 DEF HostData, Hosts
    <3>2. Read = host.rest BY <3>1, ConcatEmptySeq DEF Read
    <3>3. host'.reply = host.reply /\ host'.sent = host.sent
      BY <1>1, <1>3 DEF TopOfLoop, HostAt, Hosts
    <3> QED BY <2>1, <2>3, <3>2, <3>3 DEF HostView, Read, Taken1, Taken3
  <2> QED BY <2>1, <2>2, <2>3
<1>4. CASE CheckSmall
  <2>1. /\ host.pc = "small" /\ host'.pc \in {"large", "type1", "top"}
        /\ KeepsData /\ KeepsRings /\ UNCHANGED guest
    BY <1>1, <1>4 DEF CheckSmall, Hosts, KeepsData, KeepsRings, shared
  <2> QED BY <2>1, ViewLoop
<1>5. CASE CheckLarge
  <2>1. /\ host.pc = "large" /\ host'.pc \in {"type3", "none"}
        /\ KeepsData /\ KeepsRings /\ UNCHANGED guest
    BY <1>1, <1>5 DEF CheckLarge, Hosts, KeepsData, KeepsRings, shared
  <2> QED BY <2>1, ViewLoop
<1>6. CASE type3Read
  <2>1. host.pc = "type3" /\ host'.pc = "copy3" /\ KeepsData /\ KeepsRings /\ UNCHANGED guest
    BY <1>1, <1>6, DoType3Read
  <2> QED BY <2>1, ViewLoop
<1>7. CASE FoundNothing
  <2>1. /\ host.pc = "none" /\ host'.pc \in {"top", "spin"}
        /\ KeepsData /\ KeepsRings /\ UNCHANGED guest
    BY <1>1, <1>7 DEF FoundNothing, HostAt, Hosts, KeepsData, KeepsRings, shared
  <2> QED BY <2>1, ViewLoop
<1>8. CASE Spin
  <2>1. /\ host.pc = "spin" /\ host'.pc \in {"top", "wait"}
        /\ KeepsData /\ KeepsRings /\ UNCHANGED guest
    BY <1>1, <1>8 DEF Spin, Hosts, KeepsData, KeepsRings, shared
  <2> QED BY <2>1, ViewLoop
<1>9. CASE Sleep
  <2>1. /\ host.pc = "wait" /\ host'.pc = "asleep"
        /\ KeepsData /\ KeepsRings /\ UNCHANGED guest
    BY <1>1, <1>9 DEF Sleep, HostAt, Hosts, KeepsData, KeepsRings
  <2> QED BY <2>1, ViewLoop
<1>10. CASE Wake
  <2>1. /\ host.pc = "asleep" /\ host'.pc = "top"
        /\ KeepsData /\ KeepsRings /\ UNCHANGED guest
    BY <1>1, <1>10 DEF Wake, HostAt, Hosts, KeepsData, KeepsRings
  <2> QED BY <2>1, ViewLoop
<1>11. CASE WakeToExit
  <2>1. /\ host.pc = "asleep" /\ host'.pc = "top"
        /\ KeepsData /\ KeepsRings /\ UNCHANGED guest
    BY <1>1, <1>11 DEF WakeToExit, Hosts, KeepsData, KeepsRings
  <2> QED BY <2>1, ViewLoop
<1>12. CASE Return
  <2>1. /\ host.pc = "back" /\ host'.pc = "decode"
        /\ KeepsData /\ KeepsRings /\ UNCHANGED guest
    BY <1>1, <1>12 DEF Return, Hosts, KeepsData, KeepsRings
  <2> QED BY <2>1, ViewLoop
<1>13. CASE Destroy
  BY <1>13 DEF Destroy, HostView, KeepsRings, Read, Taken1, Taken3
<1> QED
  BY <1>2, <1>3, <1>4, <1>5, <1>6, <1>7, <1>8, <1>9, <1>10, <1>11, <1>12, <1>13

-----------------------------------------------------------------------------
(***************************************************************************)
(* Steps of the two kinds keep the invariant.                              *)
(***************************************************************************)
LEMMA GuestViewKeeps ==
  ASSUME Ordered, GuestView, GotInv', PlacesInv'
  PROVE  Ordered'
<1> USE DEF Ordered, GuestView, KeepsRings
<1>1. Read' = Read /\ Taken1' = Taken1 /\ Taken3' = Taken3 BY DEF Read, Taken1, Taken3
<1>2. Due' = Due BY DEF Due
<1>3. Ends' = Ends /\ Frontiers' = Frontiers BY <1>2 DEF Ends, Frontiers
<1>4. StreamInv' BY <1>1, <1>3 DEF StreamInv
<1>5. FilledInv' BY DEF FilledInv
<1>6. Nothing' = Nothing BY <1>1 DEF Nothing
<1>7. ReplyInv'
  <2>1. Requested => (Asked => Asked') /\ (Writing => Writing') /\ (Written => Written')
    BY <1>6 DEF Asked, Writing, Written
  <2> QED BY <1>6, <2>1 DEF ReplyInv
<1>8. FromInv'
  <2>1. CASE Requested BY <2>1 DEF FromInv
  <2>2. CASE ~Requested
    <3>1. from'.len = 0 BY <2>2 DEF ReplyInv
    <3> QED BY <3>1 DEF FromInv
  <2> QED BY <2>1, <2>2
<1> QED BY <1>4, <1>5, <1>7, <1>8

LEMMA GuestSame ==
  ASSUME UNCHANGED guest
  PROVE  /\ Crashed' = Crashed /\ Frontier' = Frontier /\ Requested' = Requested
         /\ Due' = Due /\ Ends' = Ends /\ Frontiers' = Frontiers /\ Lag' = Lag
<1>1. Crashed' = Crashed /\ Frontier' = Frontier /\ Requested' = Requested /\ Lag' = Lag
  BY DEF Crashed, Frontier, Put, Requested, Lag
<1>2. Due' = Due BY <1>1 DEF Due
<1> QED BY <1>1, <1>2 DEF Ends, Frontiers

LEMMA HostViewKeeps ==
  ASSUME Ordered, HostView
  PROVE  Ordered'
<1> USE DEF Ordered, HostView, KeepsRings
<1>1. /\ Crashed' = Crashed /\ Frontier' = Frontier /\ Requested' = Requested
      /\ Ends' = Ends /\ Frontiers' = Frontiers /\ Lag' = Lag
  BY GuestSame
<1>2. StreamInv' BY <1>1 DEF StreamInv
<1>3. FilledInv' BY DEF FilledInv
<1>4. Nothing' = Nothing BY DEF Nothing
<1>5. ReplyInv'
  <2>1. (Asked => Asked') /\ (Writing => Writing') /\ (Written => Written')
    BY <1>4 DEF Asked, Writing, Written
  <2> QED BY <1>1, <1>4, <2>1 DEF ReplyInv
<1>6. FromInv' BY <1>1 DEF FromInv
<1>7. PlacesInv' BY <1>1 DEF PlacesInv
<1>8. GotInv' BY GotKeeps
<1> QED BY <1>2, <1>3, <1>5, <1>6, <1>7, <1>8

-----------------------------------------------------------------------------
(***************************************************************************)
(* The steps that move cells.                                              *)
(***************************************************************************)
LEMMA HostTyped ==
  ASSUME Typed
  PROVE  /\ host.data \in Seq(Cells) /\ host.rest \in Seq(Cells) /\ Read \in Seq(Cells)
         /\ host.expect \in 0 .. Numbers - 1 /\ host.expect \in Int
         /\ host.sent \in Nat /\ host.reply \in Nat /\ Taken1 \in Nat /\ Taken3 \in Nat
         /\ to_host \in Seq(Slot) /\ Len(to_host) \in Nat
         /\ large \in Ring /\ large.len \in Nat /\ large.pos \in Int
         /\ from.len \in Nat /\ from.pos \in Int
<1>1. host \in Hosts BY DEF Typed
<1>2. host.data \in Seq(Cells) /\ host.rest \in Seq(Cells) BY <1>1 DEF Hosts
<1>3. Read \in Seq(Cells) BY <1>2, ConcatProperties DEF Read
<1>4. host.expect \in 0 .. Numbers - 1 /\ host.expect \in Int BY <1>1, SizePositive DEF Hosts
<1>5. host.sent \in Nat /\ host.reply \in Nat /\ Taken1 \in Nat /\ Taken3 \in Nat
  BY <1>1 DEF Hosts, Taken1, Taken3
<1>6. to_host \in Seq(Slot) /\ Len(to_host) \in Nat BY DEF Typed
<1>7. /\ large \in Ring /\ large.len \in Nat /\ large.pos \in Int
      /\ from.len \in Nat /\ from.pos \in Int
  BY DEF Typed, Ring
<1> QED BY <1>2, <1>3, <1>4, <1>5, <1>6, <1>7

(* When all is decoded the stream is at its frontier, whatever the buffer  *)
(* holds.                                                                  *)
LEMMA StreamNothing ==
  ASSUME NEW b, NEW c, NEW n \in 0 .. Numbers - 1, NEW q, NEW t \in Nat, NEW ring,
         NEW t3 \in Nat, NEW S, NEW T, NEW F, Len(q) = t, ring.len = t3,
         Stream(b, <<>>, n, q, t, ring, t3, S, F)
  PROVE  Stream(c, <<>>, n, q, t, ring, t3, T, F) /\ n \in F
<1>1. PICK at \in [1 .. Len(q) + 1 -> 0 .. Numbers - 1] :
        StreamAt(b, <<>>, n, q, t, ring, t3, S, F, at)
  BY DEF Stream
<1>2. ring.len - t3 = 0 OBVIOUS
<1>3. at[Len(q) + 1] = n
  <2>1. at[t + 1] = Num(n, Len(<<>>)) /\ Len(<<>>) = 0 BY <1>1 DEF StreamAt
  <2> QED BY <2>1, NumZero
<1>4. n \in F
  <2>1. Num(at[Len(q) + 1], ring.len - t3) \in F BY <1>1 DEF StreamAt
  <2> QED BY <1>2, <1>3, <2>1, NumZero
<1>5. Row(<<>>, n, Last(Len(q) = t /\ ring.len = t3, T)) BY RowNothing
<1>6. SlotRow(c, q, t, at, T) BY DEF SlotRow
<1>7. Block(c, Off(ring.pos, t3), ring.len - t3, at[Len(q) + 1], T) BY <1>2 DEF Block
<1>8. StreamAt(c, <<>>, n, q, t, ring, t3, T, F, at)
  BY <1>1, <1>5, <1>6, <1>7 DEF StreamAt
<1> QED BY <1>4, <1>8 DEF Stream

(* One slot of the buffer is always the guest's own.                       *)
LEMMA SlotsFit ==
  ASSUME Step < Size, NEW d \in Nat, d <= maxOutstanding
  PROVE  Step * d <= Size - Step
<1> DEFINE q == Size \div Step
<1>1. Size = Step * q /\ q \in Int
  <2>1. Size = Step * q + (Size % Step) /\ q \in Int BY ModQ, SizePositive
  <2> QED BY <2>1, SizeAssumption
<1>2. maxOutstanding = IF q > 1 THEN q - 1 ELSE 1 BY DEF maxOutstanding
<1> HIDE DEF q
<1>3. q > 1
  <2> SUFFICES ASSUME q <= 1 PROVE FALSE
    BY <1>1
  <2>1. Step * q <= Step * 1 BY <1>1, SizePositive
  <2> QED BY <1>1, <2>1, SizePositive
<1>4. d <= q - 1 BY <1>1, <1>2, <1>3
<1>5. Step * d <= Step * (q - 1) BY <1>1, <1>4, SizePositive
<1>6. Step * (q - 1) = Step * q - Step BY <1>1, SizePositive
<1>7. Step * d \in Int /\ Step * q \in Int BY <1>1, SizePositive
<1> QED BY <1>1, <1>5, <1>6, <1>7

LEMMA SlotsApart ==
  ASSUME Step < Size, NEW s \in 0 .. Size - 1, NEW q \in Seq(Slot), Places(q, s, 1),
         Len(q) <= maxOutstanding, NEW k \in 1 .. Len(q), NEW j \in 0 .. q[k].size - 1,
         NEW i \in 0 .. Step - 1
  PROVE  Off(q[k].offset, j) # Off(s, i)
<1> DEFINE d == Len(q) - k + 1  x == Step * d
<1>1. Len(q) \in Nat /\ q[k] \in Slot BY LenProperties, ElementOfSeq
<1>2. d \in Nat /\ d >= 1 /\ d <= maxOutstanding
  <2>1. d \in Nat /\ d >= 1 /\ d <= Len(q) BY <1>1
  <2>2. maxOutstanding \in Int
    <3>1. Size \div Step \in Int BY ModQ, SizePositive
    <3> QED BY <3>1 DEF maxOutstanding
  <2> QED BY <1>1, <2>1, <2>2
<1>3. q[k].offset = Off(s, -x) BY DEF Places
<1> HIDE DEF d
<1>4. x <= Size - Step BY <1>2, SlotsFit
<1>5. x >= Step * 1 /\ x \in Int BY <1>2, SizePositive
<1> HIDE DEF x
<1>6. s \in Int /\ -x \in Int /\ j \in Int /\ i \in Int /\ -x + j \in Int
  BY <1>5, SizePositive
<1>7. j < Step BY <1>1, SizePositive DEF Slot
<1>8. Off(q[k].offset, j) = Off(s, -x + j) BY <1>3, <1>6, OffOff
<1>9. -x + j # i /\ -x + j - i < Size /\ i - (-x + j) < Size
  BY <1>4, <1>5, <1>6, <1>7, SizePositive
<1> QED BY <1>6, <1>8, <1>9, OffApart

LEMMA OrderedFill ==
  ASSUME Step < Size, Known, Ordered, Fill
  PROVE  Ordered'
<1> USE DEF Known, Basics, Ordered
<1>1. /\ guest.pc = "fill" /\ guest'.pc = "slot" /\ KeepsCall
      /\ buf' = Stored(guest.slot, Transfer(0, guest.size))
      /\ UNCHANGED <<to_host, large, from, host>>
  BY GuestFields DEF Fill, Typed
<1>2. /\ guest.size \in 1 .. Step /\ large.len = 0 /\ guest.slot \in Int
      /\ guest.slot \in 0 .. Size - 1
  BY <1>1, GotTyped DEF GuestSizes, Drained
<1>3. Len(Transfer(0, guest.size)) = guest.size
  <2>1. guest.size \in Nat /\ guest \in Guests BY GotTyped DEF Typed
  <2> QED BY <2>1, TransferTyped
<1>4. guest.size <= Size BY <1>2, SizePositive
<1>5. ASSUME NEW k \in 1 .. Len(to_host), NEW j \in 0 .. to_host[k].size - 1
      PROVE  buf'[Off(to_host[k].offset, j)] = buf[Off(to_host[k].offset, j)]
  <2>1. Places(to_host, guest.slot, 1) /\ Len(to_host) <= maxOutstanding
    BY <1>1 DEF PlacesInv, Crashed, Lag, Advanced1
  <2>2. \A i \in 0 .. guest.size - 1 : i \in 0 .. Step - 1 BY <1>2, SizePositive
  <2>3. \A i \in 0 .. guest.size - 1 : Off(to_host[k].offset, j) # Off(guest.slot, i)
    <3>1. to_host \in Seq(Slot) BY HostTyped
    <3> QED BY <1>2, <2>1, <2>2, <3>1, SlotsApart
  <2>4. Off(to_host[k].offset, j) \in 0 .. Size - 1
    <3>1. to_host[k] \in Slot BY ElementOfSeq, HostTyped
    <3>2. to_host[k].offset \in Int /\ j \in Int BY <3>1, SizePositive DEF Slot
    <3> QED BY <3>2, OffRange
  <2> QED BY <1>1, <1>2, <1>3, <2>3, <2>4, StoredElsewhere
<1>6. ~Crashed /\ ~Crashed' /\ ~Requested /\ ~Requested' /\ Lag' = Lag
  BY <1>1 DEF Crashed, Requested, Lag, Advanced1
<1>7. Frontier' = Frontier BY <1>1 DEF Frontier, Put, Advanced1, Pushing, KeepsCall
<1>8. Ends' = Ends /\ Frontiers' = Frontiers BY <1>6, <1>7 DEF Ends, Frontiers, Due
<1>9. Read' = Read /\ Taken1' = Taken1 /\ Taken3' = Taken3
  BY <1>1 DEF Read, Taken1, Taken3
<1>10. StreamInv'
  <2>1. \A k \in Taken1 + 1 .. Len(to_host) : \A j \in 0 .. to_host[k].size - 1 :
          buf'[Off(to_host[k].offset, j)] = buf[Off(to_host[k].offset, j)]
    <3>1. \A k \in Taken1 + 1 .. Len(to_host) : k \in 1 .. Len(to_host) BY HostTyped
    <3> QED BY <1>5, <3>1
  <2>2. \A j \in 0 .. large.len - Taken3 - 1 :
          buf'[Off(Off(large.pos, Taken3), j)] = buf[Off(Off(large.pos, Taken3), j)]
    <3>1. ~(\E j \in 0 .. large.len - Taken3 - 1 : TRUE) BY <1>2, HostTyped
    <3> QED BY <3>1
  <2>3. Stream(buf', Read, host.expect, to_host, Taken1, large, Taken3, Ends, Frontiers)
    BY <2>1, <2>2, StreamKeeps DEF StreamInv
  <2> QED BY <1>1, <1>8, <1>9, <2>3 DEF StreamInv
<1>11. FilledInv'
  <2>1. ASSUME NEW j \in 0 .. guest.size - 1
        PROVE  buf'[Off(guest.slot, j)] =
                 Cmd(guest.seq + j, IF j + 1 = guest.size THEN guest.reply ELSE 0)
    <3>1. buf'[Off(guest.slot, j)] = Transfer(0, guest.size)[j + 1]
      BY <1>1, <1>2, <1>3, <1>4, StoredHere
    <3>2. j + 1 \in 1 .. guest.size /\ 0 + (j + 1) = j + 1
      BY <1>2
    <3>3. guest.seq + 0 + (j + 1) - 1 = guest.seq + j BY GotTyped
    <3> QED BY <3>1, <3>2, <3>3 DEF Transfer
  <2> QED BY <1>1, <2>1 DEF FilledInv, KeepsCall
<1>12. PlacesInv' BY <1>1, <1>6, PlacesKeep DEF KeepsCall
<1>13. host.pc # "reply" /\ from.len = 0 BY <1>6 DEF ReplyInv
<1>14. ReplyInv' BY <1>1, <1>6, <1>13 DEF ReplyInv
<1>15. FromInv' BY <1>1, <1>13 DEF FromInv
<1>16. GotInv' BY <1>1, GotMoves DEF AsyncPcs
<1> QED BY <1>10, <1>11, <1>12, <1>14, <1>15, <1>16

LEMMA OrderedType1Write ==
  ASSUME Known, Ordered, type1Write
  PROVE  Ordered'
<1> USE DEF Known, Basics, Ordered
<1> DEFINE slot == [offset |-> guest.slot, size |-> guest.size]  n == Len(to_host)
<1>1. /\ guest.pc = "slot" /\ guest'.pc = "ping1" /\ KeepsCall
      /\ n < maxOutstanding /\ to_host' = Append(to_host, slot)
      /\ Len(to_host') = n + 1 /\ to_host' # <<>>
      /\ UNCHANGED <<buf, large, from, host, transfer_size>>
  BY DoType1Write
<1>2. /\ guest.size \in 1 .. Step /\ large.len = 0 /\ guest.slot \in Int
      /\ guest.slot \in 0 .. Size - 1 /\ slot \in Slot
      /\ slot.offset = guest.slot /\ slot.size = guest.size
  BY <1>1, GotTyped DEF GuestSizes, Drained, Slot
<1>3. /\ to_host \in Seq(Slot) /\ n \in Nat /\ to_host'[n + 1] = slot
      /\ \A k \in 1 .. n : to_host'[k] = to_host[k]
  BY <1>1, HostTyped, AppendProperties
<1> HIDE DEF slot, n
<1>4. ~Crashed /\ ~Crashed' /\ ~Requested /\ Lag = 1 /\ Lag' = 0
  BY <1>1 DEF Crashed, Requested, Lag, Advanced1
<1>5. Due = 0 /\ Due' = guest.reply /\ (Requested' <=> guest.reply > 0)
  BY <1>1, <1>4, GotTyped DEF Due, Requested, KeepsCall
<1>6. Frontier = guest.seq /\ Frontier' = Num(guest.seq, guest.size)
  <2>1. Put = 0 /\ Put' = guest.size
    BY <1>1 DEF Put, Advanced1, Pushing, KeepsCall
  <2>2. Num(guest.seq, 0) = guest.seq BY GotTyped, NumZero
  <2> QED BY <1>1, <2>1, <2>2 DEF Frontier, KeepsCall
<1>7. Taken3 = 0
  <2>1. Taken3 <= large.len /\ Taken3 \in Nat
    BY <1>2, HostTyped DEF HostData, Taken3
  <2> QED BY <1>2, <2>1
<1>8. Block(buf, guest.slot, guest.size, guest.seq, {guest.reply})
  <2> SUFFICES ASSUME NEW j \in 0 .. guest.size - 1
               PROVE  CellOK(buf[Off(guest.slot, j)], Num(guest.seq, j),
                             Last(j = guest.size - 1, {guest.reply}))
    BY DEF Block
  <2>1. buf[Off(guest.slot, j)] =
          Cmd(guest.seq + j, IF j + 1 = guest.size THEN guest.reply ELSE 0)
    BY <1>1 DEF FilledInv
  <2>2. j + 1 = guest.size <=> j = guest.size - 1 BY <1>2
  <2> QED BY <2>1, <2>2 DEF Cmd, CellOK, Num, Last
<1>9. StreamInv'
  <2>1. Stream(buf, Read, host.expect, to_host, Taken1, large, 0, {0}, {guest.seq})
    BY <1>4, <1>5, <1>6, <1>7 DEF StreamInv, Ends, Frontiers
  <2>2. Stream(buf, Read, host.expect, Append(to_host, slot), Taken1, large, 0,
               {guest.reply}, {Num(guest.seq, guest.size)})
    <3>1. Block(buf, slot.offset, slot.size, guest.seq, {guest.reply}) BY <1>2, <1>8
    <3> QED BY <1>2, <2>1, <3>1, StreamSlot, HostTyped, GotTyped
  <2>3. Ends' = {guest.reply} /\ Frontiers' = {Num(guest.seq, guest.size)}
    BY <1>4, <1>5, <1>6 DEF Ends, Frontiers
  <2>4. Read' = Read /\ Taken1' = Taken1 /\ Taken3' = 0
    BY <1>1, <1>7 DEF Read, Taken1, Taken3
  <2> QED BY <1>1, <2>2, <2>3, <2>4 DEF StreamInv
<1>10. FilledInv' BY <1>1 DEF FilledInv
<1>11. PlacesInv'
  <2>0. Len(to_host') = n + 1 BY <1>1
  <2>1. ASSUME NEW k \in 1 .. Len(to_host')
        PROVE  to_host'[k].offset = Off(guest.slot, -(Step * (Len(to_host') - k + 0)))
    <3>1. CASE k = n + 1
      <4>1. Len(to_host') - k + 0 = 0 BY <1>3, <2>0, <3>1
      <4>2. -(Step * (Len(to_host') - k + 0)) = 0 BY <4>1, SizePositive
      <4> QED BY <1>2, <1>3, <3>1, <4>2, OffZero
    <3>2. CASE k # n + 1
      <4>1. k \in 1 .. n /\ Len(to_host') - k + 0 = n - k + 1 BY <1>3, <2>0, <3>2
      <4>2. to_host[k].offset = Off(guest.slot, -(Step * (n - k + 1)))
        BY <1>4, <4>1 DEF PlacesInv, Places, n
      <4>3. to_host'[k] = to_host[k] BY <1>3, <4>1
      <4> QED BY <4>1, <4>2, <4>3
    <3> QED BY <3>1, <3>2
  <2>2. Places(to_host', guest.slot, 0) BY <2>1, Zenon DEF Places
  <2>3. n + 1 <= maxOutstanding
    <3>1. maxOutstanding \in Int
      <4>1. Size \div Step \in Int BY ModQ, SizePositive
      <4> QED BY <4>1 DEF maxOutstanding
    <3> QED BY <1>1, <1>3, <3>1
  <2> QED BY <1>1, <1>2, <1>4, <2>2, <2>3 DEF PlacesInv, KeepsCall
<1>12. host.pc # "reply" /\ from.len = 0 /\ guest.got = <<>>
  BY <1>1, <1>4 DEF ReplyInv, GotInv
<1>13. ReplyInv'
  <2>1. ~Nothing'
    <3>1. Taken1' <= n
      <4>1. host.pc = "done1" => to_host # <<>> BY DEF HostData
      <4>2. to_host # <<>> => n >= 1 BY <1>3, EmptySeq DEF n
      <4>3. Taken1' = Taken1 BY <1>1 DEF Taken1
      <4> QED BY <1>3, <4>1, <4>2, <4>3 DEF Taken1
    <3>2. Taken1' \in Nat BY <1>1, HostTyped DEF Taken1
    <3> QED BY <1>1, <1>3, <3>1, <3>2 DEF Nothing
  <2> QED BY <1>1, <1>12, <2>1 DEF ReplyInv, Asked, KeepsCall
<1>14. FromInv' BY <1>1, <1>12 DEF FromInv
<1>15. GotInv' BY <1>1, GotMoves DEF AsyncPcs
<1> QED BY <1>9, <1>10, <1>11, <1>13, <1>14, <1>15

LEMMA OrderedChunk ==
  ASSUME Known, Ordered, Chunk
  PROVE  Ordered'
<1> USE DEF Known, Basics, Ordered
<1> DEFINE k == Chunked  p == large.pos  l == large.len
<1>1. /\ guest.pc = "chunk" /\ guest'.pc = "ping3" /\ k \in Nat
      /\ guest'.sent <= guest.size /\ l + k <= Size - 1
      /\ guest'.size = guest.size /\ guest'.reply = guest.reply
      /\ guest'.async = guest.async /\ guest'.slot = guest.slot
      /\ guest'.seq = guest.seq /\ guest'.got = guest.got
      /\ buf' = Stored(p + l, Transfer(guest.sent, k))
      /\ large'.pos = p /\ large'.len = l + k
      /\ UNCHANGED <<to_host, from, host, transfer_size>>
  BY DoChunk, Zenon
<1>2. /\ p \in Int /\ l \in Nat /\ l \in Int /\ k \in Int /\ p + l \in Int
      /\ guest.sent \in Nat /\ guest.size \in Nat /\ guest.reply \in Nat
      /\ guest.sent < guest.size /\ to_host = <<>> /\ Len(to_host) = 0
  BY <1>1, HostTyped, GotTyped DEF GuestSizes, Drained, Pushing
<1>3. guest'.sent = guest.sent + k
  <2>1. guest'.sent \in Nat
    <3>1. Typed' BY TypedStep DEF Next, GuestStep
    <3> QED BY <3>1 DEF Typed, Guests
  <2> QED BY <1>2, <2>1 DEF Chunked
<1>4. Len(Transfer(guest.sent, k)) = k
  <2>1. guest \in Guests BY DEF Typed
  <2> QED BY <1>1, <1>2, <2>1, TransferTyped
<1> HIDE DEF k, p, l
<1>5. /\ ~Crashed /\ ~Crashed' /\ ~Requested /\ Due = 0
      /\ Due' = IF guest.sent + k = guest.size THEN guest.reply ELSE 0
  BY <1>1, <1>2, <1>3 DEF Crashed, Requested, Due
<1>6. Frontier \in 0 .. Numbers - 1 /\ Frontier \in Int /\ Due' \in Nat
  BY <1>2, <1>5, PutTyped
<1>7. /\ Frontier = Num(guest.seq, guest.sent)
      /\ Frontier' = Num(Frontier, k)
  <2>1. Put = guest.sent /\ Put' = guest.sent + k
    BY <1>1, <1>3 DEF Put, Advanced1, Pushing
  <2>2. guest.seq \in Int /\ guest.sent \in Int /\ k \in Int BY <1>2, GotTyped
  <2>3. Num(Num(guest.seq, guest.sent), k) = Num(guest.seq, guest.sent + k)
    BY <2>2, NumNum
  <2> QED BY <1>1, <2>1, <2>3 DEF Frontier
<1>8. Read' = Read /\ Taken1' = Taken1 /\ Taken3' = Taken3 /\ Taken1 = 0 /\ Taken3 <= l
  <2>1. host.pc # "done1" BY <1>2 DEF HostData
  <2>2. Taken3 <= l BY <1>2 DEF HostData, Taken3, l
  <2> QED BY <1>1, <2>1, <2>2 DEF Read, Taken1, Taken3
(* What was in the ring stays, and the new cells follow.                   *)
<1>9. ASSUME NEW j \in 0 .. l - Taken3 - 1
      PROVE  buf'[Off(Off(p, Taken3), j)] = buf[Off(Off(p, Taken3), j)]
  <2> DEFINE m == Taken3 + j
  <2>0. Taken3 \in Nat BY HostTyped
  <2>1. Taken3 \in Int /\ j \in Int /\ m \in Int /\ 0 <= m /\ m < l
    BY <1>2, <1>8, <2>0
  <2>2. Off(Off(p, Taken3), j) = Off(p, m) BY <1>2, <2>1, OffOff
  <2>3. Off(p, m) \in 0 .. Size - 1 BY <1>2, <2>1, OffRange
  <2> HIDE DEF m
  <2>4. ASSUME NEW i \in 0 .. k - 1 PROVE Off(p, m) # Off(p + l, i)
    <3>1. i \in Int /\ l + i \in Int /\ m # l + i /\ m - (l + i) < Size /\ (l + i) - m < Size
      BY <1>1, <1>2, <2>1, SizePositive
    <3>2. Off(p, m) # Off(p, l + i) BY <1>2, <2>1, <3>1, OffApart
    <3>3. (p + l) + i = p + (l + i) BY <1>2, <3>1
    <3> QED BY <3>2, <3>3 DEF Off
  <2>5. buf'[Off(p, m)] = buf[Off(p, m)]
    BY <1>1, <1>2, <1>4, <2>3, <2>4, StoredElsewhere
  <2> QED BY <2>2, <2>5
<1>10. Block(buf', Off(p, l), k, Frontier, {Due'})
  <2> SUFFICES ASSUME NEW j \in 0 .. k - 1
               PROVE  CellOK(buf'[Off(Off(p, l), j)], Num(Frontier, j),
                             Last(j = k - 1, {Due'}))
    BY Zenon DEF Block
  <2>1. j \in Int /\ j + 1 \in 1 .. k /\ guest.sent \in Int /\ guest.seq \in Int
        /\ guest.sent + j \in Int /\ k <= Size
    BY <1>1, <1>2, GotTyped, SizePositive
  <2>2. buf'[Off(p + l, j)] = Transfer(guest.sent, k)[j + 1]
    <3>1. k \in Nat /\ p + l \in Int BY <1>1, <1>2
    <3> QED BY <1>1, <1>4, <2>1, <3>1, StoredHere
  <2>3. Off(Off(p, l), j) = Off(p + l, j)
    <3>1. Off(Off(p, l), j) = Off(p, l + j) BY <1>2, <2>1, OffOff
    <3>2. (p + l) + j = p + (l + j) BY <1>2, <2>1
    <3> QED BY <3>1, <3>2 DEF Off
  <2>4. Transfer(guest.sent, k)[j + 1] =
          Cmd(guest.seq + guest.sent + (j + 1) - 1,
              IF guest.sent + (j + 1) = guest.size THEN guest.reply ELSE 0)
    BY <2>1 DEF Transfer
  <2>5. guest.seq + guest.sent + (j + 1) - 1 = guest.seq + (guest.sent + j) BY <2>1
  <2>6. Num(Frontier, j) = Num(guest.seq, guest.sent + j) BY <1>7, <2>1, NumNum
  <2>7. (IF guest.sent + (j + 1) = guest.size THEN guest.reply ELSE 0)
          \in Last(j = k - 1, {Due'})
    <3>1. CASE j = k - 1
      <4>1. guest.sent + (j + 1) = guest.sent + k BY <1>2, <2>1, <3>1
      <4> QED BY <1>5, <3>1, <4>1 DEF Last
    <3>2. CASE j # k - 1
      <4>1. guest.sent + (j + 1) # guest.size BY <1>1, <1>2, <1>3, <2>1, <3>2
      <4> QED BY <3>2, <4>1 DEF Last
    <3> QED BY <3>1, <3>2
  <2> DEFINE r == IF guest.sent + (j + 1) = guest.size THEN guest.reply ELSE 0
  <2>8. buf'[Off(Off(p, l), j)] = Cmd(guest.seq + (guest.sent + j), r)
    BY <2>2, <2>3, <2>4, <2>5
  <2>9. r \in Last(j = k - 1, {Due'}) BY <2>7
  <2> HIDE DEF r
  <2> QED BY <2>6, <2>8, <2>9 DEF Cmd, CellOK, Num
<1>11. StreamInv'
  <2>1. Stream(buf, Read, host.expect, <<>>, 0, large, Taken3, {0}, {Frontier})
    BY <1>2, <1>5, <1>8 DEF StreamInv, Ends, Frontiers
  <2>2. Stream(buf', Read, host.expect, <<>>, 0, large, Taken3, {0}, {Frontier})
    <3>1. \A i \in 0 + 1 .. Len(<<>>) : \A j \in 0 .. (<<>>)[i].size - 1 :
            buf'[Off((<<>>)[i].offset, j)] = buf[Off((<<>>)[i].offset, j)]
      OBVIOUS
    <3>2. \A j \in 0 .. large.len - Taken3 - 1 :
            buf'[Off(Off(large.pos, Taken3), j)] = buf[Off(Off(large.pos, Taken3), j)]
      BY <1>9 DEF p, l
    <3> QED BY <2>1, <3>1, <3>2, StreamKeeps
  <2>3. k = 0 => {Due'} = {0} BY <1>2, <1>5
  <2>4. Block(buf', Off(large.pos, large.len), k, Frontier, {Due'}) BY <1>10 DEF p, l
  <2>5. large'.pos = large.pos /\ large'.len = large.len + k BY <1>1 DEF p, l
  <2>6. Stream(buf', Read, host.expect, <<>>, 0, large', Taken3, {Due'}, {Num(Frontier, k)})
    BY <1>1, <1>6, <2>2, <2>3, <2>4, <2>5, StreamChunk, HostTyped
  <2>7. Ends' = {Due'} /\ Frontiers' = {Num(Frontier, k)}
    BY <1>5, <1>7 DEF Ends, Frontiers
  <2>8. to_host' = <<>> /\ Taken1' = 0 BY <1>1, <1>2, <1>8
  <2> QED BY <1>1, <1>8, <2>6, <2>7, <2>8 DEF StreamInv
<1>12. FilledInv' BY <1>1 DEF FilledInv
<1>13. PlacesInv'
  <2>1. Lag' = Lag BY <1>1 DEF Lag, Advanced1
  <2> QED BY <1>1, <1>2, <1>5, <2>1 DEF PlacesInv
<1>14. host.pc # "reply" /\ from.len = 0 /\ guest.got = <<>>
  BY <1>1, <1>5 DEF ReplyInv, GotInv
<1>15. ReplyInv'
  <2>1. Requested' => ~Nothing'
    <3>1. Requested' => k > 0 BY <1>1, <1>2, <1>3 DEF Requested
    <3>2. k > 0 => large'.len # Taken3' BY <1>1, <1>2, <1>8, HostTyped
    <3> QED BY <3>1, <3>2 DEF Nothing
  <2>2. host'.pc # "reply" /\ from'.len = 0 /\ guest'.got = <<>> BY <1>1, <1>14
  <2> QED BY <2>1, <2>2 DEF ReplyInv, Asked
<1>16. FromInv' BY <1>1, <1>14 DEF FromInv
<1>17. GotInv' BY <1>1 DEF GotInv, RepliesInOrder, AsyncPcs
<1> QED BY <1>11, <1>12, <1>13, <1>15, <1>16, <1>17

LEMMA OrderedSpeculativeRead ==
  ASSUME Known, Ordered, speculativeRead
  PROVE  Ordered'
<1> USE DEF Known, Basics, Ordered
<1> DEFINE g == Len(guest.got)  l == from.len  p == from.pos
<1>1. /\ guest.pc = "take" /\ l > 0 /\ guest'.got = guest.got \o Loaded(p, l)
      /\ \/ Len(guest'.got) < guest.reply /\ guest'.pc = "read" /\ guest'.reply = guest.reply
         \/ ~(Len(guest'.got) < guest.reply) /\ guest'.pc = "idle" /\ guest'.reply = 0
      /\ guest'.size = guest.size /\ guest'.sent = guest.sent
      /\ guest'.async = guest.async /\ guest'.slot = guest.slot /\ guest'.seq = guest.seq
      /\ from'.len = 0 /\ UNCHANGED <<buf, to_host, large, host, transfer_size>>
  BY DoSpeculativeRead, Zenon
<1>2. /\ g \in Nat /\ l \in Nat /\ p \in Int /\ guest.got \in Seq(Cells)
      /\ guest.reply \in Nat /\ guest.reply > 0
  BY <1>1, HostTyped, GotTyped DEF GotInv
<1>3. Loaded(p, l) \in Seq(Cells) /\ Len(Loaded(p, l)) = l BY <1>2, LoadedTyped DEF Typed
<1>4. /\ Len(guest'.got) = g + l
      /\ \A i \in 1 .. g + l :
           guest'.got[i] = IF i <= g THEN guest.got[i] ELSE Loaded(p, l)[i - g]
  <2> DEFINE s == guest.got  c == Loaded(p, l)
  <2>1. s \in Seq(Cells) /\ c \in Seq(Cells) /\ Len(s) = g /\ Len(c) = l
    BY <1>2, <1>3
  <2>2. guest'.got = s \o c BY <1>1
  <2> HIDE DEF s, c, g, l
  <2>3. /\ Len(s \o c) = Len(s) + Len(c)
        /\ \A i \in 1 .. Len(s) + Len(c) : (s \o c)[i] = IF i <= Len(s) THEN s[i] ELSE c[i - Len(s)]
    BY <2>1, ConcatProperties
  <2> QED BY <2>1, <2>2, <2>3 DEF s, c
<1> HIDE DEF g, l, p
<1>5. ~Crashed /\ ~Crashed' /\ Requested /\ (Requested' <=> guest'.pc = "read")
  BY <1>1, <1>2 DEF Crashed, Requested
<1>6. Frontier = guest.seq /\ Frontier' = Frontier
  <2>1. Put = 0 /\ Put' = 0 BY <1>1 DEF Put, Advanced1, Pushing
  <2>2. Num(guest.seq, 0) = guest.seq BY GotTyped, NumZero
  <2> QED BY <1>1, <2>1, <2>2 DEF Frontier
<1>7. GotInv'
  <2>1. ASSUME NEW i \in 1 .. g + l PROVE guest'.got[i] = Reply(guest.seq - 1, i)
    <3>1. CASE i <= g
      <4>1. i \in 1 .. g /\ guest'.got[i] = guest.got[i] BY <1>2, <1>4, <3>1
      <4> QED BY <4>1 DEF GotInv, RepliesInOrder, g
    <3>2. CASE ~(i <= g)
      <4> DEFINE j == i - g
      <4>1. j \in 1 .. l /\ j - 1 \in 0 .. l - 1 /\ p + j - 1 = p + (j - 1)
            /\ g + (j - 1) + 1 = i
        BY <1>2, <3>2
      <4>2. guest'.got[i] = Loaded(p, l)[j] BY <1>4, <3>2
      <4> HIDE DEF j
      <4>3. Loaded(p, l)[j] = buf[Off(p, j - 1)] BY <4>1 DEF Loaded, Off
      <4>4. buf[Off(p, j - 1)] = Reply(Frontier - 1, g + (j - 1) + 1)
        BY <1>5, <4>1 DEF FromInv, p, l, g
      <4> QED BY <1>6, <4>1, <4>2, <4>3, <4>4
    <3> QED BY <3>1, <3>2
  <2>2. RepliesInOrder' BY <1>1, <1>4, <2>1 DEF RepliesInOrder
  <2> QED BY <1>1, <1>2, <2>2 DEF GotInv, AsyncPcs
<1>8. Writing \/ Written
  <2>1. ~Asked BY <1>1, <1>2 DEF Asked, l
  <2> QED BY <1>5, <2>1 DEF ReplyInv
<1>9. Nothing' = Nothing BY <1>1 DEF Nothing, Read, Taken1, Taken3
<1>10. CASE Len(guest'.got) < guest.reply
  <2>1. guest'.pc = "read" /\ guest'.reply = guest.reply BY <1>1, <1>10
  <2>2. Requested' /\ Due' = Due BY <1>5, <2>1 DEF Due
  <2>3. Writing /\ g + l = host.sent
    <3>1. Written => g + l = guest.reply BY DEF Written, g, l
    <3>2. ~Written BY <1>2, <1>4, <1>10, <3>1
    <3> QED BY <1>8, <3>2 DEF Writing, g, l
  <2>4. StreamInv'
    <3>1. Ends' = Ends /\ Frontiers' = Frontiers BY <1>5, <1>6, <2>2 DEF Ends, Frontiers
    <3> QED BY <1>1, <3>1 DEF StreamInv, Read, Taken1, Taken3
  <2>5. ReplyInv'
    <3>1. Len(guest'.got) + from'.len = host.sent BY <1>1, <1>2, <1>4, <2>3
    <3>2. Writing' BY <1>1, <2>1, <2>3, <3>1 DEF Writing
    <3>3. host.pc = "reply" => Nothing /\ host.sent < host.reply BY DEF ReplyInv
    <3> QED BY <1>1, <1>9, <2>2, <3>2, <3>3 DEF ReplyInv
  <2>6. FilledInv' /\ FromInv' BY <1>1, <2>1 DEF FilledInv, FromInv
  <2>7. PlacesInv'
    <3>1. Lag' = Lag BY <1>1, <2>1 DEF Lag, Advanced1
    <3> QED BY <1>1, <1>5, <3>1, PlacesKeep
  <2> QED BY <1>7, <2>4, <2>5, <2>6, <2>7
<1>11. CASE ~(Len(guest'.got) < guest.reply)
  <2>1. guest'.pc = "idle" BY <1>1, <1>11
  <2>2. ~Requested' /\ Due' = 0 BY <1>5, <2>1 DEF Due
  <2>3. Written
    <3>1. Writing => g + l = host.sent /\ host.sent < guest.reply
      BY DEF Writing, ReplyInv, g, l
    <3>2. ~Writing BY <1>2, <1>4, <1>11, <3>1, HostTyped
    <3> QED BY <1>8, <3>2
  <2>4. StreamInv'
    <3>1. Read = <<>> /\ Len(to_host) = Taken1 /\ large.len = Taken3
      BY <2>3 DEF Written, Nothing
    <3>2. Stream(buf, <<>>, host.expect, to_host, Taken1, large, Taken3, Ends, {Frontier})
      BY <1>5, <3>1 DEF StreamInv, Frontiers
    <3>3. Stream(buf, <<>>, host.expect, to_host, Taken1, large, Taken3, {0}, {Frontier})
      BY <3>1, <3>2, StreamNothing, HostTyped
    <3>4. Ends' = {0} /\ Frontiers' = {Frontier} BY <1>5, <1>6, <2>2 DEF Ends, Frontiers
    <3> QED BY <1>1, <3>1, <3>3, <3>4 DEF StreamInv, Read, Taken1, Taken3
  <2>5. ReplyInv' BY <1>1, <2>2, <2>3 DEF ReplyInv, Written
  <2>6. FilledInv' /\ FromInv' BY <1>1, <2>1 DEF FilledInv, FromInv
  <2>7. PlacesInv'
    <3>1. Lag' = Lag BY <1>1, <2>1 DEF Lag, Advanced1
    <3> QED BY <1>1, <1>5, <3>1, PlacesKeep
  <2> QED BY <1>7, <2>4, <2>5, <2>6, <2>7
<1> QED BY <1>10, <1>11

(* The host's steps leave the guest's part as it is.                       *)
LEMMA HostKeeps ==
  ASSUME Ordered, UNCHANGED <<guest, buf, from>>
  PROVE  /\ FilledInv' /\ FromInv' /\ GotInv'
         /\ Crashed' = Crashed /\ Requested' = Requested /\ Lag' = Lag
         /\ Ends' = Ends /\ Frontiers' = Frontiers
<1> USE DEF Ordered
<1>1. /\ Crashed' = Crashed /\ Frontier' = Frontier /\ Requested' = Requested
      /\ Ends' = Ends /\ Frontiers' = Frontiers /\ Lag' = Lag
  BY GuestSame
<1>2. FilledInv' BY DEF FilledInv
<1>3. FromInv' BY <1>1 DEF FromInv
<1>4. GotInv' BY GotKeeps
<1> QED BY <1>1, <1>2, <1>3, <1>4

LEMMA ReplyKeeps ==
  ASSUME ReplyInv, UNCHANGED <<guest, from>>, Nothing' = Nothing,
         host.pc # "reply", host'.pc # "reply"
  PROVE  ReplyInv'
<1>1. Crashed' = Crashed /\ Requested' = Requested BY DEF Crashed, Requested
<1>2. (Asked => Asked') /\ (Written => Written') /\ ~Writing
  BY DEF Asked, Writing, Written
<1> QED BY <1>1, <1>2 DEF ReplyInv

LEMMA OrderedType1Read ==
  ASSUME Known, Ordered, type1Read
  PROVE  Ordered'
<1> USE DEF Known, Basics, Ordered
<1>1. /\ host.pc = "type1" /\ host'.pc = "done1" /\ UNCHANGED <<shared, guest>>
      /\ host'.data # <<>>
      /\ host'.data \o host'.rest = Loaded(Head(to_host).offset, Head(to_host).size)
      /\ host'.expect = host.expect
  BY DoType1Read
<1>2. /\ host.data = <<>> /\ host.rest = <<>> /\ to_host # <<>> /\ to_host \in Seq(Slot)
      /\ large.len = 0
  BY <1>1, HostTyped DEF HostData, Looking, PlacesInv
<1>3. Head(to_host) = to_host[1] /\ to_host[1] \in Slot /\ Len(to_host) >= 1
      /\ Len(to_host) \in Nat
  BY <1>2, HeadTailProperties, EmptySeq, ElementOfSeq
<1>4. UNCHANGED <<guest, buf, from, to_host, large>> BY <1>1 DEF shared
<1>5. /\ FilledInv' /\ FromInv' /\ GotInv' /\ Crashed' = Crashed /\ Lag' = Lag
      /\ Ends' = Ends /\ Frontiers' = Frontiers
  BY <1>4, HostKeeps
<1>6. Read = <<>> /\ Taken1 = 0 /\ Taken3 = 0 /\ Taken1' = 1 /\ Taken3' = 0
  BY <1>1, <1>2, ConcatEmptySeq, NoCells DEF Read, Taken1, Taken3
<1>7. Read' = Loaded(to_host[1].offset, to_host[1].size) BY <1>1, <1>3 DEF Read
<1>8. StreamInv'
  <2>1. Stream(buf, <<>>, host.expect, to_host, 0, large, 0, Ends, Frontiers)
    BY <1>6 DEF StreamInv
  <2>2. Stream(buf, Loaded(to_host[1].offset, to_host[1].size), host.expect,
               to_host, 1, large, 0, Ends, Frontiers)
    BY <1>2, <2>1, StreamTakeSlot, HostTyped
  <2> QED BY <1>1, <1>4, <1>5, <1>6, <1>7, <2>2 DEF StreamInv
<1>9. ReplyInv'
  <2>1. Len(Read') = to_host[1].size
    <3>1. to_host[1].offset \in Int /\ to_host[1].size \in Nat BY <1>3, SizePositive DEF Slot
    <3> QED BY <1>7, <3>1, LoadedTyped DEF Typed
  <2>2. Read' # <<>> BY <1>3, <2>1, SizePositive DEF Slot
  <2>3. Nothing' = Nothing BY <1>3, <1>6, <2>2 DEF Nothing
  <2> QED BY <1>1, <1>4, <2>3, ReplyKeeps
<1>10. PlacesInv' BY <1>4, <1>5 DEF PlacesInv
<1> QED BY <1>5, <1>8, <1>9, <1>10

LEMMA OrderedAdvanceType1 ==
  ASSUME Known, Ordered, AdvanceType1
  PROVE  Ordered'
<1> USE DEF Known, Basics, Ordered
<1> DEFINE n == Len(to_host)
<1>1. /\ host.pc = "done1" /\ host'.pc = "back" /\ to_host' = Tail(to_host)
      /\ host'.data = host.data /\ host'.rest = host.rest /\ host'.expect = host.expect
      /\ UNCHANGED <<guest, buf, from, large>>
  BY DEF AdvanceType1, HostAt, Typed, Hosts
<1>2. to_host # <<>> /\ to_host \in Seq(Slot) /\ large.len = 0
  BY <1>1, HostTyped DEF HostData, PlacesInv
<1>3. /\ n \in Nat /\ n >= 1 /\ Len(to_host') = n - 1
      /\ \A k \in 1 .. n - 1 : to_host'[k] = to_host[k + 1]
  BY <1>1, <1>2, HeadTailProperties, EmptySeq, LenProperties
<1> HIDE DEF n
<1>4. /\ FilledInv' /\ FromInv' /\ GotInv' /\ Crashed' = Crashed /\ Lag' = Lag
      /\ Ends' = Ends /\ Frontiers' = Frontiers
  BY <1>1, HostKeeps
<1>5. Read' = Read /\ Taken1 = 1 /\ Taken1' = 0 /\ Taken3 = 0 /\ Taken3' = 0
  BY <1>1 DEF Read, Taken1, Taken3
<1>6. StreamInv'
  <2>1. Stream(buf, Read, host.expect, to_host, 1, large, 0, Ends, Frontiers)
    BY <1>5 DEF StreamInv
  <2>2. Stream(buf, Read, host.expect, Tail(to_host), 0, large, 0, Ends, Frontiers)
    BY <1>2, <2>1, StreamNextSlot
  <2> QED BY <1>1, <1>4, <1>5, <2>2 DEF StreamInv
<1>7. Nothing' = Nothing BY <1>1, <1>3, <1>5 DEF Nothing, n
<1>8. ReplyInv' BY <1>1, <1>7, ReplyKeeps
<1>9. PlacesInv'
  <2>1. ASSUME ~Crashed PROVE Places(to_host', guest.slot, Lag)
    <3> SUFFICES ASSUME NEW k \in 1 .. Len(to_host')
                 PROVE  to_host'[k].offset =
                          Off(guest.slot, -(Step * (Len(to_host') - k + Lag)))
      BY Zenon DEF Places
    <3>1. k + 1 \in 1 .. n /\ k \in 1 .. n - 1 BY <1>3
    <3>2. to_host[k + 1].offset = Off(guest.slot, -(Step * (n - (k + 1) + Lag)))
      BY <2>1, <3>1 DEF PlacesInv, Places, n
    <3>3. n - (k + 1) + Lag = Len(to_host') - k + Lag BY <1>3 DEF Lag
    <3> QED BY <1>3, <3>1, <3>2, <3>3
  <2>2. maxOutstanding \in Int
    <3>1. Size \div Step \in Int BY ModQ, SizePositive
    <3> QED BY <3>1 DEF maxOutstanding
  <2>3. Len(to_host') <= maxOutstanding BY <1>3, <2>2 DEF PlacesInv, n
  <2> QED BY <1>1, <1>2, <1>4, <2>1, <2>3 DEF PlacesInv
<1> QED BY <1>4, <1>6, <1>8, <1>9

LEMMA OrderedCopyType3 ==
  ASSUME Known, Ordered, CopyType3
  PROVE  Ordered'
<1> USE DEF Known, Basics, Ordered
<1> DEFINE k == host.avail
<1>1. /\ host.pc = "copy3" /\ host'.pc = "done3" /\ UNCHANGED <<shared, guest>>
      /\ host'.data = Loaded(large.pos, k) /\ Len(host'.data) = k
      /\ host'.rest = host.rest /\ host'.expect = host.expect /\ host'.avail = k
  BY DoCopyType3
<1>2. host.data = <<>> /\ host.rest = <<>> /\ k <= large.len /\ k \in Nat
  BY <1>1 DEF HostData, Looking, Typed, Hosts
<1>3. large.pos \in Int /\ large.len \in Nat BY HostTyped
<1>4. Loaded(large.pos, k) \in Seq(Cells) /\ Len(Loaded(large.pos, k)) = k
  BY <1>2, <1>3, LoadedTyped DEF Typed
<1>5. Read = <<>> /\ Read' = Loaded(large.pos, k)
  BY <1>1, <1>2, <1>4, ConcatEmptySeq, NoCells DEF Read
<1>6. Taken1 = 0 /\ Taken1' = 0 /\ Taken3 = 0 /\ Taken3' = k
  BY <1>1 DEF Taken1, Taken3
<1> HIDE DEF k
<1>7. UNCHANGED <<guest, buf, from, to_host, large>> BY <1>1 DEF shared
<1>8. /\ FilledInv' /\ FromInv' /\ GotInv' /\ Crashed' = Crashed /\ Lag' = Lag
      /\ Ends' = Ends /\ Frontiers' = Frontiers
  BY <1>7, HostKeeps
<1>9. Stream(buf, <<>>, host.expect, to_host, 0, large, 0, Ends, Frontiers)
  BY <1>5, <1>6 DEF StreamInv
<1>10. PlacesInv' BY <1>7, <1>8 DEF PlacesInv
<1>11. CASE k = 0
  <2>1. Read' = <<>> BY <1>4, <1>5, <1>11, EmptySeq
  <2>2. StreamInv' BY <1>1, <1>6, <1>7, <1>8, <1>9, <1>11, <2>1 DEF StreamInv
  <2>3. Nothing' = Nothing BY <1>5, <1>6, <1>7, <1>11, <2>1 DEF Nothing
  <2>4. ReplyInv' BY <1>1, <1>7, <2>3, ReplyKeeps
  <2> QED BY <1>8, <1>10, <2>2, <2>4
<1>12. CASE k # 0
  <2>1. to_host = <<>> /\ k \in 0 .. large.len /\ large.len # 0
    BY <1>2, <1>3, <1>12 DEF PlacesInv
  <2>2. Stream(buf, Loaded(large.pos, k), host.expect, <<>>, 0, large, k, Ends, Frontiers)
    BY <1>9, <2>1, StreamCopy, HostTyped
  <2>3. StreamInv' BY <1>1, <1>5, <1>6, <1>7, <1>8, <2>1, <2>2 DEF StreamInv
  <2>4. Read' # <<>> BY <1>4, <1>5, <1>12
  <2>5. Nothing' = Nothing BY <1>6, <2>1, <2>4 DEF Nothing
  <2>6. ReplyInv' BY <1>1, <1>7, <2>5, ReplyKeeps
  <2> QED BY <1>8, <1>10, <2>3, <2>6
<1> QED BY <1>11, <1>12

LEMMA OrderedAdvanceType3 ==
  ASSUME Known, Ordered, AdvanceType3
  PROVE  Ordered'
<1> USE DEF Known, Basics, Ordered
<1> DEFINE k == host.avail
<1>1. /\ host.pc = "done3" /\ KeepsData /\ host'.avail = 0
      /\ host'.pc = IF k = 0 THEN "top" ELSE "back"
      /\ k \in Nat /\ k <= large.len
      /\ large'.pos = (large.pos + k) % Size /\ large'.len = large.len - k
      /\ UNCHANGED <<buf, to_host, from, guest, transfer_size>>
  BY DoAdvanceType3
<1>2. Read' = Read /\ Taken1 = 0 /\ Taken1' = 0 /\ Taken3 = k /\ Taken3' = 0
      /\ host'.expect = host.expect
  BY <1>1 DEF KeepsData, Read, Taken1, Taken3
<1> HIDE DEF k
<1>3. /\ FilledInv' /\ FromInv' /\ GotInv' /\ Crashed' = Crashed /\ Lag' = Lag
      /\ Ends' = Ends /\ Frontiers' = Frontiers
  BY <1>1, HostKeeps
<1>4. large.len \in Nat BY HostTyped
<1>5. StreamInv'
  <2>1. Stream(buf, Read, host.expect, to_host, 0, large, k, Ends, Frontiers)
    BY <1>2 DEF StreamInv
  <2>2. k \in 0 .. large.len BY <1>1, <1>4
  <2>3. large'.pos = Off(large.pos, k) BY <1>1 DEF Off
  <2>4. Stream(buf, Read, host.expect, to_host, 0, large', 0, Ends, Frontiers)
    BY <1>1, <2>1, <2>2, <2>3, StreamAdvance, HostTyped
  <2> QED BY <1>1, <1>2, <1>3, <2>4 DEF StreamInv
<1>6. Nothing' = Nothing BY <1>1, <1>2, <1>4 DEF Nothing
<1>7. ReplyInv' BY <1>1, <1>6, ReplyKeeps
<1>8. PlacesInv' BY <1>1, <1>3, <1>4 DEF PlacesInv
<1> QED BY <1>3, <1>5, <1>7, <1>8

LEMMA OrderedDecode ==
  ASSUME Known, Ordered, Decode
  PROVE  Ordered'
<1> USE DEF Known, Basics, Ordered
<1> DEFINE d == host.data  n == Len(d)  R == {d[i].r : i \in DOMAIN d}  reply == Max(R)
<1>1. /\ host.pc = "decode" /\ host'.pc = IF reply > 0 THEN "reply" ELSE "idle"
      /\ host'.reply = reply /\ host'.sent = 0 /\ host'.data = <<>>
      /\ host'.rest = host.rest /\ host'.expect = Num(host.expect, n)
      /\ UNCHANGED <<shared, guest>>
  <2>1. host' = [host EXCEPT !.pc = IF reply > 0 THEN "reply" ELSE "idle",
                             !.reply = reply, !.sent = 0, !.data = <<>>,
                             !.expect = (@ + n) % Numbers]
        /\ host \in Hosts /\ host.pc = "decode" /\ UNCHANGED <<shared, guest>>
    BY DEF Decode, Typed
  <2> HIDE DEF reply, n
  <2> QED BY <2>1 DEF Hosts, Num
<1>2. d \in Seq(Cells) /\ d # <<>> /\ n \in Nat /\ n >= 1 /\ host.rest \in Seq(Cells)
  BY <1>1, HostTyped, EmptySeq, LenProperties DEF HostData
<1>3. /\ reply \in Nat /\ \E i \in 1 .. n : reply = d[i].r
      /\ \A i \in 1 .. n : d[i].r <= reply
      /\ \A i \in 1 .. n : d[i].r \in Nat
  <2>1. /\ Max({d[i].r : i \in DOMAIN d}) \in Nat
        /\ \E i \in 1 .. Len(d) : Max({d[j].r : j \in DOMAIN d}) = d[i].r
        /\ \A i \in 1 .. Len(d) : d[i].r <= Max({d[j].r : j \in DOMAIN d})
    BY <1>2, ReplyNat, Zenon
  <2>2. \A i \in 1 .. n : d[i] \in Cells BY <1>2, ElementOfSeq
  <2>3. \A i \in 1 .. n : d[i].r \in Nat BY <2>2 DEF Cells, Blank
  <2> QED BY <2>1, <2>3, Zenon
<1> HIDE DEF R, reply, n, d
<1>6. PICK last \in 1 .. n : reply = d[last].r BY <1>3, Zenon
<1>7. Taken1 = 0 /\ Taken1' = 0 /\ Taken3 = 0 /\ Taken3' = 0
  BY <1>1 DEF Taken1, Taken3
<1>8. Read' = host.rest
  BY <1>1, <1>2, ConcatEmptySeq DEF Read
<1>9. UNCHANGED <<guest, buf, from, to_host, large>> BY <1>1 DEF shared
<1>10. /\ FilledInv' /\ FromInv' /\ GotInv' /\ Crashed' = Crashed /\ Lag' = Lag
       /\ Requested' = Requested /\ Ends' = Ends /\ Frontiers' = Frontiers
  BY <1>9, HostKeeps
<1>11. PlacesInv' BY <1>9, <1>10 DEF PlacesInv
<1>12. Stream(buf, d \o host.rest, host.expect, to_host, 0, large, 0, Ends, Frontiers)
  BY <1>7 DEF StreamInv, Read, d
<1>13. StreamInv'
  <2>1. Stream(buf, host.rest, Num(host.expect, n), to_host, 0, large, 0, Ends, Frontiers)
    BY <1>2, <1>12, StreamDecode, HostTyped DEF n
  <2> QED BY <1>1, <1>7, <1>8, <1>9, <1>10, <2>1 DEF StreamInv
(* Only the last cell that was handed over asks for a reply.               *)
<1>14. reply \in Last(Nothing', Ends)
  <2> DEFINE End == Last(Len(to_host) = 0 /\ large.len = 0, Ends)
  <2>1. Row(d \o host.rest, host.expect, End) BY <1>12 DEF Stream, StreamAt
  <2>2. \A i \in 1 .. n : d[i].r \in Last(i = n /\ host.rest = <<>>, End)
    <3>1. \A i \in 1 .. n : CellOK(d[i], Num(host.expect, i - 1),
                                   Last(i = n /\ host.rest = <<>>, End))
      BY <1>2, <2>1, RowDrop, HostTyped DEF n
    <3> QED BY <3>1 DEF CellOK
  <2>3. Nothing' <=> host.rest = <<>> /\ Len(to_host) = 0 /\ large.len = 0
    BY <1>7, <1>8, <1>9 DEF Nothing
  <2>4. CASE Nothing'
    <3>1. d[n].r \in Ends /\ (last # n => d[last].r = 0)
      <4>1. n \in 1 .. n BY <1>2
      <4> QED BY <2>2, <2>3, <2>4, <4>1 DEF Last
    <3>2. last # n => d[n].r = reply
      <4>1. n \in 1 .. n BY <1>2
      <4>2. last # n => reply = 0 BY <1>6, <3>1
      <4>3. d[n].r \in Nat /\ d[n].r <= reply BY <1>3, <4>1
      <4> QED BY <4>2, <4>3
    <3>3. reply \in Ends BY <1>6, <3>1, <3>2
    <3> QED BY <2>4, <3>3 DEF Last
  <2>5. CASE ~Nothing'
    <3>1. reply = 0 BY <1>6, <2>2, <2>3, <2>5 DEF Last
    <3> QED BY <2>5, <3>1 DEF Last
  <2> QED BY <2>4, <2>5
<1>15. ~Nothing
  <2>1. Read # <<>>
    <3>1. Len(Read) = n + Len(host.rest) BY <1>2, ConcatProperties DEF Read, d, n
    <3>2. Len(host.rest) \in Nat BY <1>2, LenProperties
    <3>3. Len(Read) # 0 BY <1>2, <3>1, <3>2
    <3> QED BY <3>3
  <2> QED BY <2>1 DEF Nothing
<1>16. ReplyInv'
  <2>1. CASE Crashed
    <3>1. ~Requested BY <2>1 DEF Crashed, Requested
    <3>2. host'.pc = "reply" => Nothing' /\ host'.sent < host'.reply
      BY <1>1, <1>14 DEF Last
    <3> QED BY <1>10, <2>1, <3>1, <3>2 DEF ReplyInv
  <2>2. CASE ~Crashed /\ ~Requested
    <3>1. reply = 0 BY <1>14, <2>2 DEF Last, Ends, Due
    <3>2. host'.pc = "idle" BY <1>1, <3>1
    <3>3. from.len = 0 BY <2>2 DEF ReplyInv
    <3> QED BY <1>9, <1>10, <2>2, <3>2, <3>3 DEF ReplyInv
  <2>3. CASE ~Crashed /\ Requested
    <3>1. Asked BY <1>1, <1>15, <2>3 DEF ReplyInv, Writing, Written
    <3>2. guest.reply > 0 /\ guest.reply \in Nat BY <2>3, GotTyped DEF Requested
    <3>3. CASE Nothing'
      <4>1. reply = guest.reply BY <1>14, <2>3, <3>3 DEF Last, Ends, Due
      <4>2. host'.pc = "reply" /\ host'.reply = guest.reply /\ host'.sent = 0
        BY <1>1, <3>2, <4>1
      <4>3. Len(guest.got) + from.len = 0 BY <3>1 DEF Asked
      <4>4. Writing' BY <1>9, <4>2, <4>3 DEF Writing
      <4> QED BY <1>9, <1>10, <2>3, <3>2, <3>3, <4>2, <4>4 DEF ReplyInv
    <3>4. CASE ~Nothing'
      <4>1. reply = 0 BY <1>14, <3>4 DEF Last
      <4>2. host'.pc = "idle" BY <1>1, <4>1
      <4>3. Asked' BY <1>9, <3>1, <3>4, <4>2 DEF Asked
      <4> QED BY <1>10, <2>3, <4>2, <4>3 DEF ReplyInv
    <3> QED BY <3>3, <3>4
  <2> QED BY <2>1, <2>2, <2>3
<1> QED BY <1>10, <1>11, <1>13, <1>16

LEMMA OrderedCommitBuffer ==
  ASSUME Known, Ordered, commitBuffer
  PROVE  Ordered'
<1> USE DEF Known, Basics, Ordered
<1> DEFINE k == todo  l == from.len  p == from.pos  g == Len(guest.got)
<1>1. /\ l \in Nat /\ p \in Int /\ host.sent \in Nat /\ host.reply \in Nat
      /\ l <= Size - 1 /\ host.sent < host.reply /\ g \in Nat /\ host.pc = "reply" /\ k > 0
  <2>1. host.pc = "reply" /\ k > 0 BY DEF commitBuffer
  <2>2. host.sent < host.reply BY <2>1 DEF ReplyInv
  <2>3. guest.got \in Seq(Cells) BY GotTyped
  <2>4. g \in Nat BY <2>3, LenProperties
  <2>5. from \in Ring BY DEF Typed
  <2>6. l \in Nat /\ p \in Int /\ l <= Size - 1 BY <2>5, SizePositive DEF Ring
  <2>7. host.sent \in Nat /\ host.reply \in Nat BY HostTyped
  <2> HIDE DEF k, l, p, g
  <2> QED BY <2>1, <2>2, <2>4, <2>6, <2>7
<1>2. k \in Nat /\ k <= host.reply - host.sent /\ l + k <= Size - 1
  <2>1. host.reply - host.sent \in Nat /\ Room(from) \in Nat /\ Room(from) = Size - 1 - l
    BY <1>1, SizePositive DEF Room
  <2>2. /\ k \in Nat /\ k <= host.reply - host.sent /\ k <= Room(from)
    BY <2>1, LesserNat DEF todo
  <2> HIDE DEF k
  <2> QED BY <1>1, <2>1, <2>2, SizePositive
<1>3. Len(Answer(k)) = k BY <1>2, AnswerTyped DEF Typed
<1>4. /\ buf' = Stored(p + l, Answer(k)) /\ from' = Pushed(from, k)
      /\ host' = [host EXCEPT !.sent = @ + k,
                              !.pc = IF host.sent + k = host.reply THEN "idle" ELSE "reply"]
      /\ UNCHANGED <<to_host, large, guest>>
  BY DEF commitBuffer
<1> HIDE DEF k
<1>5. /\ host'.sent = host.sent + k /\ host'.reply = host.reply
      /\ host'.pc = IF host.sent + k = host.reply THEN "idle" ELSE "reply"
      /\ host'.data = host.data /\ host'.rest = host.rest /\ host'.expect = host.expect
  BY <1>4 DEF Typed, Hosts
<1>6. from'.len = l + k /\ from'.pos = p BY <1>4 DEF Pushed, Typed, Ring
<1> HIDE DEF l, p, g
<1>7. Nothing BY <1>1 DEF ReplyInv
<1>8. Read' = Read /\ Taken1 = 0 /\ Taken1' = 0 /\ Taken3 = 0 /\ Taken3' = 0
  BY <1>1, <1>5 DEF Read, Taken1, Taken3
<1>9. Nothing' BY <1>4, <1>7, <1>8 DEF Nothing
<1>10. /\ Crashed' = Crashed /\ Frontier' = Frontier /\ Requested' = Requested
       /\ Ends' = Ends /\ Frontiers' = Frontiers /\ Lag' = Lag
  BY <1>4, GuestSame
<1>11. StreamInv' /\ host.expect \in Frontiers
  <2>1. Stream(buf, <<>>, host.expect, to_host, 0, large, 0, Ends, Frontiers)
    BY <1>7, <1>8 DEF StreamInv, Nothing
  <2>2. Len(to_host) = 0 /\ large.len = 0 BY <1>7, <1>8 DEF Nothing
  <2>3. /\ Stream(buf', <<>>, host.expect, to_host, 0, large, 0, Ends, Frontiers)
        /\ host.expect \in Frontiers
    BY <2>1, <2>2, StreamNothing, HostTyped
  <2> QED BY <1>4, <1>5, <1>7, <1>8, <1>10, <2>3 DEF StreamInv, Nothing
<1>12. ~Crashed => Requested /\ Writing
  <2>1. ~Crashed => Requested BY <1>1 DEF ReplyInv
  <2>2. ~Asked /\ ~Written BY <1>1 DEF Asked, Written
  <2> QED BY <2>1, <2>2 DEF ReplyInv
<1>13. FilledInv'
  <2>1. guest.pc # "slot" BY <1>12 DEF Crashed, Requested
  <2> QED BY <1>4, <2>1 DEF FilledInv
<1>14. ReplyInv'
  <2>1. host'.pc = "reply" => host'.sent < host'.reply BY <1>1, <1>2, <1>5
  <2>2. CASE Crashed
    <3>1. ~Requested' BY <1>10, <2>2 DEF Crashed, Requested
    <3> QED BY <1>9, <1>10, <2>1, <2>2, <3>1 DEF ReplyInv
  <2>3. CASE ~Crashed
    <3>1. g + l = host.sent /\ host.reply = guest.reply
      BY <1>12, <2>3 DEF Writing, g, l
    <3>2. g + (l + k) = host.sent + k BY <1>1, <1>2, <3>1
    <3>3. Len(guest'.got) + from'.len = host.sent + k BY <1>4, <1>6, <3>2 DEF g
    <3>4. Writing' \/ Written'
      BY <1>4, <1>5, <1>9, <3>1, <3>3 DEF Writing, Written
    <3> QED BY <1>9, <1>10, <1>12, <2>1, <2>3, <3>4 DEF ReplyInv
  <2> QED BY <2>2, <2>3
<1>15. FromInv'
  <2> SUFFICES ASSUME ~Crashed', NEW j \in 0 .. from'.len - 1
               PROVE  buf'[Off(from'.pos, j)] =
                        Reply(Frontier' - 1, Len(guest'.got) + j + 1)
    BY Zenon DEF FromInv
  <2>0. ~Crashed /\ j \in 0 .. l + k - 1 /\ Len(guest'.got) = g
    <3>1. ~Crashed BY <1>10
    <3>2. j \in 0 .. l + k - 1 BY <1>1, <1>2, <1>6
    <3>3. guest' = guest BY <1>4
    <3>4. Len(guest'.got) = g BY <3>3 DEF g
    <3> QED BY <3>1, <3>2, <3>4
  <2> SUFFICES buf'[Off(p, j)] = Reply(Frontier - 1, g + j + 1)
    BY <1>6, <1>10, <2>0
  <2> USE <2>0
  <2>1. j \in Int /\ l \in Int /\ p + l \in Int BY <1>1, <1>2
  <2>2. host.expect = Frontier BY <1>11 DEF Frontiers
  <2>3. CASE j < l
    <3>1. j \in 0 .. l - 1 BY <1>1, <1>2, <2>3
    <3>2. ASSUME NEW i \in 0 .. k - 1 PROVE Off(p, j) # Off(p + l, i)
      <4>1. i \in Int /\ l + i \in Int /\ j # l + i /\ j - (l + i) < Size /\ (l + i) - j < Size
        BY <1>1, <1>2, <2>1, <2>3, SizePositive
      <4>2. Off(p, j) # Off(p, l + i) BY <1>1, <2>1, <4>1, OffApart
      <4>3. (p + l) + i = p + (l + i) BY <1>1, <2>1, <4>1
      <4> QED BY <4>2, <4>3 DEF Off
    <3>3. Off(p, j) \in 0 .. Size - 1 BY <1>1, <2>1, OffRange
    <3>4. buf'[Off(p, j)] = buf[Off(p, j)]
      BY <1>2, <1>3, <1>4, <2>1, <3>2, <3>3, StoredElsewhere
    <3> QED BY <3>1, <3>4 DEF FromInv, p, l, g
  <2>4. CASE ~(j < l)
    <3> DEFINE i == j - l
    <3>1. i \in 0 .. k - 1 /\ i \in Int /\ i + 1 \in 1 .. k /\ l + i = j /\ k <= Size
      BY <1>1, <1>2, <2>1, <2>4, SizePositive
    <3> HIDE DEF i
    <3>2. buf'[Off(p + l, i)] = Answer(k)[i + 1]
      BY <1>2, <1>3, <1>4, <2>1, <3>1, StoredHere
    <3>3. Off(p + l, i) = Off(p, j)
      <4>1. (p + l) + i = p + j BY <1>1, <2>1, <3>1
      <4> QED BY <4>1 DEF Off
    <3>4. Answer(k)[i + 1] = Reply(host.expect - 1, host.sent + (i + 1))
      BY <3>1 DEF Answer
    <3>5. host.sent + (i + 1) = g + j + 1
      <4>1. g + l = host.sent BY <1>12 DEF Writing, g, l
      <4> QED BY <1>1, <2>1, <3>1, <4>1
    <3> QED BY <2>2, <3>2, <3>3, <3>4, <3>5
  <2> QED BY <2>3, <2>4
<1>16. PlacesInv' BY <1>4, <1>10 DEF PlacesInv
<1>17. GotInv' BY <1>4, GotKeeps
<1> QED BY <1>11, <1>13, <1>14, <1>15, <1>16, <1>17

LEMMA OrderedGiveUpReply ==
  ASSUME Known, Ordered, GiveUpReply
  PROVE  Ordered'
<1> USE DEF Known, Basics, Ordered
<1>1. /\ host.pc = "reply" /\ host'.pc = "idle" /\ KeepsData
      /\ UNCHANGED <<guest, buf, from, to_host, large>> /\ host_state = "EXIT"
  BY DEF GiveUpReply, HostAt, Typed, Hosts, KeepsData, shared
<1>2. Crashed
  <2>1. guest.pc \in {"closed", "crashed"} BY <1>1 DEF States, Gone
  <2>2. guest.pc = "closed" => ~Requested /\ ~Crashed BY DEF Requested, Crashed
  <2> QED BY <1>1, <2>1, <2>2 DEF ReplyInv, Crashed
<1>3. /\ FilledInv' /\ FromInv' /\ GotInv' /\ Crashed' = Crashed /\ Lag' = Lag
      /\ Requested' = Requested /\ Ends' = Ends /\ Frontiers' = Frontiers
  BY <1>1, HostKeeps
<1>4. Read' = Read /\ Taken1' = Taken1 /\ Taken3' = Taken3
  BY <1>1 DEF KeepsData, Read, Taken1, Taken3
<1>5. StreamInv' BY <1>1, <1>3, <1>4 DEF StreamInv, KeepsData
<1>6. ReplyInv'
  <2>1. ~Requested BY <1>2 DEF Crashed, Requested
  <2> QED BY <1>1, <1>2, <1>3, <2>1 DEF ReplyInv
<1>7. PlacesInv' BY <1>1, <1>3 DEF PlacesInv
<1> QED BY <1>3, <1>5, <1>6, <1>7

LEMMA OrderedCrash ==
  ASSUME Known, Ordered, Crash
  PROVE  Ordered'
<1> USE DEF Known, Basics, Ordered
<1>1. /\ guest.pc # "crashed" /\ guest'.pc = "crashed" /\ guest'.reply = 0
      /\ guest'.got = <<>> /\ guest'.async = FALSE
      /\ UNCHANGED <<host, buf, from, to_host, large>>
  BY DEF Crash, Gone, NoCall, shared
<1>2. ~Crashed /\ Crashed' /\ ~Requested' BY <1>1 DEF Crashed, Requested
<1>3. Read' = Read /\ Taken1' = Taken1 /\ Taken3' = Taken3
  BY <1>1 DEF Read, Taken1, Taken3
<1>4. StreamInv'
  <2>1. Ends \subseteq Nat /\ Frontiers \subseteq 0 .. Numbers - 1
    BY <1>2, PutTyped DEF Ends, Frontiers
  <2>2. Ends' = Nat /\ Frontiers' = 0 .. Numbers - 1 BY <1>2 DEF Ends, Frontiers
  <2>3. Stream(buf, Read, host.expect, to_host, Taken1, large, Taken3,
               Nat, 0 .. Numbers - 1)
    BY <2>1, StreamGrows DEF StreamInv
  <2> QED BY <1>1, <1>3, <2>2, <2>3 DEF StreamInv
<1>5. FilledInv' /\ FromInv' BY <1>1, <1>2 DEF FilledInv, FromInv
<1>6. PlacesInv' BY <1>1, <1>2 DEF PlacesInv
<1>7. ReplyInv'
  <2>1. Nothing' = Nothing BY <1>1, <1>3 DEF Nothing
  <2> QED BY <1>1, <1>2, <2>1 DEF ReplyInv
<1>8. GotInv' BY <1>1 DEF GotInv, RepliesInOrder
<1> QED BY <1>4, <1>5, <1>6, <1>7, <1>8

-----------------------------------------------------------------------------
LEMMA InitOrdered == Init => Ordered
<1> SUFFICES ASSUME Init PROVE Ordered
  OBVIOUS
<1>1. /\ Typed /\ guest.pc = "idle" /\ guest.got = <<>> /\ guest.seq = 0
      /\ guest.async = FALSE /\ guest.slot = 0 /\ host.pc = "idle"
      /\ host.data = <<>> /\ host.rest = <<>> /\ host.expect = 0
      /\ to_host = <<>> /\ large.len = 0 /\ from.len = 0
  BY InitTyped DEF Init, NoCall
<1>2. /\ ~Crashed /\ ~Requested /\ Frontier = 0
      /\ Ends = {0} /\ Frontiers = {0}
  <2>1. Put = 0 BY <1>1 DEF Put, Advanced1, Pushing
  <2>2. Num(0, 0) = 0
    <3>1. 0 \in 0 .. Numbers - 1 BY SizePositive
    <3> QED BY <3>1, NumZero
  <2>3. ~Crashed /\ ~Requested BY <1>1 DEF Crashed, Requested
  <2> QED BY <1>1, <2>1, <2>2, <2>3 DEF Frontier, Ends, Frontiers, Due
<1>3. Read = <<>> /\ Taken1 = 0 /\ Taken3 = 0
  BY <1>1, ConcatEmptySeq, NoCells DEF Read, Taken1, Taken3
<1>4. StreamInv
  <2> DEFINE at == [i \in 1 .. 1 |-> 0]
  <2>1. Len(to_host) = 0 /\ Len(<<>>) = 0 BY <1>1
  <2>2. at \in [1 .. Len(to_host) + 1 -> 0 .. Numbers - 1] /\ at[1] = 0
    BY <2>1, SizePositive
  <2> HIDE DEF at
  <2>3. Num(0, 0) = 0
    <3>1. 0 \in 0 .. Numbers - 1 BY SizePositive
    <3> QED BY <3>1, NumZero
  <2>4. Row(<<>>, 0, Last(Len(to_host) = 0 /\ large.len = 0, {0})) BY RowNothing
  <2>5. SlotRow(buf, to_host, 0, at, {0}) BY <2>1 DEF SlotRow
  <2>6. Block(buf, Off(large.pos, 0), large.len - 0, at[Len(to_host) + 1], {0})
    BY <1>1 DEF Block
  <2>7. at[0 + 1] = Num(0, Len(<<>>)) /\ Num(at[Len(to_host) + 1], large.len - 0) \in {0}
    BY <1>1, <2>1, <2>2, <2>3
  <2>8. StreamAt(buf, <<>>, 0, to_host, 0, large, 0, {0}, {0}, at)
    BY <1>1, <2>1, <2>4, <2>5, <2>6, <2>7 DEF StreamAt
  <2>9. Stream(buf, <<>>, 0, to_host, 0, large, 0, {0}, {0}) BY <2>2, <2>8 DEF Stream
  <2> QED BY <1>1, <1>2, <1>3, <2>9 DEF StreamInv
<1>5. FilledInv BY <1>1 DEF FilledInv
<1>6. PlacesInv
  <2>1. Len(to_host) = 0 BY <1>1
  <2>2. 0 <= maxOutstanding
    <3>1. Size \div Step \in Int BY ModQ, SizePositive
    <3> QED BY <3>1 DEF maxOutstanding
  <2> QED BY <1>1, <2>1, <2>2 DEF PlacesInv, Places
<1>7. ReplyInv BY <1>1, <1>2 DEF ReplyInv
<1>8. FromInv BY <1>1 DEF FromInv
<1>9. GotInv BY <1>1 DEF GotInv, RepliesInOrder
<1> QED BY <1>4, <1>5, <1>6, <1>7, <1>8, <1>9 DEF Ordered

LEMMA OrderedStep ==
  ASSUME Step < Size, Known, Ordered, [Next]_vars
  PROVE  Ordered'
<1>1. CASE UNCHANGED vars
  <2>1. HostView BY <1>1 DEF vars, shared, HostView, Read, Taken1, Taken3, KeepsRings
  <2> QED BY <2>1, HostViewKeeps
<1>2. CASE \/ \E size \in Sends, reply \in Replies :
                allocBuffer(size, reply) \/ write(size, reply, FALSE)
           \/ \E size \in Sends : write(size, 0, TRUE)
           \/ Close \/ ensureType3Finished \/ ensureType1Finished \/ PingType1
           \/ AfterType1Write \/ StartLarge \/ PingType3 \/ AfterLarge
  BY <1>2, QuietGuest, GuestViewKeeps
<1>3. CASE \/ \E want \in Wants : readRaw(want)
           \/ TopOfLoop \/ CheckSmall \/ CheckLarge \/ type3Read \/ FoundNothing
           \/ Spin \/ Sleep \/ Wake \/ WakeToExit \/ Return \/ Destroy
  BY <1>3, QuietHost, HostViewKeeps
<1>4. CASE Fill BY <1>4, OrderedFill
<1>5. CASE type1Write BY <1>5, OrderedType1Write
<1>6. CASE Chunk BY <1>6, OrderedChunk
<1>7. CASE speculativeRead BY <1>7, OrderedSpeculativeRead
<1>8. CASE type1Read BY <1>8, OrderedType1Read
<1>9. CASE AdvanceType1 BY <1>9, OrderedAdvanceType1
<1>10. CASE CopyType3 BY <1>10, OrderedCopyType3
<1>11. CASE AdvanceType3 BY <1>11, OrderedAdvanceType3
<1>12. CASE Decode BY <1>12, OrderedDecode
<1>13. CASE commitBuffer BY <1>13, OrderedCommitBuffer
<1>14. CASE GiveUpReply BY <1>14, OrderedGiveUpReply
<1>15. CASE Crash BY <1>15, OrderedCrash
<1> QED
  BY <1>1, <1>2, <1>3, <1>4, <1>5, <1>6, <1>7, <1>8, <1>9, <1>10, <1>11, <1>12,
     <1>13, <1>14, <1>15
  DEF Next, GuestStep, HostStep, writeFully, writeFullyAsync

LEMMA OrderedInvariance ==
  ASSUME Step < Size
  PROVE  Spec => [](Known /\ Ordered)
<1>1. Init => Awakes /\ Ordered BY InitAwakes, InitOrdered
<1>2. Awakes /\ Ordered /\ [Next]_vars => Awakes' /\ Ordered'
  BY AwakesStep, OrderedStep DEF Awakes, Known
<1>3. Awakes /\ Ordered => Known /\ Ordered BY DEF Awakes, Known
<1> QED BY <1>1, <1>2, <1>3, PTL DEF Spec

(* The decoder is handed what the guest sent (type1Write and writeFully,   *)
(* AddressSpaceStream.cpp:726, 453), each cell once and in order (readRaw, *)
(* RingStream.cpp:99): no slot and no chunk is overwritten before it was   *)
(* read, whichever of the three uses of the buffer comes after which.  The *)
(* buffer has at least two slots, as the device sets it up                 *)
(* (virtio-gpu-gfxstream-renderer.cpp:2116): with one, type1Write falls    *)
(* back to one slot outstanding (:747) and the next overwrites it.         *)
THEOREM CellsArriveInOrder ==
  ASSUME Step < Size
  PROVE  Spec => []ReceivesInOrder
<1>1. ASSUME Known, Ordered PROVE ReceivesInOrder
  <2>1. Row(Read, host.expect, Last(Len(to_host) = Taken1 /\ large.len = Taken3, Ends))
    BY <1>1 DEF Ordered, StreamInv, Stream, StreamAt
  <2>2. ASSUME NEW i \in 1 .. Len(Read)
        PROVE  Read[i].kind = "cmd" /\ Read[i].n = (host.expect + i - 1) % Numbers
    <3>1. Read[i].kind = "cmd" /\ Read[i].n = Num(host.expect, i - 1)
      BY <2>1 DEF Row, CellOK
    <3>2. host.expect + (i - 1) = host.expect + i - 1
      BY <1>1, HostTyped DEF Known, Basics
    <3> QED BY <3>1, <3>2 DEF Num
  <2> QED BY <2>2 DEF ReceivesInOrder, Read
<1> QED BY <1>1, OrderedInvariance, PTL

(* What readFully returns (speculativeRead, AddressSpaceStream.cpp:606) is *)
(* the reply to the command just sent, cell by cell, as commitBuffer wrote *)
(* it (RingStream.cpp:53): the guest never takes its own cells, or those   *)
(* of an earlier reply, for it.                                            *)
THEOREM ReplyArrivesInOrder ==
  ASSUME Step < Size
  PROVE  Spec => []RepliesInOrder
<1>1. Ordered => RepliesInOrder BY DEF Ordered, GotInv
<1> QED BY <1>1, OrderedInvariance, PTL
=============================================================================
