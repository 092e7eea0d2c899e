----------------------------- MODULE RingBuffer -----------------------------
(***************************************************************************)
(* The ring of ring_buffer.c: one producer and one consumer in different   *)
(* address spaces, two positions that only ever grow (modulo 2^32) and a   *)
(* buffer that both touch without a lock.  memcpy is one step per byte;    *)
(* the positions are read and advanced with sequentially consistent        *)
(* atomics, so the steps of the two threads interleave.                    *)
(*                                                                         *)
(* A mask of Size - 1 is a remainder by Size, and 2^32 is Size * Laps.     *)
(*                                                                         *)
(* The calls with a view and those on the 2048 bytes inside the struct     *)
(* differ in ring_buffer_copy_contents alone; "view" says which one is in  *)
(* use.  Callers pass the sizes below and may stop between two calls.      *)
(***************************************************************************)
EXTENDS Integers, Sequences

CONSTANTS
  Size,       \* bytes of the ring, a power of two in the code
  Laps,       \* how often Size fits into 2^32
  Byte,       \* the contents of a byte
  StepSizes,  \* step_size of ring_buffer_(view_)write and _read
  Counts,     \* their number of steps
  Lengths     \* bytes of the "fully" and copy_contents calls

ASSUME SizeAssumption == /\ Size \in Nat /\ Size > 1
                         /\ Laps \in Nat /\ Laps > 0
ASSUME CallAssumption == /\ StepSizes \subseteq Nat \ {0}
                         /\ Counts \subseteq Nat \ {0}
                         /\ Lengths \subseteq Nat \ {0}
ASSUME ByteAssumption == Byte # {}

VARIABLES
  view,       \* whether the calls pass a ring_buffer_view
  read_pos, write_pos,
  buf,
  prod,       \* the producer's call: where it is and what is left of it
  cons,       \* the consumer's
  aborted     \* *abort_ptr = abort_value

vars == <<view, read_pos, write_pos, buf, prod, cons, aborted>>

(***************************************************************************)
(* Positions.                                                              *)
(***************************************************************************)
Wrap == Size * Laps
Slot(pos) == pos % Size
AdvancedWide(pos, n) == pos + n   \* variant: a counter of more bits
Advanced(pos, n) == (pos + n) % Wrap

available_read == Slot((write_pos - read_pos) % Wrap)
can_read(bytes) == available_read >= bytes
can_writeAll(bytes) == Size - available_read >= bytes   \* variant: no free slot
can_write(bytes) == Slot((read_pos - write_pos - 1) % Wrap) >= bytes

(* The slot of byte k of a memcpy that starts at pos and is split in two   *)
(* parts when more than atEnd bytes are wanted.                            *)
UnsplitSlot(pos, atEnd, k) == Slot(pos) + k   \* variant: a single memcpy

CopySlot(pos, atEnd, k) ==
  IF k < atEnd THEN Slot(pos) + k ELSE Slot(pos + atEnd) + (k - atEnd)

AtEnd(pos) == Size - Slot(pos)
ByteAt(pos, k) == CopySlot(pos, AtEnd(pos), k)

(* What the consumer has not taken yet, oldest byte first. *)
Contents == [i \in 1 .. available_read |-> buf[Slot(read_pos + i - 1)]]

(***************************************************************************)
(* A call in progress: which, the size of its steps, the bytes left, and   *)
(* the bytes of the present chunk that are copied.  A loop of fixed steps  *)
(* gives up when the ring is full or empty; a "fully" call waits, and      *)
(* looks at *abort_ptr after each chunk.                                   *)
(***************************************************************************)
Idle == [pc |-> "idle", op |-> "none", step |-> 0, left |-> 0,
         data |-> <<>>, atEnd |-> 0]

Call(op, step, left) ==
  [pc |-> "check", op |-> op, step |-> step, left |-> left,
   data |-> <<>>, atEnd |-> 0]

get_step_sizeWhole(bytes) ==   \* variant: as much as ever fits
  IF Size - 1 < bytes THEN Size - 1 ELSE bytes

get_step_size(bytes) ==
  IF Size \div 2 < bytes THEN Size \div 2 ELSE bytes

Chunk(call) == IF call.left < call.step THEN call.left ELSE call.step

(* The "advance" calls copy nothing.                                       *)
Copied(call) == call.op = "advance" \/ Len(call.data) = Chunk(call)

At(call, place) == [call EXCEPT !.pc = place]
WithByte(call, b) == [call EXCEPT !.data = Append(call.data, b)]

(* The end of a chunk that "fully" calls follow with a look at *abort_ptr. *)
AfterChunkAgain(call) ==   \* variant: the bytes are not counted
  IF call.left = Chunk(call) THEN Idle
  ELSE [call EXCEPT !.pc = "check", !.data = <<>>]

AfterChunk(call) ==
  IF call.left = Chunk(call) THEN Idle
  ELSE [call EXCEPT !.pc = IF call.op = "fully" THEN "abort" ELSE "check",
                    !.left = call.left - Chunk(call), !.data = <<>>]

Init ==
  /\ view \in BOOLEAN
  /\ read_pos = 0 /\ write_pos = 0
  /\ buf \in [0 .. Size - 1 -> Byte]   \* nobody clears it
  /\ prod = Idle /\ cons = Idle
  /\ aborted = FALSE

(***************************************************************************)
(* The producer.                                                           *)
(***************************************************************************)
ring_buffer_write(step_size, steps) ==
  /\ prod = Idle
  /\ prod' = Call("steps", step_size, step_size * steps)
  /\ UNCHANGED <<view, read_pos, write_pos, buf, cons, aborted>>

ring_buffer_advance_write(step_size, steps) ==
  /\ prod = Idle
  /\ prod' = Call("advance", step_size, step_size * steps)
  /\ UNCHANGED <<view, read_pos, write_pos, buf, cons, aborted>>

ring_buffer_write_fully_with_abort(bytes) ==
  /\ prod = Idle
  /\ prod' = Call("fully", get_step_size(bytes), bytes)
  /\ UNCHANGED <<view, read_pos, write_pos, buf, cons, aborted>>

(* A step that does not fit ends the call with -EAGAIN, or is tried again. *)
CheckWrite ==
  /\ prod.pc = "check"
  /\ IF can_write(Chunk(prod))
       THEN prod' = At(prod, "copy")
       ELSE prod.op # "fully" /\ prod' = Idle
  /\ UNCHANGED <<view, read_pos, write_pos, buf, cons, aborted>>

CopyIn ==
  /\ prod.pc = "copy" /\ ~Copied(prod)
  /\ \E b \in Byte :
       /\ buf' = [buf EXCEPT ![ByteAt(write_pos, Len(prod.data))] = b]
       /\ prod' = WithByte(prod, b)
  /\ UNCHANGED <<view, read_pos, write_pos, cons, aborted>>

AddWritePos ==
  /\ prod.pc = "copy" /\ Copied(prod)
  /\ write_pos' = Advanced(write_pos, Chunk(prod))
  /\ prod' = AfterChunk(prod)
  /\ UNCHANGED <<view, read_pos, buf, cons, aborted>>

CheckAbortWrite ==
  /\ prod.pc = "abort"
  /\ prod' = IF aborted THEN Idle ELSE At(prod, "check")
  /\ UNCHANGED <<view, read_pos, write_pos, buf, cons, aborted>>

(***************************************************************************)
(* The consumer.                                                           *)
(***************************************************************************)
ring_buffer_read(step_size, steps) ==
  /\ cons = Idle
  /\ cons' = Call("steps", step_size, step_size * steps)
  /\ UNCHANGED <<view, read_pos, write_pos, buf, prod, aborted>>

ring_buffer_advance_read(step_size, steps) ==
  /\ cons = Idle
  /\ cons' = Call("advance", step_size, step_size * steps)
  /\ UNCHANGED <<view, read_pos, write_pos, buf, prod, aborted>>

ring_buffer_read_fully_with_abort(bytes) ==
  /\ cons = Idle
  /\ cons' = Call("fully", get_step_size(bytes), bytes)
  /\ UNCHANGED <<view, read_pos, write_pos, buf, prod, aborted>>

CheckRead ==
  /\ cons.pc = "check"
  /\ IF can_read(Chunk(cons))
       THEN cons' = At(cons, "copy")
       ELSE cons.op # "fully" /\ cons' = Idle
  /\ UNCHANGED <<view, read_pos, write_pos, buf, prod, aborted>>

CopyOut ==
  /\ cons.pc = "copy" /\ ~Copied(cons)
  /\ cons' = WithByte(cons, buf[ByteAt(read_pos, Len(cons.data))])
  /\ UNCHANGED <<view, read_pos, write_pos, buf, prod, aborted>>

AddReadPos ==
  /\ cons.pc = "copy" /\ Copied(cons)
  /\ read_pos' = Advanced(read_pos, Chunk(cons))
  /\ cons' = AfterChunk(cons)
  /\ UNCHANGED <<view, write_pos, buf, prod, aborted>>

CheckAbortRead ==
  /\ cons.pc = "abort"
  /\ cons' = IF aborted THEN Idle ELSE At(cons, "check")
  /\ UNCHANGED <<view, read_pos, write_pos, buf, prod, aborted>>

(* ring_buffer_copy_contents: total_available and available_at_end are     *)
(* two loads; without a view the second is measured from write_pos.        *)
ring_buffer_copy_contents(wanted_bytes) ==
  /\ cons = Idle
  /\ available_read >= wanted_bytes   \* else -1, and nothing else
  /\ cons' = At(Call("peek", wanted_bytes, wanted_bytes), "measure")
  /\ UNCHANGED <<view, read_pos, write_pos, buf, prod, aborted>>

PeekPosWritten == write_pos   \* variant: as without a view
PeekPos == IF view THEN read_pos ELSE write_pos

MeasureEnd ==
  /\ cons.pc = "measure"
  /\ cons' = [At(cons, "peek") EXCEPT !.atEnd = AtEnd(PeekPos)]
  /\ UNCHANGED <<view, read_pos, write_pos, buf, prod, aborted>>

(* Beyond the end of buf lie "state" and "config": some byte is read.      *)
PeekOut ==
  /\ cons.pc = "peek"
  /\ LET slot == CopySlot(read_pos, cons.atEnd, Len(cons.data))
     IN  IF Len(cons.data) = cons.left THEN cons' = Idle
         ELSE IF slot < Size THEN cons' = WithByte(cons, buf[slot])
         ELSE \E b \in Byte : cons' = WithByte(cons, b)
  /\ UNCHANGED <<view, read_pos, write_pos, buf, prod, aborted>>

(* Whoever owns *abort_ptr sets it once. *)
Abort ==
  /\ ~aborted
  /\ aborted' = TRUE
  /\ UNCHANGED <<view, read_pos, write_pos, buf, prod, cons>>

ProducerStep == CheckWrite \/ CopyIn \/ AddWritePos \/ CheckAbortWrite

ConsumerStep ==
  CheckRead \/ CopyOut \/ AddReadPos \/ CheckAbortRead \/ MeasureEnd \/ PeekOut

Next ==
  \/ \E n \in StepSizes, c \in Counts :
       \/ ring_buffer_write(n, c) \/ ring_buffer_advance_write(n, c)
       \/ ring_buffer_read(n, c) \/ ring_buffer_advance_read(n, c)
  \/ \E n \in Lengths :
       \/ ring_buffer_write_fully_with_abort(n)
       \/ ring_buffer_read_fully_with_abort(n)
       \/ ring_buffer_copy_contents(n)
  \/ ProducerStep \/ ConsumerStep \/ Abort

(* A call that was made goes on for as long as it can.                     *)
Spec == Init /\ [][Next]_vars /\ WF_vars(ProducerStep) /\ WF_vars(ConsumerStep)

(***************************************************************************)
(* Properties.                                                             *)
(***************************************************************************)
Calls ==
  [pc : {"idle", "check", "copy", "abort", "measure", "peek"},
   op : {"none", "steps", "advance", "fully", "peek"},
   step : Nat, left : Nat, data : Seq(Byte), atEnd : 0 .. Size]

CallType(call) == call \in Calls /\ Len(call.data) <= Chunk(call)

(* Positions stay inside 2^32, and a memcpy inside the ring it belongs to. *)
TypeOK ==
  /\ view \in BOOLEAN /\ aborted \in BOOLEAN
  /\ read_pos \in 0 .. Wrap - 1 /\ write_pos \in 0 .. Wrap - 1
  /\ buf \in [0 .. Size - 1 -> Byte]
  /\ CallType(prod) /\ CallType(cons)

(* bytes is the beginning of the contents. *)
Oldest(bytes) ==
  /\ Len(bytes) <= Len(Contents)
  /\ \A i \in 1 .. Len(bytes) : bytes[i] = Contents[i]

(* ring_buffer_read: the bytes it has copied are the oldest bytes of the   *)
(* ring, whatever the producer does meanwhile and wherever the ring wraps. *)
ReadsOldest == cons.pc = "copy" => Oldest(cons.data)

(* ring_buffer_copy_contents: bytes that do not lie behind the end of the  *)
(* buffer are the oldest bytes of the ring.                                *)
PeeksUpToEnd ==
  \A i \in 1 .. Len(cons.data) :
     cons.op = "peek" /\ (view \/ i <= AtEnd(read_pos)) =>
       cons.data[i] = Contents[i]

(* ring_buffer_write: what is published is appended to the contents, as it *)
(* was written, also while the consumer is reading; nothing else changes   *)
(* the contents but the removal of their oldest bytes.                     *)
PublishesWritten ==
  [][/\ write_pos' # write_pos /\ prod.op # "advance" =>
          Contents' = Contents \o prod.data
     /\ write_pos' = write_pos =>
          \E n \in 0 .. Len(Contents) :
            Contents' = SubSeq(Contents, n + 1, Len(Contents))]_vars

(* get_step_size: two "fully" calls never wait for one another.            *)
NeverBothWait ==
  ~ /\ prod.pc = "check" /\ prod.op = "fully" /\ ~can_write(Chunk(prod))
    /\ cons.pc = "check" /\ cons.op = "fully" /\ ~can_read(Chunk(cons))

(* ... and so one of them ends.                                            *)
OneEnds == (prod # Idle /\ cons # Idle) ~> (prod = Idle \/ cons = Idle)
=============================================================================
