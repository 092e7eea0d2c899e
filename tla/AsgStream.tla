------------------------------ MODULE AsgStream ------------------------------
(***************************************************************************)
(* The address-space stream: a guest thread (AddressSpaceStream.cpp) and   *)
(* the host's render thread (RingStream.cpp) that share one buffer in      *)
(* three ways without a lock:                                              *)
(*                                                                         *)
(*   type 1   the guest fills a slot of the buffer and puts its place into *)
(*            the ring to_host;                                            *)
(*   type 3   the whole buffer is the ring to_host_large_xfer, and         *)
(*            transfer_size says how much is still to come;                *)
(*   replies  the whole buffer is the ring from_host_large_xfer.           *)
(*                                                                         *)
(* host_state tells the guest whether the host has to be woken.  A cell of *)
(* the buffer stands for as many bytes as are moved together; what is in   *)
(* it says which cell of the guest's stream, or of a reply, it is.  The    *)
(* rings are fifos here: module RingBuffer shows that they are.            *)
(*                                                                         *)
(* in_error, which nothing in the repository sets, stays 0.                *)
(***************************************************************************)
EXTENDS Integers, Sequences, FiniteSetsExt

CONSTANTS
  Size,       \* cells of the buffer
  Step,       \* cells of a slot, asg_ring_config.flush_interval
  Sends,      \* cells of a transfer to the host
  Replies,    \* cells of a reply, 0 if the command has none
  Wants,      \* cells that RenderThread has room for
  Numbers,    \* cells of the stream are numbered modulo this
  MaxSpins,   \* readRaw's maxSpins
  MaxWakeups  \* wake-ups the device remembers

ASSUME SizeAssumption == /\ Step \in Nat \ {0} /\ Size \in Nat \ {0, 1}
                         /\ Size % Step = 0
ASSUME CallAssumption == /\ Sends \subseteq Nat \ {0} /\ Replies \subseteq Nat
                         /\ Wants \subseteq Nat \ {0}
ASSUME BoundAssumption == /\ Numbers \in Nat \ {0} /\ MaxSpins \in Nat \ {0}
                          /\ MaxWakeups \in Nat \ {0}

VARIABLES
  host_state, transfer_size, transfer_mode,
  buf,        \* the shared buffer
  to_host,    \* slots handed over: [offset, size]
  large,      \* to_host_large_xfer: [pos, len]
  from,       \* from_host_large_xfer: [pos, len]
  guest,      \* the guest's call in progress
  host,       \* the render thread's
  wakeups,    \* pings the device has not delivered yet
  exiting     \* whether the device has told the consumer to go

shared == <<host_state, transfer_size, transfer_mode, buf, to_host, large, from>>
vars == <<shared, guest, host, wakeups, exiting>>

(***************************************************************************)
(* Cells.                                                                  *)
(***************************************************************************)
Blank == [kind |-> "none", n |-> 0, r |-> 0]
Cmd(n, r) == [kind |-> "cmd", n |-> n % Numbers, r |-> r]
Reply(n, i) == [kind |-> "reply", n |-> n % Numbers, r |-> i]

(* Cells i .. i+k-1 of the guest's transfer; the last one asks for the     *)
(* reply.                                                                  *)
Transfer(i, k) ==
  [j \in 1 .. k |-> Cmd(guest.seq + i + j - 1,
                        IF i + j = guest.size THEN guest.reply ELSE 0)]

Stored(pos, cells) ==
  [c \in 0 .. Size - 1 |->
     LET j == (c - pos) % Size
     IN  IF j < Len(cells) THEN cells[j + 1] ELSE buf[c]]

Loaded(pos, k) == [j \in 1 .. k |-> buf[(pos + j - 1) % Size]]

RoomWhole(ring) == Size - ring.len   \* variant: a full ring looks empty
Room(ring) == Size - 1 - ring.len
Pushed(ring, k) == [ring EXCEPT !.len = @ + k]
Popped(ring, k) == [pos |-> (ring.pos + k) % Size, len |-> ring.len - k]

Lesser(a, b) == IF a < b THEN a ELSE b
Awake(state) == state \in {"CAN_CONSUME", "RENDERING"}

(* One slot stays free, the one the guest fills next.                      *)
maxOutstandingAll == Size \div Step   \* variant: every slot handed over
maxOutstanding == IF Size \div Step > 1 THEN (Size \div Step) - 1 ELSE 1

(* seq and slot stay from call to call; got is the reply to the last one.   *)
NoCall ==
  [pc |-> "idle", size |-> 0, reply |-> 0, async |-> FALSE, sent |-> 0,
   pinged |-> FALSE, looped |-> FALSE, slot |-> 0, seq |-> 0, got |-> <<>>]

Init ==
  /\ host_state = "NEED_NOTIFY"
  /\ transfer_size = 0 /\ transfer_mode = 1
  /\ buf = [c \in 0 .. Size - 1 |-> Blank]
  /\ to_host = <<>>
  /\ large = [pos |-> 0, len |-> 0] /\ from = [pos |-> 0, len |-> 0]
  /\ guest = NoCall
  /\ host = [pc |-> "idle", want |-> 0, inLarge |-> FALSE, spins |-> 0,
             avail |-> 0, data |-> <<>>, rest |-> <<>>, reply |-> 0,
             sent |-> 0, expect |-> 0, exit |-> FALSE]
  /\ wakeups = 0 /\ exiting = FALSE

(***************************************************************************)
(* The guest.                                                              *)
(***************************************************************************)
Notified == Lesser(wakeups + 1, MaxWakeups)
NotifyUnless(awake) == wakeups' = IF awake THEN wakeups ELSE Notified

GuestAt(place) == guest' = [guest EXCEPT !.pc = place]

(* What follows when all is sent: the reply is read, if there is one.      *)
Sent == [NoCall EXCEPT !.pc = IF guest.reply > 0 THEN "read" ELSE "idle",
                       !.reply = guest.reply, !.slot = guest.slot,
                       !.seq = (guest.seq + guest.size) % Numbers]

(* alloc and flush of a command of up to a slot. *)
allocBuffer(size, reply) ==
  /\ guest.pc = "idle" /\ size <= Step
  /\ guest' = [guest EXCEPT !.pc = "alloc", !.size = size, !.reply = reply,
                            !.got = <<>>]
  /\ UNCHANGED <<shared, host, wakeups, exiting>>

(* A larger one, or data of any size, through to_host_large_xfer.          *)
write(size, reply, async) ==
  /\ guest.pc = "idle"
  /\ guest' = [guest EXCEPT !.pc = "large", !.size = size, !.reply = reply,
                            !.async = async, !.got = <<>>]
  /\ UNCHANGED <<shared, host, wakeups, exiting>>

writeFully(size, reply) == write(size, reply, FALSE)
writeFullyAsync(size) == write(size, 0, TRUE)

(* The destructor. *)
Close ==
  /\ guest.pc = "idle"
  /\ guest' = [guest EXCEPT !.pc = "close", !.got = <<>>]
  /\ UNCHANGED <<shared, host, wakeups, exiting>>

(* ensureType3Finished, wherever it is called and what comes after it.     *)
AfterType3 ==
  CASE guest.pc = "alloc" -> [guest EXCEPT !.pc = "fill"]
    [] guest.pc = "large" -> [guest EXCEPT !.pc = "large1"]
    [] guest.pc = "finish" -> Sent
    [] guest.pc = "read" -> [guest EXCEPT !.pc = "read1"]
    [] guest.pc = "close" -> [guest EXCEPT !.pc = "close1"]

ensureType3Finished ==
  /\ guest.pc \in {"alloc", "large", "finish", "read", "close"}
  /\ NotifyUnless(~guest.looped \/ Awake(host_state))
  /\ guest' = IF large.len = 0 THEN [AfterType3 EXCEPT !.looped = FALSE]
                               ELSE [guest EXCEPT !.looped = TRUE]
  /\ transfer_mode' = IF guest.pc = "finish" /\ large.len = 0
                        THEN 1 ELSE transfer_mode
  /\ UNCHANGED <<host_state, transfer_size, buf, to_host, large, from, host, exiting>>

AfterType1 ==
  CASE guest.pc = "large1" -> "start"
    [] guest.pc = "read1" -> "take"
    [] guest.pc = "close1" -> "closed"

ensureType1Finished ==
  /\ guest.pc \in {"large1", "read1", "close1"}
  /\ to_host = <<>>
  /\ GuestAt(AfterType1)
  /\ UNCHANGED <<shared, host, wakeups, exiting>>

Fill ==
  /\ guest.pc = "fill"
  /\ buf' = Stored(guest.slot, Transfer(0, guest.size))
  /\ GuestAt("slot")
  /\ UNCHANGED <<host_state, transfer_size, transfer_mode, to_host, large, from,
                 host, wakeups, exiting>>

type1Write ==
  /\ guest.pc = "slot"
  /\ Len(to_host) < maxOutstanding
  /\ to_host' = Append(to_host, [offset |-> guest.slot, size |-> guest.size])
  /\ GuestAt("ping1")
  /\ UNCHANGED <<host_state, transfer_size, transfer_mode, buf, large, from,
                 host, wakeups, exiting>>

PingType1 ==
  /\ guest.pc = "ping1"
  /\ NotifyUnless(Awake(host_state))
  /\ GuestAt("after1")
  /\ UNCHANGED <<shared, host, exiting>>

(* isRenderingAfter: a host that can consume may be about to sleep.        *)
SkipsNotifyAwake == Awake(host_state)   \* variant: CAN_CONSUME will do
SkipsNotify == host_state = "RENDERING"

AfterType1Write ==
  /\ guest.pc = "after1"
  /\ NotifyUnless(SkipsNotify)
  /\ guest' = [Sent EXCEPT !.slot = (@ + Step) % Size]   \* advanceWrite
  /\ UNCHANGED <<shared, host, exiting>>

StartLarge ==
  /\ guest.pc = "start"
  /\ transfer_size' = guest.size /\ transfer_mode' = 3
  /\ GuestAt("chunk")
  /\ UNCHANGED <<host_state, buf, to_host, large, from, host, wakeups, exiting>>

(* A chunk is a quarter of the buffer, or half of it.                      *)
chunkSize ==
  Lesser(guest.size, Size \div (IF guest.async THEN 2 ELSE 4))

Chunk ==
  /\ guest.pc = "chunk"
  /\ LET k == Lesser(guest.size - guest.sent, chunkSize)
     IN  IF k <= Room(large)
           THEN /\ buf' = Stored(large.pos + large.len, Transfer(guest.sent, k))
                /\ large' = Pushed(large, k)
                /\ guest' = [guest EXCEPT !.pc = "ping3", !.sent = @ + k]
           ELSE /\ GuestAt("ping3")
                /\ UNCHANGED <<buf, large>>
  /\ UNCHANGED <<host_state, transfer_size, transfer_mode, to_host, from,
                 host, wakeups, exiting>>

PingType3Early ==   \* variant: the first look counts as a ping
  /\ guest.pc = "ping3"
  /\ LET ping == ~guest.pinged /\ ~Awake(host_state)
     IN  /\ NotifyUnless(~ping)
         /\ guest' = [guest EXCEPT !.pc = IF guest.sent < guest.size
                                            THEN "chunk" ELSE "after3",
                                   !.pinged = TRUE]
  /\ UNCHANGED <<shared, host, exiting>>

PingType3 ==
  /\ guest.pc = "ping3"
  /\ LET ping == ~guest.pinged /\ ~Awake(host_state)
     IN  /\ NotifyUnless(~ping)
         /\ guest' = [guest EXCEPT !.pc = IF guest.sent < guest.size
                                            THEN "chunk" ELSE "after3",
                                   !.pinged = @ \/ ping]
  /\ UNCHANGED <<shared, host, exiting>>

AfterLarge ==
  /\ guest.pc = "after3"
  /\ NotifyUnless(SkipsNotify)
  /\ IF guest.async
       THEN guest' = Sent /\ transfer_mode' = 1
       ELSE GuestAt("finish") /\ transfer_mode' = transfer_mode
  /\ UNCHANGED <<host_state, transfer_size, buf, to_host, large, from, host, exiting>>

(* readFully: what is there, until the reply is complete.                  *)
speculativeRead ==
  /\ guest.pc = "take" /\ from.len > 0
  /\ LET got == guest.got \o Loaded(from.pos, from.len)
     IN  guest' = [guest EXCEPT !.got = got,
                                !.pc = IF Len(got) < guest.reply THEN "read" ELSE "idle",
                                !.reply = IF Len(got) < guest.reply THEN @ ELSE 0]
  /\ from' = Popped(from, from.len)
  /\ UNCHANGED <<host_state, transfer_size, transfer_mode, buf, to_host, large,
                 host, wakeups, exiting>>

GuestStep ==
  \/ ensureType3Finished \/ ensureType1Finished \/ Fill \/ type1Write
  \/ PingType1 \/ AfterType1Write \/ StartLarge \/ Chunk \/ PingType3
  \/ AfterLarge \/ speculativeRead

(***************************************************************************)
(* The host.                                                               *)
(***************************************************************************)
HostAt(place) == host' = [host EXCEPT !.pc = place]

readRaw(want) ==
  /\ host.pc = "idle"
  /\ host' = [host EXCEPT !.pc = "top", !.want = want, !.inLarge = TRUE, !.spins = 0]
  /\ host_state' = "CAN_CONSUME"
  /\ UNCHANGED <<transfer_size, transfer_mode, buf, to_host, large, from,
                 guest, wakeups, exiting>>

(* The head of the loop: what is left of a slot comes first.               *)
TopOfLoop ==
  /\ host.pc = "top"
  /\ LET k == Lesser(host.want, Len(host.rest))
     IN  IF k > 0
           THEN /\ host' = [host EXCEPT !.pc = "back",
                                        !.data = SubSeq(host.rest, 1, k),
                                        !.rest = SubSeq(@, k + 1, Len(@))]
                /\ host_state' = host_state
           ELSE /\ HostAt(IF host.exit THEN "left" ELSE "small")
                /\ host_state' = "CAN_CONSUME"
  /\ UNCHANGED <<transfer_size, transfer_mode, buf, to_host, large, from,
                 guest, wakeups, exiting>>

CheckSmall ==
  /\ host.pc = "small"
  /\ host' = IF to_host = <<>> THEN [host EXCEPT !.pc = "large"]
             ELSE [host EXCEPT !.pc = IF transfer_mode = 1 THEN "type1" ELSE "top",
                               !.inLarge = FALSE]
  /\ UNCHANGED <<shared, guest, wakeups, exiting>>

CheckLarge ==
  /\ host.pc = "large"
  /\ host' = [host EXCEPT !.pc = IF large.len > 0 THEN "type3" ELSE "none",
                          !.avail = large.len]
  /\ UNCHANGED <<shared, guest, wakeups, exiting>>

type1Read ==
  /\ host.pc = "type1"
  /\ LET cells == Loaded(Head(to_host).offset, Head(to_host).size)
         k == Lesser(host.want, Len(cells))
     IN  host' = [host EXCEPT !.pc = "done1", !.data = SubSeq(cells, 1, k),
                              !.rest = SubSeq(cells, k + 1, Len(cells))]
  /\ UNCHANGED <<shared, guest, wakeups, exiting>>

AdvanceType1 ==
  /\ host.pc = "done1"
  /\ to_host' = Tail(to_host)
  /\ HostAt("back")
  /\ UNCHANGED <<host_state, transfer_size, transfer_mode, buf, large, from,
                 guest, wakeups, exiting>>

(* The size is taken off first, then the bytes, then the guest may go on.  *)
type3ReadKeeps ==   \* variant: it is not taken off
  /\ host.pc = "type3"
  /\ LET k == Lesser(Lesser(host.avail, transfer_size), host.want)
     IN  host' = [host EXCEPT !.pc = "copy3", !.avail = k]
  /\ UNCHANGED <<shared, guest, wakeups, exiting>>

type3Read ==
  /\ host.pc = "type3"
  /\ LET k == Lesser(Lesser(host.avail, transfer_size), host.want)
     IN  /\ host' = [host EXCEPT !.pc = "copy3", !.avail = k]
         /\ transfer_size' = transfer_size - k
  /\ UNCHANGED <<host_state, transfer_mode, buf, to_host, large, from,
                 guest, wakeups, exiting>>

CopyType3 ==
  /\ host.pc = "copy3"
  /\ host' = [host EXCEPT !.pc = "done3", !.data = Loaded(large.pos, host.avail)]
  /\ UNCHANGED <<shared, guest, wakeups, exiting>>

AdvanceType3 ==
  /\ host.pc = "done3"
  /\ large' = Popped(large, host.avail)
  /\ host' = [host EXCEPT !.pc = IF host.avail = 0 THEN "top" ELSE "back",
                          !.inLarge = transfer_size # 0, !.avail = 0]
  /\ UNCHANGED <<host_state, transfer_size, transfer_mode, buf, to_host, from,
                 guest, wakeups, exiting>>

(* Nothing there.  In the middle of a transfer the host neither sleeps nor *)
(* looks whether it should leave.                                          *)
FoundNothing ==
  /\ host.pc = "none"
  /\ HostAt(IF host.inLarge /\ transfer_size # 0 THEN "top" ELSE "spin")
  /\ UNCHANGED <<shared, guest, wakeups, exiting>>

Spin ==
  /\ host.pc = "spin"
  /\ host' = [host EXCEPT !.inLarge = @ /\ transfer_size # 0,
                          !.pc = IF host.spins + 1 < MaxSpins THEN "top" ELSE "wait",
                          !.spins = (@ + 1) % MaxSpins]
  /\ UNCHANGED <<shared, guest, wakeups, exiting>>

(* onUnavailableRead, in the device: the consumer sleeps until a ping.     *)
Sleep ==
  /\ host.pc = "wait"
  /\ host_state' = "NEED_NOTIFY"
  /\ HostAt("asleep")
  /\ UNCHANGED <<transfer_size, transfer_mode, buf, to_host, large, from,
                 guest, wakeups, exiting>>

Wake ==
  /\ host.pc = "asleep" /\ wakeups > 0
  /\ wakeups' = wakeups - 1
  /\ host_state' = "CAN_CONSUME"
  /\ HostAt("top")
  /\ UNCHANGED <<transfer_size, transfer_mode, buf, to_host, large, from,
                 guest, exiting>>

WakeToExit ==
  /\ host.pc = "asleep" /\ wakeups = 0 /\ exiting
  /\ host_state' = "EXIT"
  /\ host' = [host EXCEPT !.pc = "top", !.exit = TRUE]
  /\ UNCHANGED <<transfer_size, transfer_mode, buf, to_host, large, from,
                 guest, wakeups, exiting>>

Return ==
  /\ host.pc = "back"
  /\ host_state' = "RENDERING"
  /\ host' = [host EXCEPT !.pc = "decode", !.want = 0, !.spins = 0, !.inLarge = FALSE]
  /\ UNCHANGED <<transfer_size, transfer_mode, buf, to_host, large, from,
                 guest, wakeups, exiting>>

(* The render thread decodes; a command with a reply is answered at once.  *)
Decode ==
  /\ host.pc = "decode"
  /\ LET reply == Max({host.data[i].r : i \in DOMAIN host.data})
     IN  host' = [host EXCEPT !.pc = IF reply > 0 THEN "reply" ELSE "idle",
                              !.reply = reply, !.sent = 0, !.data = <<>>,
                              !.expect = (@ + Len(host.data)) % Numbers]
  /\ UNCHANGED <<shared, guest, wakeups, exiting>>

(* Cells sent+1 .. sent+k of the reply to the last command.                *)
Answer(k) == [j \in 1 .. k |-> Reply(host.expect - 1, host.sent + j)]

todoAll == host.reply - host.sent   \* variant: no look at the room
todo == Lesser(host.reply - host.sent, Room(from))

commitBuffer ==
  /\ host.pc = "reply" /\ todo > 0
  /\ buf' = Stored(from.pos + from.len, Answer(todo))
  /\ from' = Pushed(from, todo)
  /\ host' = [host EXCEPT !.sent = @ + todo,
                          !.pc = IF host.sent + todo = host.reply THEN "idle" ELSE "reply"]
  /\ UNCHANGED <<host_state, transfer_size, transfer_mode, to_host, large,
                 guest, wakeups, exiting>>

(* "Check if the guest process crashed." *)
GiveUpReply ==
  /\ host.pc = "reply" /\ Room(from) = 0 /\ host_state = "EXIT"
  /\ HostAt("idle")
  /\ UNCHANGED <<shared, guest, wakeups, exiting>>

HostStep ==
  \/ \E want \in Wants : readRaw(want)
  \/ TopOfLoop \/ CheckSmall \/ CheckLarge \/ type1Read \/ AdvanceType1
  \/ type3Read \/ CopyType3 \/ AdvanceType3 \/ FoundNothing \/ Spin
  \/ Sleep \/ Wake \/ WakeToExit \/ Return \/ Decode \/ commitBuffer \/ GiveUpReply

(***************************************************************************)
(* The end.                                                                *)
(***************************************************************************)
Gone == guest.pc \in {"closed", "crashed"}

Crash ==
  /\ ~Gone
  /\ guest' = [NoCall EXCEPT !.pc = "crashed"]
  /\ UNCHANGED <<shared, host, wakeups, exiting>>

(* The device goes with its guest: EXIT, and a message to the consumer.    *)
Destroy ==
  /\ Gone /\ ~exiting
  /\ exiting' = TRUE /\ host_state' = "EXIT"
  /\ UNCHANGED <<transfer_size, transfer_mode, buf, to_host, large, from,
                 guest, host, wakeups>>

Next ==
  \/ \E size \in Sends, reply \in Replies :
       allocBuffer(size, reply) \/ writeFully(size, reply)
  \/ \E size \in Sends : writeFullyAsync(size)
  \/ Close \/ GuestStep \/ HostStep \/ Crash \/ Destroy

(* Both threads go on with what they do; the guest need not make calls.    *)
Spec ==
  /\ Init /\ [][Next]_vars
  /\ WF_vars(GuestStep) /\ WF_vars(HostStep) /\ WF_vars(Destroy)

(***************************************************************************)
(* Properties.                                                             *)
(***************************************************************************)
Cells == {Blank} \cup [kind : {"cmd", "reply"}, n : 0 .. Numbers - 1, r : Nat]
Ring == [pos : 0 .. Size - 1, len : 0 .. Size - 1]

(* The rings stay inside the buffer, and transfer_size does not wrap.      *)
TypeOK ==
  /\ host_state \in {"NEED_NOTIFY", "CAN_CONSUME", "EXIT", "RENDERING"}
  /\ transfer_size \in Nat /\ transfer_mode \in {1, 3}
  /\ buf \in [0 .. Size - 1 -> Cells]
  /\ to_host \in Seq([offset : 0 .. Size - 1, size : 1 .. Step])
  /\ large \in Ring /\ from \in Ring
  /\ guest.seq \in 0 .. Numbers - 1 /\ guest.got \in Seq(Cells)
  /\ host.expect \in 0 .. Numbers - 1
  /\ host.data \in Seq(Cells) /\ host.rest \in Seq(Cells)
  /\ wakeups \in 0 .. MaxWakeups /\ exiting \in BOOLEAN

(* readRaw hands the decoder every cell the guest sent, once and in order, *)
(* although all three uses of the buffer overwrite one another.            *)
ReceivesInOrder ==
  LET read == host.data \o host.rest
  IN  \A i \in 1 .. Len(read) :
        read[i].kind = "cmd" /\ read[i].n = (host.expect + i - 1) % Numbers

(* readFully returns the reply to the command just sent, in order.         *)
RepliesInOrder ==
  \A i \in 1 .. Len(guest.got) : guest.got[i] = Reply(guest.seq - 1, i)

(* transfer_size counts what the guest has still to send and what the host *)
(* has still to take: neither more, for the host would wait for it, nor    *)
(* less, for it would be left in the ring.                                 *)
TransferSizeExact ==
  LET unsent == IF guest.pc \in {"chunk", "ping3"} THEN guest.size - guest.sent ELSE 0
      taking == IF host.pc \in {"copy3", "done3"} THEN host.avail ELSE 0
  IN  guest.pc # "crashed" => transfer_size = unsent + large.len - taking

(* The guest will not look at host_state again before it waits for the     *)
(* host, or leaves it alone.                                               *)
Quiet == guest.pc \in {"idle", "fill", "slot", "large1", "start", "read1", "take",
                       "close1", "closed"}

(* No wake-up is lost: the host never sleeps while something is there for  *)
(* it and nobody is going to wake it.                                      *)
NeverSleepsOnWork ==
  host.pc = "asleep" /\ Quiet /\ (to_host # <<>> \/ large.len > 0) => wakeups > 0

(* A call of the guest ends, with its reply, unless the guest dies.        *)
CallsReturn == (guest.pc # "idle") ~> (guest.pc = "idle" \/ Gone)

(* The render thread leaves when the stream was closed: nothing is left of *)
(* a transfer that it would wait for.                                      *)
LeavesWhenClosed == (guest.pc = "closed") ~> (host.pc = "left")

(* "Check if the guest process crashed." (RingStream.cpp:66): a reply that *)
(* nobody will read is given up.                                           *)
ReplyGivenUp ==
  (host.pc = "reply" /\ guest.pc = "crashed") ~> (host.pc # "reply")
=============================================================================
