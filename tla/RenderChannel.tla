---------------------------- MODULE RenderChannel ----------------------------
(***************************************************************************)
(* One render channel with the pipe at its guest end (EmuglPipe), the      *)
(* render thread at its host end, and the renderer that saves, loads and   *)
(* stops them.                                                             *)
(*                                                                         *)
(* The guest's stream is buffer 0, the client flags, and buffers 1, 2, ... *)
(* of packets; Stream[n] says whether the packet goes on after buffer n,   *)
(* or else with how many buffers the host answers it.  Buffers and answers *)
(* are numbered, so what is in a queue says where it belongs.              *)
(*                                                                         *)
(* mLock makes one step of each method of the channel.  BufferQueue        *)
(* (aemu/base) is not in this repository: a closed queue still gives what  *)
(* it holds; in snapshot mode it takes anything and gives nothing, as      *)
(* RenderChannelImpl.h says of pausePreSnapshot.  The virtual machine does *)
(* not run between the pause and the resume of a snapshot.                 *)
(***************************************************************************)
EXTENDS Integers, Sequences

CONSTANTS
  Stream,          \* the guest's buffers
  FromCapacity,    \* kGuestToHostQueueCapacity
  ToCapacity,      \* kHostToGuestQueueCapacity
  MaxSaves,        \* snapshots taken
  MaxLoads         \* snapshots loaded

More == -1

ASSUME StreamAssumption == /\ Stream \in Seq(Nat \cup {More})
                           /\ Stream # <<>> => Stream[Len(Stream)] # More
ASSUME CapacityAssumption == /\ FromCapacity \in Nat \ {0}
                             /\ ToCapacity \in Nat \ {0}
ASSUME BoundAssumption == MaxSaves \in Nat /\ MaxLoads \in Nat

Flags == {"CanRead", "CanWrite", "Stopped"}
Numbered(a, b) == [i \in 1 .. b - a |-> a + i]

VARIABLES
  ch,             \* the channel: both queues, their modes, mState, ...
  rt,             \* the render thread and what it has read
  mSnapshotState, \* RenderThread::mState
  guest,          \* the process at the other end of the pipe
  wake,           \* signalWake and closeFromHost, as the guest sees them
  saver,          \* the thread that saves and loads
  snapshot,       \* the stream of the last save
  mStopped,       \* RendererImpl::mStopped
  intact          \* history: no save ran beside a thread that still worked

vars == <<ch, rt, mSnapshotState, guest, wake, saver, snapshot, mStopped, intact>>

(***************************************************************************)
(* The channel under mLock.                                                *)
(***************************************************************************)
updateStateLocked(c) ==
  [c EXCEPT !.state =
     (IF c.toGuest # <<>> THEN {"CanRead"} ELSE {}) \cup
     (IF ~c.closed /\ Len(c.fromGuest) < FromCapacity THEN {"CanWrite"} ELSE {}) \cup
     (IF c.closed THEN {"Stopped"} ELSE {})]

Available(c) == c.state \cap (c.wanted \cup {"Stopped"})

notifyStateChangeLocked(c) ==
  IF Available(c) = {} THEN c ELSE [c EXCEPT !.wanted = @ \ c.state]

(* onChannelHostEvent: what the callback tells the guest.                  *)
onChannelHostEvent(c) ==
  IF c.callback # "pipe" THEN {}
  ELSE IF "Stopped" \in Available(c) THEN {"Stopped"} ELSE Available(c)

(* Variants: waits for room although the queue is closed; has no room in   *)
(* snapshot mode.                                                          *)
PushResultWaiting(c, queue, capacity) ==
  IF Len(queue) >= capacity /\ ~c.snapshotMode THEN "TryAgain"
  ELSE IF c.closed THEN "Error" ELSE "Ok"

PushResultBounded(c, queue, capacity) ==
  IF c.closed THEN "Error"
  ELSE IF Len(queue) < capacity THEN "Ok" ELSE "TryAgain"

PushResult(c, queue, capacity) ==
  IF c.closed THEN "Error"
  ELSE IF Len(queue) < capacity \/ c.snapshotMode THEN "Ok" ELSE "TryAgain"

(* Variant: a snapshot does not stop the reader while there is data.       *)
PopResultWhileAny(c, queue) ==
  IF queue # <<>> THEN "Ok"
  ELSE IF c.closed \/ c.snapshotMode THEN "Error" ELSE "TryAgain"

PopResult(c, queue) ==
  IF c.snapshotMode THEN "Error"
  ELSE IF queue # <<>> THEN "Ok"
  ELSE IF c.closed THEN "Error" ELSE "TryAgain"

Closed(c, callback) == [c EXCEPT !.closed = TRUE, !.callback = callback]

Notify(c) == /\ ch' = notifyStateChangeLocked(c)
             /\ wake' = wake \cup onChannelHostEvent(c)

(***************************************************************************)
(* The guest.  It sends a packet, buffer by buffer, and waits for the      *)
(* whole answer before the next packet.                                    *)
(***************************************************************************)
Running == saver.pc = "idle" /\ ch.callback # "none"
Asked(n) == IF n = 0 \/ Stream[n] = More THEN 0 ELSE Stream[n]

(* The end of the pipe's constructor, for a new channel and a loaded one.  *)
setEventCallback ==
  /\ ch.callback = "none"
  /\ Notify([ch EXCEPT !.callback = "pipe"])
  /\ UNCHANGED <<rt, mSnapshotState, guest, saver, snapshot, mStopped, intact>>

onGuestSend ==
  /\ Running /\ guest.pc = "run" /\ guest.due = 0 /\ guest.sent <= Len(Stream)
  /\ PushResult(ch, ch.fromGuest, FromCapacity) = "Ok"
  /\ ch' = updateStateLocked([ch EXCEPT !.fromGuest = Append(@, guest.sent)])
  /\ guest' = [guest EXCEPT !.sent = @ + 1, !.due = Asked(guest.sent)]
  /\ UNCHANGED <<rt, mSnapshotState, wake, saver, snapshot, mStopped, intact>>

onGuestRecv ==
  /\ Running /\ guest.pc = "run" /\ guest.due > 0
  /\ PopResult(ch, ch.toGuest) = "Ok"
  /\ ch' = updateStateLocked([ch EXCEPT !.toGuest = Tail(@)])
  /\ guest' = [guest EXCEPT !.due = @ - 1, !.received = @ + 1]
  /\ UNCHANGED <<rt, mSnapshotState, wake, saver, snapshot, mStopped, intact>>

Blocked ==
  \/ /\ guest.due > 0
     /\ PopResult(ch, ch.toGuest) = "TryAgain"
  \/ /\ guest.due = 0 /\ guest.sent <= Len(Stream)
     /\ PushResult(ch, ch.fromGuest, FromCapacity) = "TryAgain"

Needed == IF guest.due > 0 THEN "CanRead" ELSE "CanWrite"

(* onGuestWantWakeOn: the state is read under the lock, and the wish for   *)
(* the rest is left under the lock taken again.                            *)
onGuestWantWakeOn ==
  /\ Running /\ guest.pc = "run" /\ Blocked
  /\ \E wanted \in {{Needed}, {"CanRead", "CanWrite"}} :
       /\ guest' = [guest EXCEPT
            !.pc = IF wanted \subseteq ch.state THEN "asleep" ELSE "wanting",
            !.wanted = wanted \ ch.state, !.wait = wanted \cup {"Stopped"}]
       /\ wake' = (wake \cap {"Stopped"}) \cup (wanted \cap ch.state)
  /\ UNCHANGED <<ch, rt, mSnapshotState, saver, snapshot, mStopped, intact>>

(* Variants: the callback is not called "since this happens in the guest   *)
(* thread"; the stop event is asked for, too.                              *)
setWantedEventsQuietly ==
  /\ guest.pc = "wanting"
  /\ ch' = [ch EXCEPT !.wanted = @ \cup guest.wanted]
  /\ guest' = [guest EXCEPT !.pc = "asleep", !.wanted = {}]
  /\ UNCHANGED <<rt, mSnapshotState, wake, saver, snapshot, mStopped, intact>>

setWantedEventsWithStop ==
  /\ guest.pc = "wanting"
  /\ Notify([ch EXCEPT !.wanted = @ \cup guest.wait])
  /\ guest' = [guest EXCEPT !.pc = "asleep", !.wanted = {}]
  /\ UNCHANGED <<rt, mSnapshotState, saver, snapshot, mStopped, intact>>

setWantedEvents ==
  /\ guest.pc = "wanting"
  /\ Notify([ch EXCEPT !.wanted = @ \cup guest.wanted])
  /\ guest' = [guest EXCEPT !.pc = "asleep", !.wanted = {}]
  /\ UNCHANGED <<rt, mSnapshotState, saver, snapshot, mStopped, intact>>

Awake ==
  /\ Running /\ guest.pc = "asleep" /\ guest.wait \cap wake # {}
  /\ guest' = [guest EXCEPT !.pc = "run", !.wait = {}]
  /\ wake' = wake \cap {"Stopped"}
  /\ UNCHANGED <<ch, rt, mSnapshotState, saver, snapshot, mStopped, intact>>

(* The guest closes when it likes, or because a call failed.               *)
onGuestClose ==
  /\ Running /\ guest.pc \in {"run", "asleep"}
  /\ ch' = Closed(ch, "noop")
  /\ guest' = [guest EXCEPT !.pc = "closed", !.wait = {}]
  /\ wake' = {}
  /\ UNCHANGED <<rt, mSnapshotState, saver, snapshot, mStopped, intact>>

CallFails == \/ "Stopped" \in wake
             \/ guest.due > 0 /\ PopResult(ch, ch.toGuest) = "Error"
             \/ /\ guest.due = 0 /\ guest.sent <= Len(Stream)
                /\ PushResult(ch, ch.fromGuest, FromCapacity) = "Error"
CloseAfterError == guest.pc = "run" /\ CallFails /\ onGuestClose

(* Variant: the guest is not told of the room.                             *)
readFromGuestQuietly ==
  /\ PopResult(ch, ch.fromGuest) = "Ok"
  /\ ch' = updateStateLocked([ch EXCEPT !.fromGuest = Tail(@)])
  /\ UNCHANGED <<mSnapshotState, guest, wake, saver, snapshot, mStopped, intact>>

(***************************************************************************)
(* The render thread.  pc "pop" is a read that waits, "more" one that does *)
(* not (readRaw's blocking), "failed" a read that returned nothing.        *)
(***************************************************************************)
readFromGuest ==
  /\ PopResult(ch, ch.fromGuest) = "Ok"
  /\ Notify(updateStateLocked([ch EXCEPT !.fromGuest = Tail(@)]))
  /\ UNCHANGED <<mSnapshotState, guest, saver, snapshot, mStopped, intact>>

ReadFlags ==
  /\ rt.pc = "pop" /\ ~rt.flags
  /\ readFromGuest
  /\ rt' = [rt EXCEPT !.flags = TRUE, !.consumed = 1]

getData ==
  /\ rt.pc \in {"pop", "more"} /\ rt.flags
  /\ readFromGuest
  /\ rt' = [rt EXCEPT !.pc = "more", !.buf = Append(@, Head(ch.fromGuest))]

ReadNothing ==
  /\ \/ /\ rt.pc = "pop" /\ PopResult(ch, ch.fromGuest) = "Error"
        /\ rt' = [rt EXCEPT !.pc = "failed"]
     \/ /\ rt.pc = "more" /\ PopResult(ch, ch.fromGuest) # "Ok"
        /\ rt' = [rt EXCEPT !.pc = "decode"]
  /\ Notify(updateStateLocked(ch))
  /\ UNCHANGED <<mSnapshotState, guest, saver, snapshot, mStopped, intact>>

(* The decoders take what begins with a packet and is long enough.         *)
PacketLengths(buf) ==
  {k \in 1 .. Len(buf) : /\ buf[1] # 0 /\ Stream[buf[k]] # More
                         /\ \A j \in 1 .. k - 1 : Stream[buf[j]] = More}

decode ==
  /\ rt.pc = "decode"
  /\ \/ \E k \in PacketLengths(rt.buf) :
          LET answer == Stream[rt.buf[k]]
          IN  rt' = [rt EXCEPT
                !.pc = IF answer = 0 THEN "decode" ELSE "write",
                !.buf = SubSeq(@, k + 1, Len(@)), !.consumed = @ + k,
                !.out = Numbered(rt.replied, rt.replied + answer),
                !.replied = @ + answer]
     \/ /\ PacketLengths(rt.buf) = {}
        /\ rt' = [rt EXCEPT !.pc = "pop"]
  /\ UNCHANGED <<ch, mSnapshotState, guest, wake, saver, snapshot, mStopped, intact>>

(* Variant: does not wait for room, and the result is not looked at.       *)
writeToGuestTrying ==
  /\ rt.pc = "write"
  /\ Notify(updateStateLocked(
       IF PushResult(ch, ch.toGuest, ToCapacity) = "Ok"
       THEN [ch EXCEPT !.toGuest = Append(@, Head(rt.out))] ELSE ch))
  /\ rt' = [rt EXCEPT !.pc = IF Len(rt.out) = 1 THEN "decode" ELSE "write",
                      !.out = Tail(@)]
  /\ UNCHANGED <<mSnapshotState, guest, saver, snapshot, mStopped, intact>>

(* commitBuffer does not look at the result.                               *)
writeToGuest ==
  /\ rt.pc = "write"
  /\ LET r == PushResult(ch, ch.toGuest, ToCapacity)
     IN  /\ r # "TryAgain"
         /\ Notify(updateStateLocked(IF r = "Ok"
              THEN [ch EXCEPT !.toGuest = Append(@, Head(rt.out))] ELSE ch))
  /\ rt' = [rt EXCEPT !.pc = IF Len(rt.out) = 1 THEN "decode" ELSE "write",
                      !.out = Tail(@)]
  /\ UNCHANGED <<mSnapshotState, guest, saver, snapshot, mStopped, intact>>

(* snapshotOperation: the lock is free while the thread saves or loads.    *)
snapshotOperation ==
  /\ \/ rt.pc = "failed" /\ mSnapshotState = "StartSaving"
     \/ rt.pc = "starting" /\ mSnapshotState = "StartLoading"
  /\ mSnapshotState' = "InProgress"
  /\ rt' = [rt EXCEPT !.pc = "copying"]
  /\ UNCHANGED <<ch, guest, wake, saver, snapshot, mStopped, intact>>

SnapshotDone ==
  /\ rt.pc = "copying"
  /\ mSnapshotState' = "Finished"
  /\ rt' = [rt EXCEPT !.pc = "paused"]
  /\ UNCHANGED <<ch, guest, wake, saver, snapshot, mStopped, intact>>

Proceed ==
  /\ rt.pc = "paused" /\ mSnapshotState = "Empty"
  /\ rt' = [rt EXCEPT !.pc = "pop"]
  /\ UNCHANGED <<ch, mSnapshotState, guest, wake, saver, snapshot, mStopped, intact>>

setFinished ==
  /\ rt.pc = "failed" /\ mSnapshotState # "StartSaving"
  /\ rt' = [rt EXCEPT !.pc = "finished"]
  /\ UNCHANGED <<ch, mSnapshotState, guest, wake, saver, snapshot, mStopped, intact>>

(***************************************************************************)
(* The renderer: saving, loading, stopping.                                *)
(***************************************************************************)
ThreadSettled == mSnapshotState = "Finished" \/ rt.pc = "finished"

pauseAllPreSave ==
  /\ saver.pc = "idle" /\ ch.callback # "none" /\ guest.pc # "wanting"
  /\ ~mStopped /\ saver.saves < MaxSaves
  /\ mSnapshotState' = "StartSaving"
  /\ ch' = [ch EXCEPT !.snapshotMode = TRUE]
  /\ saver' = [saver EXCEPT !.pc = IF guest.pc = "closed" THEN "saved" ELSE "paused",
                            !.saves = @ + 1]
  /\ UNCHANGED <<rt, guest, wake, snapshot, mStopped, intact>>

(* RenderChannelImpl::onSave, up to the wait for the thread.               *)
onSave ==
  /\ saver.pc = "paused"
  /\ snapshot' = [ch |-> ch, guest |-> guest, wake |-> wake, rt |-> rt,
                  valid |-> FALSE, intact |-> ThreadSettled /\ rt.flags]
  /\ saver' = [saver EXCEPT !.pc = "queues"]
  /\ UNCHANGED <<ch, rt, mSnapshotState, guest, wake, mStopped, intact>>

(* RenderThread::save.                                                     *)
save ==
  /\ saver.pc = "queues" /\ ThreadSettled
  /\ snapshot' = [snapshot EXCEPT !.rt = rt, !.valid = mSnapshotState = "Finished"]
  /\ saver' = [saver EXCEPT !.pc = "saved"]
  /\ UNCHANGED <<ch, rt, mSnapshotState, guest, wake, mStopped, intact>>

resumeAll ==
  /\ saver.pc \in {"saved", "loaded"} /\ ch.callback # "none"
  /\ \/ mStopped /\ UNCHANGED <<ch, mSnapshotState>>
     \/ /\ ~mStopped /\ ThreadSettled
        /\ mSnapshotState' = "Empty"
        /\ ch' = [ch EXCEPT !.snapshotMode = FALSE]
  /\ saver' = [saver EXCEPT !.pc = "idle"]
  /\ UNCHANGED <<rt, guest, wake, snapshot, mStopped, intact>>

(* Loading: the old channels go first, without a word to the guest.        *)
cleanupRenderThreads ==
  /\ saver.pc = "idle" /\ ch.callback # "none" /\ guest.pc # "wanting"
  /\ ~mStopped /\ snapshot.valid /\ saver.loads < MaxLoads
  /\ ch' = Closed(ch, "noop")
  /\ saver' = [saver EXCEPT !.pc = "cleaning", !.loads = @ + 1]
  /\ UNCHANGED <<rt, mSnapshotState, guest, wake, snapshot, mStopped, intact>>

createRenderChannel ==
  /\ saver.pc = "cleaning" /\ rt.pc = "finished" /\ ~mStopped
  /\ ch' = [snapshot.ch EXCEPT !.snapshotMode = FALSE, !.callback = "none"]
  /\ rt' = [snapshot.rt EXCEPT !.pc = "starting", !.flags = TRUE]
  /\ mSnapshotState' = "StartLoading"
  /\ guest' = snapshot.guest /\ wake' = snapshot.wake
  /\ intact' = (intact /\ snapshot.intact)
  /\ saver' = [saver EXCEPT !.pc = "loaded"]
  /\ UNCHANGED <<snapshot, mStopped>>

(* stop and stopFromHost.                                                  *)
stop ==
  /\ ~mStopped /\ ch.callback # "none" /\ saver.pc # "cleaning"
  /\ mStopped' = TRUE
  /\ LET c == [Closed(ch, ch.callback) EXCEPT !.state = @ \cup {"Stopped"}]
     IN  /\ ch' = [notifyStateChangeLocked(c) EXCEPT !.callback = "noop"]
         /\ wake' = wake \cup onChannelHostEvent(c)
  /\ UNCHANGED <<rt, mSnapshotState, guest, saver, snapshot, intact>>

(***************************************************************************)
(* The specification.                                                      *)
(***************************************************************************)
NoSnapshot == [valid |-> FALSE]

Init ==
  /\ ch = updateStateLocked([fromGuest |-> <<>>, toGuest |-> <<>>, closed |-> FALSE,
            snapshotMode |-> FALSE, state |-> {}, wanted |-> {}, callback |-> "none"])
  /\ rt = [pc |-> "pop", flags |-> FALSE, buf |-> <<>>, out |-> <<>>,
           consumed |-> 0, replied |-> 0]
  /\ mSnapshotState = "Empty"
  /\ guest = [pc |-> "run", sent |-> 0, due |-> 0, received |-> 0,
              wanted |-> {}, wait |-> {}]
  /\ wake = {} /\ saver = [pc |-> "idle", saves |-> 0, loads |-> 0]
  /\ snapshot = NoSnapshot /\ mStopped = FALSE /\ intact = TRUE

Pipe == \/ setEventCallback \/ onGuestSend \/ onGuestRecv \/ onGuestWantWakeOn
        \/ setWantedEvents \/ Awake \/ CloseAfterError
Thread == \/ ReadFlags \/ getData \/ ReadNothing \/ decode \/ writeToGuest
          \/ snapshotOperation \/ SnapshotDone \/ Proceed \/ setFinished
Saver == onSave \/ save \/ resumeAll \/ createRenderChannel
Next == \/ Pipe \/ Thread \/ Saver
        \/ onGuestClose \/ pauseAllPreSave \/ cleanupRenderThreads \/ stop

Spec == Init /\ [][Next]_vars

FairSpec == Spec /\ WF_vars(Pipe) /\ WF_vars(Thread) /\ WF_vars(Saver)

(***************************************************************************)
(* Properties.                                                             *)
(***************************************************************************)
Buffers == 0 .. Len(Stream)
Channels ==
  [fromGuest : Seq(Buffers), toGuest : Seq(Nat), closed : BOOLEAN,
   snapshotMode : BOOLEAN, state : SUBSET Flags,
   wanted : SUBSET {"CanRead", "CanWrite"}, callback : {"none", "pipe", "noop"}]
Threads ==
  [pc : {"starting", "pop", "more", "decode", "write", "failed", "copying",
         "paused", "finished"},
   flags : BOOLEAN, buf : Seq(Buffers), out : Seq(Nat), consumed : Nat,
   replied : Nat]
Guests ==
  [pc : {"run", "wanting", "asleep", "closed"}, sent : 0 .. Len(Stream) + 1,
   due : Nat, received : Nat, wanted : SUBSET Flags, wait : SUBSET Flags]

(* Types of the channel, the thread, the guest and the saver.              *)
TypeOK ==
  /\ ch \in Channels /\ rt \in Threads /\ guest \in Guests
  /\ mSnapshotState \in
       {"Empty", "StartSaving", "StartLoading", "InProgress", "Finished"}
  /\ wake \in SUBSET Flags /\ mStopped \in BOOLEAN /\ intact \in BOOLEAN
  /\ saver \in [pc : {"idle", "paused", "queues", "saved", "cleaning", "loaded"},
                saves : 0 .. MaxSaves, loads : 0 .. MaxLoads]
  /\ \/ snapshot = NoSnapshot
     \/ snapshot \in [ch : Channels, guest : Guests, wake : SUBSET Flags,
                      rt : Threads, valid : BOOLEAN, intact : BOOLEAN]

(* What the guest sent and the decoders have not taken is in the thread's  *)
(* read buffer and the queue, in order and once, also after a load that    *)
(* takes the queue and the read buffer from two moments of the save.       *)
RequestsConserved ==
  rt.buf \o ch.fromGuest = Numbered(rt.consumed - 1, guest.sent - 1)

Answers == ch.toGuest \o rt.out = Numbered(guest.received, rt.replied)

(* Every answer of the decoders that the guest has not read is on its way, *)
(* in order and once, as long as the channel is open and no load took up a *)
(* save that ran beside a working thread.                                  *)
RepliesConserved == intact /\ ~ch.closed => Answers

(* RenderChannelImpl.h: with pausePreSnapshot, "all data at the snapshot   *)
(* time is here and is saved, and we won't miss some important rendering   *)
(* call".                                                                  *)
SnapshotComplete == ~ch.closed => Answers

(* A guest asleep is not waiting for what the channel already allows,      *)
(* unless its wake-up is on the way, whatever the thread did between its   *)
(* look at the state and its wish, and whatever a load brought back.       *)
NoLostWakeup ==
  guest.pc = "asleep" /\ ch.callback # "none" /\ saver.pc # "cleaning" =>
    \/ guest.wait \cap wake # {}
    \/ guest.wait \cap updateStateLocked(ch).state = {}

(* Two ways in which the hand-shake fails, and what is left then: a save   *)
(* begins before the thread has noticed the resume of the one before; and  *)
(* stop() comes during a save, after which resumeAll resumes nobody.       *)
Overtaken == rt.pc = "paused" /\ mSnapshotState = "StartSaving"
Abandoned == mStopped /\ saver.pc = "idle" /\ mSnapshotState # "Empty"

(* A guest that stays gets every answer, unless the channel is stopped, a  *)
(* load took up an incoherent save, or a save never ends.                  *)
EveryAnswerArrives ==
  <>(\/ guest.sent > Len(Stream) /\ guest.due = 0
     \/ guest.pc = "closed" \/ ~intact \/ Overtaken)

(* A save or a load ends: whatever the render thread is doing, it comes to *)
(* the point where it can be saved, or exits; but for the thread that is   *)
(* overtaken.                                                              *)
SnapshotReturnsOrOvertaken == saver.pc # "idle" ~> (saver.pc = "idle" \/ Overtaken)

(* RenderThread.cpp, setFinished: "Make sure it never happens that we wait *)
(* forever for the thread to save to snapshot".                            *)
SnapshotReturns == saver.pc # "idle" ~> saver.pc = "idle"

(* The render thread of a closed channel exits, so that the destructor of  *)
(* the channel, the loader and stop(true) need not wait for ever; but for  *)
(* the thread that is overtaken or abandoned.                              *)
ThreadExits == ch.closed ~> (rt.pc = "finished" \/ Overtaken \/ Abandoned)
==============================================================================
