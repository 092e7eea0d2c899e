# gfxstream in TLA+

gfxstream carries GLES and Vulkan calls from an Android guest to the GPU of its
host. This directory holds TLA+ models of the parts of it whose difficulty is
control rather than data: who may still use a buffer, when a fence may be
signalled, what two threads see of a ring they share. Each module is a
translation of the C++ named in `PROJECT.json` under `map`; TLC checks small
instances of all of them, and TLAPS proves the safety properties of all of them
but the snapshots of the colour buffers, for every value of the constants.

Parse with `tlasany M.tla`, check with `tlc -config X.cfg M.tla`, prove with
`tlapm M.tla`.

## 1. Inventory: the system and its parts

A guest process encodes calls into a stream. The stream reaches the host by a
pipe (`RenderChannel`) or by shared memory (`AddressSpaceStream` / `RingStream`
over `ring_buffer`). A host `RenderThread` per stream decodes it and calls
`FrameBuffer` (colour buffers, surfaces, contexts), the GLES translator or the
Vulkan global state. Finished work is reported to the guest through
`SyncThread` and, with virtio-gpu, through `VirtioGpuTimelines`. Frames go to a
post worker thread that displays them.

| part | state it keeps | talks to | what is hard | what makes it correct |
|---|---|---|---|---|
| **virtio-gpu timelines** `host/VirtioGpuTimelines` | a queue of tasks and fences per ring; a map of live tasks | the command thread enqueues, sync threads complete, the fence callback goes to the VMM | completion out of order, two callback modes, weak pointers | a fence once, in order, after every earlier task of its ring, and in the end if those are all reported |
| **colour buffer table** `host/FrameBuffer` | `m_colorbuffers` with counts, the delayed-close list, what each process holds, the destroy channel | render threads, pipe, post worker, snapshots, process clean-up | two locks, five feature switches, a worker that drops references later | counts exact, nothing in use erased, everything unused erased |
| **shared ring** `guest/android-emu/aemu/base/ring_buffer` | two positions, a buffer, no lock | guest thread and host render thread | interleaved copies, wrap of buffer and of positions, blocking calls | a bounded fifo; two blocking calls do not wait for one another |
| **address-space stream** `AddressSpaceStream`, `RingStream` | host state word, transfer mode and size, three rings over one buffer | guest encoder, render thread, doorbell | a lost wake-up, slots of the write buffer re-used while read | every byte in order; the host never sleeps on a non-empty ring |
| **render channel** `RenderChannelImpl`, `ChannelStream`, `EmuglPipe` | state bits, wanted events, two bounded queues | emulator I/O thread, render thread, saver | events raised under a lock, wishes left under it taken again, stop against wait | no buffer lost over a snapshot; a guest asleep is woken |
| **render thread** `RenderThread`, `RendererImpl` | snapshot state, life cycle | saver, loader, clean-up thread | snapshot hand-shake, exit during a snapshot | every save ends with a thread at rest; everybody gets on afterwards; a closed thread exits |
| **sync threads** `SyncThread` | a pool of four workers, timelines of tasks | guest fences, EGL/Vulkan waits | time-outs, completion to be called in every case | each wait answers exactly once |
| **QSRI timeline, image fences** `VkQsriTimeline`, `VkAndroidNativeBuffer` | presents and callbacks; a pool of fences | Vulkan queues, sync threads | waits and requests run in any order; time-outs; the last reference of an image | each export called back once and not before its presents; fences re-used only when idle |
| **EGL fence objects** `EmulatedEglFenceSync`, `StalePtrRegistry` | counts, the registry of live objects, stale addresses after a load | guest by address | destroy against wait, a load maps addresses twice | no use after free, stale addresses map once |
| **boxed handles, ordered decoding** `VkDecoderGlobalState`, `VkDecoder` | handle tables, delayed removals, the sequence number of each process | all Vulkan render threads | removal while another thread still uses the handle | sequence numbers are taken in order |
| **virtio-gpu command layer** | contexts, resources, blobs | VMM | attach/detach, unref while mapped | each resource is released once |
| **posting and composition** | post queue, borrowed images, swap chain | FrameBuffer, Vulkan | a borrowed image returned late | an image has one user at a time |
| **read-back worker, vsync thread, guest utilities** | pixel buffer ring; scheduled tasks; work pool, sub-allocator, entity manager | frame callbacks; guest threads | flush of the last frame; exit drops tasks | see the plan |
| encoders, decoders, dispatch tables, `cereal` | none | - | generated | not modelled: no state |
| GLES translator, texture codecs | object state of the GL standard | - | data | not modelled: data, not control |
| pipes, magma, device access | - | kernel | pure I/O | not modelled |

What is hard in this code to test is listed line by line under `hazards` in
`PROJECT.json`, with the properties that cover it.

## 2. What is modelled

### Virtio-gpu fences: `VirtioGpuTimelines`, `FenceTimeline`

`VirtioGpuTimelines` has one action per public method: `enqueueTask`,
`enqueueFence`, `notifyTaskCompletion`, `poll`. Each holds `mLock` throughout,
so each is one step, and `poll_locked` is part of the step that calls it.
`mTimelineQueues` and `mTaskIdToTask` have the code's names;
`mWithAsyncCallback` is chosen once, in `Init`. `issued`, `visited`,
`callbacks` and `lost` are history: what a ring was given, what its loop has
passed, the completions that were not reported yet, and those of them that never
will be. A completion comes from a sync thread or the post worker at any time
and in any order, and at most once: that is how
`virtio-gpu-gfxstream-renderer.cpp` registers it. `loseCallback` is a completion
that never comes: `FrameBuffer::asyncWaitForGpuWithCb` drops the callback of a
sync object it does not know, after the task was enqueued, and the wait for a
Vulkan fence begins with one for its submission that has no time-out
(`VkDecoderGlobalState.cpp:4951`).

`FenceTimeline` is the promise to the guest: a ring's progress passes items in
order and passes a task only when it is complete. `ImplementsTimeline`
instantiates it (`issued` as it is, completed tasks are those without a
pending callback, `passed` is the length of `visited`).

### Colour buffers: `ColorBufferLifetime`, `ColorBufferSnapshots`

`ColorBufferLifetime` keeps `m_colorbuffers` and
`m_colorBufferDelayedCloseList` in one record `fb`, so that the code's private
helpers (`closeColorBufferLocked`, `markOpened`,
`performDelayedColorBufferCloseLocked`, `eraseDelayedCloseColorBufferLocked`
with its `lower_bound`, ...) are operators from one value of `fb` to the next
and compose as they do in the code. The actions are the calls of guest and
render threads (under `m_lock`), the post worker's drop of a reference (under
`m_colorBufferMapLock` alone, hence an action of its own, at any later time),
the guest pipe's last reference through the destroy channel with its limit and
its failing `trySend`, and the sub-window's life. `mode` is the set of features
the host was started with; a run covers all modes, because `Init` chooses one.
`Tick` is the clock, in steps of a microsecond (`getUnixTimeUs`); it matters to
the list's order and to what `performDelayedColorBufferCloseLocked` collects.

The iteration order of a hash map (process clean-up, `onLoad`) is any order.
`refcount` wraps at `RefMod`, in the place of 2^32. Calls after
`m_shuttingDown` or with an unknown handle change nothing and are stuttering.

Two guards are assumptions about the guest and not in the code: a thread without
a puid closes a buffer no more often than it opened it (`closeColorBuffer`; the
calls of a puid are checked by the code), and a guest that manages the life of
its buffers makes and opens them only with resources (`createColorBuffer`,
`openColorBuffer`).

`ColorBufferSnapshots` adds `onSave` and `onLoad`, taken at any moment: nothing in
the code waits for the post worker or looks into the destroy channel. The saved
stream is one record; what the guest itself held at that moment is restored with
it, and the age of a closed buffer is saved in 32 bits (`AgeMod` values). While
`onLoad` holds `m_lock` only the post worker and the clock go on; `repost` and
`postImplSync` are its end, which shows the last posted buffer again and waits
for it behind the frames queued before the load. Two histories say how the counts
go wrong: `stale` is the number of those frames, and `off` how many references of
a buffer have no holder any more (a frame or a destroy that was under way at the
save), or have been dropped without having been counted (a stale frame of a handle
that is in the loaded table). `OffByOrphans` says that the counts are off by
this and by nothing else. They are exact when the queue and the channel are empty
at the save and the queue is empty at the load.

### The shared ring: `RingBuffer`

Producer and consumer each carry one call in progress (`prod`, `cons`: which
call, the step, the bytes left, the bytes copied). `memcpy` is one step per
byte, so every interleaving of two copies is explored, and the split at the end
of the buffer is the code's (`CopySlot`). Positions wrap at `Size * Laps`, in
the place of 2^32; the mask is a remainder. The calls inside the struct and
those with a view are the same code but for `ring_buffer_copy_contents`, and
`view` says which it is. Atomics are sequentially consistent, as in the code.
The hang-up protocol (`ring_buffer_producer_acquire`, ...) is called by nothing
in this repository and is left out.

### The address-space stream: `AsgStream`

Two records, `guest` and `host`, are the two threads; `pc` is where each of them
is, and one action is what it does between two accesses to shared state that
the other side could see. `ensureType3Finished` and `ensureType1Finished` are
one action each, taken wherever the code calls them; `write` is what
`writeFully` and `writeFullyAsync` share. `readRaw` is split at its reads of the
two rings and of `transfer_size` and at its writes of `host_state`;
`transfer_mode` is read in the step that finds `to_host` filled (`CheckSmall`), since
the guest leaves the mode at 1 while it is (`ensureType1Finished` comes before 3); `inLarge`, `spins`, `rest` are its `inLargeXfer`, `spins` and
`mReadBuffer`. The three rings are fifos over one `buf` (`RingBuffer` shows that
they are): the buffer itself is kept, because slots, large transfers and replies
overwrite one another there. Each cell says which cell of the stream or of the
reply it is, so that a cell overwritten too early shows. A command is answered
by the render thread when its last cell was decoded; the guest waits for the
reply, as the encoders do. The device between the two ends (`Sleep`, `Wake`,
`WakeToExit`, `Destroy`) is not in this repository and is modelled from
`onUnavailableRead`'s results and `asg_host_state`. Left out: type 2 transfers,
on which the host aborts; `in_error`, which nothing sets; the snapshot results
of `onUnavailableRead`.

### The render channel: `RenderChannel`

One channel with both its ends. `ch` is the channel (the two queues, `mState`,
`mWantedEvents`, the callback, snapshot mode), and since its methods hold
`mLock`, each is one step; `updateStateLocked`, `notifyStateChangeLocked` and the
results of the queues are operators from one value of it to the next. `rt` is
the render thread: its `pc`, the read buffer and what it is about to write.
`mSnapshotState` is its `mState`. `guest` is the process behind `EmuglPipe`, and
`wake` what `signalWake` and `closeFromHost` have told it. `saver` is the thread
that saves, loads, and `snapshot` the stream of the last save.

Buffers and answers are numbered, so that every loss, doubling and reordering
shows, also across a snapshot, whose queues and read buffer are saved at two
moments (`onSave`, `save`). `onGuestWantWakeOn` and `setWantedEvents` are two
steps, since the pipe lets the lock go in between. `Stream` says which
buffers are a packet and how many buffers answer it: all that the decoders are
here. A guest sends a packet and waits for its whole answer, as the encoders do.
The answer to a packet is written buffer by buffer; the guest reads a buffer
whole, and the capacity of `ReadBuffer` is left out. `readBefore` is `tryRead`:
its time-out is one more way to find nothing. `BufferQueue` is not in this
repository, and modelled from its use; the virtual machine stands still from
the pause to the resume of a snapshot. `intact` is history: it becomes false
when a load takes up a save that did not wait for its thread.

### Releasing an image: `ImageRelease`

A guest presents an image on the stream of a render thread
(`vkQueueSignalReleaseImageANDROID`) and asks on the virtio-gpu stream for a
fence (an export). The two streams are decoded independently. `gpu` is what
Vulkan holds: its queues finish in order, or never; `pool` is
`QsriWaitFencePool`, `timeline` is `VkQsriTimeline`, `mImageInfo` the table of
images. `SyncThread`'s workers take the tasks in any order, because the thread
pool is not in this repository and promises none. One action is what a thread
does under one lock; `worker[w].pc` separates waiting for a fence, returning it
to the pool and counting the present, as `waitForQsriFenceTask` does. An image
is destroyed by whoever lets the last reference to it go (`LetGo`,
`destroyImageLocked`), and its destructor waits for the GPU. Simplified: the
destructor waits for all queues to be idle at one moment (`QueuesIdle`), where the
code waits for one after another; the state and the lock of a queue family, which
the code holds through the wait for a non-native image
(`VkAndroidNativeBuffer.cpp:615-619`, `:749-750`), are left out, and so is the
return for a queue that is not known (`VkDecoderGlobalState.cpp:3634`), which
signals nothing.

An export's callback completes a task of a virtio-gpu ring, and its fence
follows (`Signaled`): what that ring promises is `VirtioGpuTimelines` and is used
here, not modelled again. `late` says which presents timed out, `guest.gaveUp`
which images the guest destroyed before their fences: with either, a fence says
less, and `FenceCountsPresents` names both as exceptions. Timelines on other
transports than virtio-gpu are left out.

## 3. What TLC checks

| run | instance | shows |
|---|---|---|
| `timelines` | 2 rings, 2 fences, 3 tasks, both modes | types; no abort; each item once and in order; a fence after its tasks; the map is exact; nothing signalable left behind; refinement of `FenceTimeline`; every fence is signalled, unless the completion of a task before it on its ring is lost |
| `buffers` | 2 handles, 1 surface, a process and a thread without one, 6 feature sets, 2 queued frames, channel of 1 | types; counts exact; what is referenced is alive; the delayed list is exact; without a window also that ids can be re-used and last references erase |
| `buffers_snapshot` | 2 handles, 1 surface, 1 process, 2 queued frames, channel of 1, saves and loads at any moment, with a window and with RefCountPipe | after a load the counts are off by the frames and destroys that were under way, and by nothing else |
| `ring` | 4 bytes, 2 laps, values of 1 bit; steps of 3 and 4, calls of 1 and 3 bytes | a reader gets the oldest bytes; what is published is appended as written; a peek is exact up to the end of the buffer; two blocking calls never both wait, and one ends |
| `asg` | buffer of 4 cells, slots of 2; transfers of 2 and 4 cells, replies of 0 and 8; reads of 1 and 4 | the decoder gets every cell in order, `readFully` the reply in order; `transfer_size` is exact; the host does not sleep on work; every call returns; the render thread leaves a closed stream |
| `channel` | a packet of one buffer and one of two that is answered by two; queues of 1; 2 saves, 1 load, stop and close at any time | types; requests and answers conserved, also over snapshots; no wake-up lost; every answer arrives; a save ends unless its thread was overtaken; the thread of a closed channel exits |
| `release` | 1 image, 2 queues, 2 workers, 2 presents, image used with and without a copy, destruction at any time | types; a fence counts finished presents; the pool holds idle fences only; a callback at most once; every export is called back |
| `buffers_pipe_posts`, `snapshot_reopen`, `asg_crash`, `channel_snapshot`, `channel_two_saves` | as above, one property each | the disagreements of section 6 |

Why the bounds are enough. Timelines: two rings are what one needs to disturb
another, three tasks let a fence sit between tasks that finish out of order.
Buffers: two handles are needed to mix up entries of the delayed list, two
frames of one buffer to drop the wrong one, a channel of one to fill it; clock
values 0..2 give equal, ordered and expired times (`MaxTime`, `MaxRefs`,
`MaxDelayed` and `MaxPosts` are guards, named in the module). Snapshots: two
frames are needed to queue the reposted one behind a stale one; a save may come
after a load, with stale frames still queued, but only while no count is off
(`MaxOff = 0`), since a chain of such snapshots would go on for ever; an age of two
steps is already cut off. Guest-managed hosts are left out of this run. Ring: with four
bytes a step of 3 crosses the end from three of four positions, a step of 4
can never fit, calls of 3 bytes take two chunks, and two laps make the
positions wrap; a ring behaves alike in every lap. Stream: two slots are the
least with which one is filled while the other is read; a transfer of 4 cells
and a reply of 8 exceed the ring and go through it in parts; reads of 1 leave a
rest of a slot, reads of 4 take all there is; cells are numbered modulo 6, more
than are ever in flight; one remembered ping is the hardest case for wake-ups;
a slot is always filled, because how much of it is used makes no difference to
who may touch it. Channel: queues of one are always full or empty, which is when
somebody waits; a packet in two buffers can be cut by a snapshot, an answer in
two fills the queue; the second save is the one that can overtake. Release: two
presents are what can change places, two queues what lets the second finish
first, two workers what lets the second request be registered first; a second
image would share only the ring.

Fairness. Timelines: a completion callback that is not lost eventually runs
(`SyncThread` calls back when a wait ends, also with a time-out or an error) and,
without asynchronous callbacks, the device polls again. Nothing obliges a callback
to be lost or not to be. `FairSpec` of the buffers: the destroy channel is swept
again and again, because a guest that goes on using GL destroys and unbinds
contexts (`destroyEmulatedEglContext`, `bindContext`), which sweeps it, as
`createColorBuffer` does; and a frame queued is handled, because the post worker
runs until shutdown. Ring: a call that was
made continues when it can; no caller is obliged to make another call. Stream:
both threads run, and the device tells the consumer once the guest is gone;
weak fairness suffices, since each thread always polls or sleeps. Channel: the
guest goes on with what it began, the render thread runs, and a save or load
that was begun goes on when it can; nobody is obliged to begin one, to close or
to stop. Release: the render thread, the command thread and the workers run, and
a wait for a fence ends, if only by its time-out; nothing is assumed of the GPU
or of the guest.

Deadlock is checked for the ring. The other systems may stop: their inputs are
bounded (tasks, handles, clock, presents), or the guest is gone (stream, channel).

Each property has a mutant in `PROJECT.json`: a plausible slip in one definition
under which TLC finds it violated. The variants stand beside the definition
they change.

## 4. What is proved

All theorems hold for every value of the constants; the assumptions are named
in the modules, and TLC evaluates them in the runs. `ModularArithmetic` holds
the lemmas on remainders that the two ring-like systems share.

`VirtioGpuTimelinesProofs`: the seven theorems of the timelines, for all rings,
fences, `MaxTasks` and both modes, from `MaxTasksAssumption` alone.
`FenceAfterTasks` is not inductive: that a fence waits depends on the map saying
"completed" exactly for tasks without a pending callback, on the map and the
queues holding the same tasks, and on ids being distinct, so that erasing the
passed items of one ring cannot take a task from another. `Consistent` states
these, about values rather than variables, because each method first appends
or marks and then polls: `PollKeeps` proves that a poll of any set of rings
preserves it and is applied to the state in between. `InitIInv`, `NextIInv`
give `[]IInv`; the theorems follow from it, and `RefinesTimeline` maps each
step to a step of `FenceTimeline` or a stutter.

`RingBufferProofs`: type correctness and the four safety properties of the ring,
for any size above 1, any number of laps, any calls and any bytes, from
`SizeAssumption`, `CallAssumption` and `ByteAssumption`. (`Size` need not be a
power of two, only a divisor of the range of the positions.) The argument:

- `ReadsOldest` alone is not inductive: that the bytes in the consumer's hand
  are the oldest needs that they still were in `buf` when each was copied, that
  is, that the producer's copy in progress touches no slot of the contents.
  `IInv` says so from both sides. `ProdInv`: the chunk being written fits into
  the room *there is now*, and the bytes written so far lie in `buf` behind the
  contents. `ConsInv`: the chunk being read is part of the contents *there are
  now*, and the bytes in hand agree with `buf`.
- Each side's conjunct survives the other's steps, because a consumer's step
  can only add room (`ProdStays`) and a producer's step only adds contents and
  writes none of their slots (`ConsStays`). This is the reason one free slot is
  kept and no lock is needed.
- Everything about positions is reduced to `Between(r, w)`, the bytes from one
  position to the other: `BetweenSlots` (room and contents add up to `Size - 1`),
  `AfterPublish`, `AfterTake`, `SlotsApart` (bytes less than a ring apart have
  different slots) and `ByteAtSlot` (the split `memcpy` finds the slot an
  unbounded position would have). They rest on the lemmas of `ModularArithmetic`.
- `PublishedInOrder` and the others follow by comparing sequences elementwise;
  `NeverDeadlocked` needs only that "fully" calls step by at most half a ring.

`AsgStreamProofs`: all five safety properties of the address-space stream, for any
size of the buffer and its slots, any calls, spins, remembered pings and range of
the cells' numbers, from `SizeAssumption`, `CallAssumption` and
`BoundAssumption`. `ReceivesInOrder` and `RepliesInOrder` have one hypothesis more,
`Step < Size`, that is, at least two slots. The code needs it:
with one slot `type1Write` falls back to one outstanding slot
(`AddressSpaceStream.cpp:743-747`), which is the slot that the guest fills next,
and TLC finds `ReceivesInOrder` violated for `Step = Size`. The device sets up four
slots (`virtio-gpu-gfxstream-renderer.cpp:2116-2117`). Three invariants, each on
top of the one before, and each checked by TLC on small instances first:

- `Basics` is what each thread knows of its own call: `GuestSizes` (how much is
  sent, where), `Drained` (which rings the guest has seen empty and nobody but it
  can fill), `HostData` (what the host has in its hands). `Drained` is where the
  waits of `ensureType1Finished` and `ensureType3Finished` enter, and with it
  `TransferSizeExact` is inductive: `writeFully` sets the counter only when the last
  transfer is gone.
- `Awakes`: `NeverSleepsOnWork` speaks of a host asleep, but its last look at a
  ring is several steps earlier. `SlotsSeen` and `LargeSeen` say it from there on:
  once the guest has looked at `host_state` after a write, either the host has not
  looked at that ring yet, or a wake-up is on its way. `States` says that
  `RENDERING`, the state that lets the guest leave the notification out, is
  there only while the host will look again.
- `Ordered`: all cells from the one the decoder expects to the guest's next one
  lie in what the host holds, in the slots and in the large ring, in this order
  (`StreamInv`, over `Row` for sequences, `SlotRow` for slots and `Block` for
  stretches of the buffer). That nobody overwrites them is arithmetic on places:
  the slots handed over are the last ones before the guest's (`PlacesInv`), never
  all of them (`maxOutstanding`), and slots, large transfer and reply are never in
  the buffer together (`PlacesInv`, `ReplyInv`). `ReplyInv` follows a reply from
  being asked for to being written and read, so that the host cannot be writing
  one while the guest writes cells. Every step has a lemma that says how it
  moves the cuts of the stream, and one lemma per change of the buffer
  says that the rest of it keeps its cells.

`RenderChannelProofs`: types, `RequestsConserved`, `RepliesConserved` and
`NoLostWakeup`, for any stream of packets, any capacities and any number of
saves and loads, from `StreamAssumption`, `CapacityAssumption` and
`BoundAssumption`. The argument:

- A stream that is cut in two places is described element by element
  (`Joined(s, t, a, b)`: `s` and then `t` are `a + 1, ..., b`); one lemma for each
  way in which the cut moves (`JoinedMove`, `JoinedGrow`, `JoinedDrop`,
  `JoinedFresh`).
- Conservation is not inductive: a load replaces the queues by those saved and
  the thread by the one saved later. `Continues(r)` says that the saved queues
  go with thread `r`, which is the *running* thread from `onSave` to `save`. It
  survives what the thread does in between because no read succeeds in snapshot
  mode (`ReadEffect`), and decoding drops from the read buffer alone
  (`WorkBesideSave`). Writing does not preserve it for the answers; that is why
  they need `intact`, and what the run `channel_snapshot` shows.
- `SettledRests`: a thread that has finished saving makes no step until it is
  resumed; `HandShakeInv` ties `Finished` to where the thread is.
- `NoLostWakeup` needs `Awaited`: between its look at the state and its wish a
  guest either has a wake-up coming, or is about to wish for all it lacks.
  `NotifyWakes` shows that one notification preserves it; `CallbackInv`, that
  somebody is there to be notified: after a load the callback is missing for a
  while, and in that time the thread stays in the hand-shake.

`ImageReleaseProofs`: `CalledOnce` and `PoolIdle`, for any images, queues,
workers and number of presents (no assumption is needed). The argument:

- Both say that something is in one place. An export that was decoded and not
  called back is in one task, at one worker or in one timeline (`InOnePlace`,
  `Waiting`), and `ExportInv` adds that what waits was not called and what was
  not decoded is nowhere. `ExportLeaves` covers every step in which nothing
  enters a place, calls included; the three steps that move an export, or bring
  it, have a lemma each (`TriggerExports`, `BeginExports`, `RegisterExports`). That
  a poll may call the request that is being registered is the case of interest
  in the last.
- A fence in use is with one task, one worker or the render thread (`InUse`,
  `ReturnedOnce`), on at most one queue (`QueuedOnce`), and signalled before it is
  returned (`SignaledWhenFree`). `PoolIdle` is not inductive because it says
  nothing of the number a new fence gets: `NumberedPool` does, and `GetNumbered`
  and `ReturnNumbered` prove the two operations of the pool against it.
- All of it is conditional on `late[i] = {}`. A wait that times out makes the
  condition false in the same step (`LateEffect`), and a worker that returns
  later has only images without a time-out to answer for.

`ImageReleaseCounting` adds `TypeOK` and `FenceCountsPresents`, which count. Both
are about numbers of different things (exports, presents, requests, calls,
finished submissions), so the invariant `CInv` compares sets and leaves the
numbers to the last step:

- A present is in one place until its timeline counts it: on the stream, or with
  one task (`StreamInv`, `FlightsInv`, `FlightsUnique`). `Counted(i)` are those that
  are nowhere any more, and the timeline has counted no more than these
  (`PresentsInv`). The requests likewise (`RequestsInv`). The bounds of `TypeOK`
  follow, and that there are no more fences than presents (`FencesCreated`).
- While its image lives, a timeline has called no more exports than it counted
  presents, nor than requests, and the pending ones wait for later presents, each
  for its own (`CallsInv`). The destructor calls all that is pending, therefore the
  condition on `guest.destroyed`: a guest that destroys an image only after its
  fences leaves no call for the destructor.
- As long as no wait has timed out, what was counted is finished (`FinishedInv`):
  a fence that a task waits for is on a queue for that task's present only,
  which is what `PoolIdle` is for. `ReadyInv` puts these together, and is stated
  apart because it stays true after a destruction, when the timeline is gone.

`ColorBufferLifetimeProofs`: types, `RefcountExact`, `ReferencedStaysAlive`,
`DelayedExactly` and `HeadlessReuse`, for any processes, surfaces, feature sets, clock, queue of
frames and size of the destroy channel, from `BoundsAssumption`,
`OwnersAssumption`, `WindowsAssumption` and `ModesAssumption`. The argument:

- The table is proved about first, without saying who holds what: `TableInv(t, c,
  time)` says that table `t` is right for the numbers of references `c`. A
  buffer's count is `c`'s, what has a reference is in the table, the delayed list
  is ordered, names unused buffers once (`Listed`) and misses none (`Complete`).
  Each operator on `fb` takes `TableInv` for one `c` to `TableInv` for another:
  `OpenTable`, `CloseTable`, `SweptTable`, `WithBufferTable`, ...
- That the list is ordered is what makes the rest true: `LowerBound` finds an
  entry by time, and only in an ordered list is that the entry of the buffer
  that is opened again. (`onLoad` breaks the order, which is the run
  `snapshot_reopen`; the theorems are about `ColorBufferLifetime`.)
- `Referenced` counts where the references are: processes, surfaces, queued
  frames, and the pipe with what it has sent (`OwnerCount`, `WindowCount`,
  `PostCount`, `PipeCount`). Each has a lemma on how one entry more, one less or
  another changes the number, and `TotalCounts` adds them up to the cardinality
  of `Holders`.
- `IInv` is `StateTyped`, `TableInv(fb, Referenced, now)` and what is known of the
  pipe, of the handles given out and of guest-managed hosts. One lemma per call
  shows that the call changes `Referenced` by what it does to the table's `c`.
- `HeadlessReuse` needs that a guest-managed host without a window keeps no
  buffer that nobody refers to (`AllUsed`, in `HeadlessInv`): no frame is ever
  posted there, such a host closes without delay, and each operator that takes
  references away drops the buffers whose last one went. That guest-managed hosts
  close without delay is part of `ModesAssumption`, because virtio-gpu sets it so
  (`virtio-gpu-gfxstream-renderer.cpp:2085`).

Only model-checked: liveness (`FencesSignalled`, `OneEnds`,
`HeadlessLastReferenceErases`, `CallsReturn`, `LeavesWhenClosed`,
`EveryAnswerArrives`, `SnapshotReturnsOrOvertaken`, `ThreadExits`,
`EveryExportCalled`), which is outside the prover's reach, and `OffByOrphans` over
the snapshots of the colour buffers: `onLoad` fills the table from the saved
stream in any order, and the lemmas on the table's operators want its list in
order and its counts exact.

## 5. Plan

In this order; each with its run, its mutants and, where marked, its proofs.

1. *Done*: timelines, shared ring, address-space stream, colour buffers, render
   channel, release of images (checked, proved); the snapshots of the colour
   buffers (checked).
2. Proof of `OffByOrphans` over `ColorBufferSnapshots`, from lemmas on the
   operators that ask neither for the order of the list nor for exact counts.
3. EGL fence objects with the stale pointer registry, boxed handles and
   sequence numbers, virtio-gpu resources, post worker and borrowed images,
   vsync thread, read-back worker, the guest's work pool.

Abstract specifications: `FenceTimeline` (done); a byte fifo for both ends of
the stream.

## 6. Where the code and its comments disagree

Each is a run that TLC must find violated, with the lines quoted in
`PROJECT.json` under `findings`.

- `buffers_pipe_posts`: with RefCountPipe, a buffer whose last reference was a
  queued frame is put on a list that nobody processes.
- `snapshot_reopen`: `onLoad` fills the ordered list in hash order; a binary
  search then misses the entry of a re-opened buffer, which is collected while
  in use.
- `asg_crash`: `commitBuffer` looks for the EXIT in `host_state` that says the
  guest is gone, but `readRaw` may have overwritten it; a reply longer than the
  ring then waits for ever, and with it whoever waits for the render thread.

- `channel_snapshot`: `onSave` saves the queues and only then waits for the
  thread, which may still write an answer; it is in no part of the snapshot.
- `channel_two_saves`: a save that begins before the thread has noticed the
  resume of the one before finds the thread still waiting, and waits for it.

Seen while modelling, without a run of its own:

- `FrameBuffer.cpp:3406`: `asyncWaitForGpuWithCb` returns without the callback for
  an unknown sync object, after its task was enqueued. `SyncThread.cpp:191-192` says of
  the same case elsewhere that "we still need to complete the task, otherwise we
  may hit deadlocks on tasks on the same ring". `FencesSignalled` has this as its
  exception, and says that no other fence is held up.
- `FrameBuffer.h:749-756` and `FrameBuffer.cpp:1593-1595`: only buffers that were never
  opened are put on the delayed list, and a buffer that was opened is closed at once
  when its count reaches 0. `closeColorBufferLocked` (`:1596-1604`) and
  `decColorBufferRefCountNoDestroy` (`:1621`) never look at `opened`; every buffer
  is delayed unless it is forced. `DelayedExactly` says what the code keeps, and
  asks only that an unused buffer still in the table is on the list; it would
  hold of the table in the comments as well.
- `FrameBuffer.cpp:2961`: a save keeps the references of queued frames, and of
  destroys still in the channel, which nobody drops after the load;
  `ColorBuffer.h:127` calls the count the "number of client-side references". A
  frame queued before a load drops a reference of the loaded table (`:659`); when
  it was the last one known, the buffer is collected while the guest uses it. The
  age of a closed buffer is cut to 32 bits (`:2966`). `OffByOrphans` says by how much
  the counts are off. It is not checked with guest-managed buffers: there an id is
  used again after a miscounted buffer went, and the frames of the one would have
  to be told from those of the other.
- `FrameBuffer.cpp:1636` adds the closing delay of one second to a time in
  microseconds.
- `FrameBuffer.cpp:1621`: with virtio-gpu and a window the delayed list keeps a
  freed resource whose id the guest may use again; creating it aborts
  (`:1119`). `HeadlessReuse` says that this does not happen without a window.
- `ring_buffer.c:286`: without a view, `ring_buffer_copy_contents` measures the
  end of the buffer from `write_pos`, and a copy across the end runs into the
  fields behind it. `PeeksUpToEnd` says how far a peek is right; the one caller,
  `RingStream::type1Read`, uses only its first entry.
- `RingStream.cpp:183`: a guest that dies in the middle of a large transfer
  leaves `transfer_size` above what is in the ring, and `readRaw` then loops
  without ever looking at `mShouldExit`.
- `RendererImpl.cpp:318`: `stop()` during a save; `resumeAll` then resumes
  nobody, and the thread stays in `snapshotOperation` (`Abandoned`).
- `RenderThread.cpp:306`: a thread saved before it read the client flags is
  loaded into the main loop and takes them for the start of a packet.
- `RenderChannel.h` says of `setWantedEvents` that it does not call the callback
  directly. It does, and the wake-up would be lost otherwise
  (`setWantedEventsQuietly` is the mutant of `NoLostWakeup`).
- `VkAndroidNativeBuffer.cpp:84` says that nothing in the fence pool is
  unsignalled; after a time-out the fence goes back to it all the same. The
  destructor's `vkQueueWaitIdle` has no time-out, and may run under the global
  `mLock`. Two requests of one image may be registered in either order, and
  with two queues the n-th fence says that n presents are over, not which.

## 7. Not modelled, and why

Generated marshalling, the GLES translator, codecs and device I/O have no
control of their own. Contents of buffers, formats, wording and logging are
abstracted away everywhere. The parts of item 3 of the plan have
control, but are not modelled yet; `PROJECT.json` gives the reason for each part.
The data race between the post worker's
`push_back` on the delayed list and the walk of
`performDelayedColorBufferCloseLocked` (different locks) lies below the atomic
steps of the model and is listed as a hazard.
