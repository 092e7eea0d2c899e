---------------------------- MODULE ImageRelease ----------------------------
(***************************************************************************)
(* The release of a Vulkan image to the guest's compositor: the guest      *)
(* calls vkQueueSignalReleaseImageANDROID (a present) on the stream of a   *)
(* render thread and asks on the virtio-gpu command stream for a fence     *)
(* that signals once the image is ready (an export).  The two streams are  *)
(* decoded independently and meet in                                       *)
(*   host/vulkan/VkAndroidNativeBuffer.{h,cpp}  AndroidNativeBufferInfo    *)
(*      with its pool of fences, shared by the table of images and by the  *)
(*      tasks that wait for its presents;                                  *)
(*   host/vulkan/VkQsriTimeline.h   counts presents that are over and      *)
(*      requests, and calls request k back once k + 1 presents are over;   *)
(*   host/SyncThread.cpp   the workers that wait for presents and that     *)
(*      register the requests, in whatever order they get to run.          *)
(* The callback of an export completes a task of its virtio-gpu ring, so   *)
(* its fence signals when all exports of the ring up to it were called     *)
(* back: that is VirtioGpuTimelines, whose promise is used here and not    *)
(* modelled again.  Vulkan, the thread pool (aemu) and the guest's own     *)
(* waits are external.                                                     *)
(***************************************************************************)
EXTENDS Naturals, Sequences, FiniteSets, SequencesExt

CONSTANTS
  Images, Queues,
  Workers,       \* SyncThread::kNumWorkerThreads of them
  MaxPresents    \* bound: presents in the life of the guest

ASSUME MaxPresentsAssumption == MaxPresents \in Nat

VARIABLES
  native,     \* images the host uses without a copy (useVulkanNativeImage)
  guest,      \* what the guest has put on its two streams
  mImageInfo, \* images the global state still knows
  pool,       \* image -> qsriWaitFencePool
  timeline,   \* image -> qsriTimeline
  gpu,        \* what the Vulkan queues and their fences hold
  rt,         \* the render thread that decodes presents and destructions
  tasks,      \* tasks handed to the SyncThread and not yet begun
  worker,     \* worker -> what it does
  called,     \* export -> how often its callback was called
  late        \* image -> presents whose wait has timed out

vars == <<native, guest, mImageInfo, pool, timeline, gpu, rt, tasks, worker,
          called, late>>

Exports == 1 .. MaxPresents
Fences  == 1 .. MaxPresents

\* A present carries its ordinal among the presents of its image.
PresentCall(i, q, n) == [op |-> "present", image |-> i, queue |-> q, nth |-> n]
DestroyCall(i)       == [op |-> "destroy", image |-> i]

WaitTask(i, n, f)  == [op |-> "wait", image |-> i, nth |-> n, fence |-> f]
RegisterTask(i, e) == [op |-> "register", image |-> i, export |-> e]

Idle     == [pc |-> "idle"]
At(l, t) == [pc |-> l, task |-> t]

Init ==
  /\ native \in SUBSET Images
  /\ guest = [stream |-> <<>>, exports |-> <<>>, decoded |-> 0,
              destroyed |-> {}, gaveUp |-> {}]
  /\ mImageInfo = Images
  /\ pool = [i \in Images |-> [available |-> <<>>, used |-> {}]]
  /\ timeline = [i \in Images |-> [presents |-> 0, requests |-> 0, pending |-> {}]]
  /\ gpu = [queue    |-> [q \in Queues |-> <<>>],
            finished |-> [i \in Images |-> {}],
            signaled |-> [i \in Images |-> {}],
            used     |-> [i \in Images |-> {}]]
  /\ rt = Idle
  /\ tasks = {}
  /\ worker = [w \in Workers |-> Idle]
  /\ called = [e \in Exports |-> 0]
  /\ late = [i \in Images |-> {}]

-----------------------------------------------------------------------------
(***************************************************************************)
(* VkQsriTimeline.  Every method holds the lock of the timeline, also      *)
(* while it calls back.                                                    *)
(***************************************************************************)
Call(exports) == called' = [e \in Exports |-> IF e \in exports THEN called[e] + 1
                                                               ELSE called[e]]

(* pollLocked: all requests below lower_bound(mPresentCount). *)
Ready(tl)  == {r \in tl.pending : r.count < tl.presents}
Polled(tl) == [tl EXCEPT !.pending = @ \ Ready(tl)]

PollLocked(i, tl) ==
  /\ timeline' = [timeline EXCEPT ![i] = Polled(tl)]
  /\ Call({r.export : r \in Ready(tl)})

\* Variant: a present is counted as two.
signalTwoPresentsAndPoll(i) ==
  PollLocked(i, [timeline[i] EXCEPT !.presents = @ + 2])

signalNextPresentAndPoll(i) ==
  PollLocked(i, [timeline[i] EXCEPT !.presents = @ + 1])

registerCallbackForNextPresentAndPoll(i, e) ==
  PollLocked(i, [timeline[i] EXCEPT
                   !.requests = @ + 1,
                   !.pending = @ \cup {[count |-> timeline[i].requests, export |-> e]}])

-----------------------------------------------------------------------------
(***************************************************************************)
(* QsriWaitFencePool.  getFenceFromPool takes the fence returned last and  *)
(* resets it, or creates one; the fences of an image are numbered in the   *)
(* order of their creation.                                                *)
(***************************************************************************)
Created(p)  == Cardinality(p.used) + Len(p.available)
NextFence(p) ==
  IF p.available = <<>> THEN Created(p) + 1 ELSE Last(p.available)

ResetNot(i, f) == gpu.signaled[i]   \* variant: vkResetFences is not called
Reset(i, f)    == gpu.signaled[i] \ {f}

WithNext(p)    == p.available       \* variant: the fence is not popped
WithoutNext(p) == IF p.available = <<>> THEN <<>> ELSE Front(p.available)

getFenceFromPool(i) ==
  pool' = [pool EXCEPT ![i] = [available |-> WithoutNext(pool[i]),
                               used |-> @.used \cup {NextFence(pool[i])}]]

\* It aborts on a fence that is not in use, which PoolIdle excludes.
returnFence(i, f) ==
  /\ f \in pool[i].used
  /\ pool' = [pool EXCEPT ![i] = [available |-> Append(@.available, f),
                                  used |-> @.used \ {f}]]

-----------------------------------------------------------------------------
(***************************************************************************)
(* The guest.  A present and its export are encoded together; the host     *)
(* takes them from two streams.  on_vkDestroyImage waits three seconds for *)
(* each fence of the image and then destroys it all the same.              *)
(***************************************************************************)
ImageOf(e) == guest.exports[e]
Nth(e)     == Cardinality({k \in 1 .. e : ImageOf(k) = ImageOf(e)})
Exported   == 1 .. Len(guest.exports)
Handed     == 1 .. guest.decoded

\* A fence follows every task that was enqueued on its ring before it.
Signaled(e) == e \in Handed /\ \A k \in 1 .. e : called[k] > 0

Present(i, q) ==
  /\ i \notin guest.destroyed
  /\ Len(guest.exports) < MaxPresents
  /\ guest' = [guest EXCEPT
       !.stream = Append(@, PresentCall(i, q,
                    1 + Cardinality({e \in Exported : ImageOf(e) = i}))),
       !.exports = Append(@, i)]
  /\ UNCHANGED <<native, mImageInfo, pool, timeline, gpu, rt, tasks, worker,
                 called, late>>

Unready(i) == {e \in Exported : ImageOf(e) = i /\ ~Signaled(e)}

DestroyImage(i) ==
  /\ i \notin guest.destroyed
  /\ guest' = [guest EXCEPT !.stream = Append(@, DestroyCall(i)),
                            !.destroyed = @ \cup {i},
                            !.gaveUp = @ \cup {j \in {i} : Unready(j) # {}}]
  /\ UNCHANGED <<native, mImageInfo, pool, timeline, gpu, rt, tasks, worker,
                 called, late>>

-----------------------------------------------------------------------------
(***************************************************************************)
(* An AndroidNativeBufferInfo lives as long as the table, a waiting task   *)
(* or a worker that registers a request holds it.  Whoever lets it go last *)
(* destroys it: ~AndroidNativeBufferInfo first waits until its queues are  *)
(* idle, and ~VkQsriTimeline calls what is still pending.                  *)
(***************************************************************************)
Holds(t) == t.op = "wait"
HeldBy(i, w) ==
  /\ worker[w].pc \in {"wait", "return", "signal", "register"}
  /\ worker[w].task.image = i

LastHolder(i, w) ==
  /\ i \notin mImageInfo
  /\ \A t \in tasks : t.image = i => ~Holds(t)
  /\ \A v \in Workers \ {w} : ~HeldBy(i, v)

\* What a worker does when its task is over.
LetGo(w) ==
  LET t == worker[w].task
  IN worker' = [worker EXCEPT ![w] = IF LastHolder(t.image, w)
                                       THEN At("teardown", t) ELSE Idle]

QueuesIdle(i) == \A q \in gpu.used[i] : gpu.queue[q] = <<>>

destroyTimeline(i) ==
  /\ QueuesIdle(i)
  /\ Call({r.export : r \in timeline[i].pending})
  /\ timeline' = [timeline EXCEPT ![i].pending = {}]

-----------------------------------------------------------------------------
(***************************************************************************)
(* vkWaitForFences with kTimeoutNs: it may time out while the fence is not *)
(* signalled, and then the task goes on as if it were.                     *)
(***************************************************************************)
WaitForFence(t) ==
  late' = [late EXCEPT ![t.image] =
             IF t.fence \in gpu.signaled[t.image] THEN @ ELSE @ \cup {t.nth}]

(***************************************************************************)
(* The render thread.  on_vkQueueSignalReleaseImageANDROID and             *)
(* destroyImageLocked hold mLock to their end.                             *)
(***************************************************************************)
mLockFree == rt.pc = "idle"
NextCall  == Head(guest.stream)

syncImageToColorBuffer ==
  /\ mLockFree
  /\ guest.stream # <<>>
  /\ NextCall.op = "present"
  /\ LET i == NextCall.image
         f == NextFence(pool[i])
         t == WaitTask(i, NextCall.nth, f)
     IN /\ getFenceFromPool(i)
        /\ gpu' = [gpu EXCEPT !.queue[NextCall.queue] = Append(@, t),
                              !.signaled[i] = Reset(i, f),
                              !.used[i] = @ \cup {NextCall.queue}]
        /\ IF i \in native
             THEN tasks' = tasks \cup {t} /\ UNCHANGED rt
             ELSE rt' = At("wait", t) /\ UNCHANGED tasks
  /\ guest' = [guest EXCEPT !.stream = Tail(@)]
  /\ UNCHANGED <<native, mImageInfo, timeline, worker, called, late>>

renderThreadWait ==
  /\ rt.pc = "wait"
  /\ WaitForFence(rt.task)
  /\ rt' = At("return", rt.task)
  /\ UNCHANGED <<native, guest, mImageInfo, pool, timeline, gpu, tasks, worker,
                 called>>

renderThreadReturn ==
  /\ rt.pc = "return"
  /\ returnFence(rt.task.image, rt.task.fence)
  /\ rt' = At("signal", rt.task)
  /\ UNCHANGED <<native, guest, mImageInfo, timeline, gpu, tasks, worker,
                 called, late>>

renderThreadSignal ==
  /\ rt.pc = "signal"
  /\ signalNextPresentAndPoll(rt.task.image)
  /\ rt' = Idle
  /\ UNCHANGED <<native, guest, mImageInfo, pool, gpu, tasks, worker, late>>

destroyImageLocked ==
  /\ mLockFree
  /\ guest.stream # <<>>
  /\ NextCall.op = "destroy"
  /\ LET i == NextCall.image
     IN /\ mImageInfo' = mImageInfo \ {i}
        /\ rt' = IF \/ \E t \in tasks : t.image = i /\ Holds(t)
                    \/ \E w \in Workers : HeldBy(i, w)
                   THEN Idle ELSE At("teardown", DestroyCall(i))
  /\ guest' = [guest EXCEPT !.stream = Tail(@)]
  /\ UNCHANGED <<native, pool, timeline, gpu, tasks, worker, called, late>>

renderThreadTeardown ==
  /\ rt.pc = "teardown"
  /\ destroyTimeline(rt.task.image)
  /\ rt' = Idle
  /\ UNCHANGED <<native, guest, mImageInfo, pool, gpu, tasks, worker, late>>

RenderThread ==
  \/ syncImageToColorBuffer \/ destroyImageLocked
  \/ renderThreadWait \/ renderThreadReturn \/ renderThreadSignal
  \/ renderThreadTeardown

-----------------------------------------------------------------------------
(* The command thread of virtio-gpu, GFXSTREAM_CREATE_QSRI_EXPORT_VK.      *)
triggerWaitVkQsriWithCompletionCallback ==
  /\ guest.decoded < Len(guest.exports)
  /\ LET e == guest.decoded + 1
     IN tasks' = tasks \cup {RegisterTask(ImageOf(e), e)}
  /\ guest' = [guest EXCEPT !.decoded = @ + 1]
  /\ UNCHANGED <<native, mImageInfo, pool, timeline, gpu, rt, worker, called, late>>

(***************************************************************************)
(* The workers.  Which task a free worker begins is the pool's choice, so  *)
(* two requests of one image may be registered in either order.            *)
(***************************************************************************)
doSyncThreadCmd(w, t) ==
  /\ worker[w] = Idle
  /\ tasks' = tasks \ {t}
  /\ worker' = [worker EXCEPT ![w] = At(IF t.op = "wait" THEN "wait" ELSE "lookup", t)]
  /\ UNCHANGED <<native, guest, mImageInfo, pool, timeline, gpu, rt, called, late>>

\* registerQsriCallback finds no image, and the task calls back itself.
CallbackOmitted(t) == {}       \* variant: the result is not looked at
CallbackOf(t)      == {t.export}

registerUnknownImage(w) ==
  /\ worker[w].pc = "lookup"
  /\ mLockFree
  /\ worker[w].task.image \notin mImageInfo
  /\ Call(CallbackOf(worker[w].task))
  /\ worker' = [worker EXCEPT ![w] = Idle]
  /\ UNCHANGED <<native, guest, mImageInfo, pool, timeline, gpu, rt, tasks, late>>

registerLookup(w) ==
  /\ worker[w].pc = "lookup"
  /\ mLockFree
  /\ worker[w].task.image \in mImageInfo
  /\ worker' = [worker EXCEPT ![w].pc = "register"]
  /\ UNCHANGED <<native, guest, mImageInfo, pool, timeline, gpu, rt, tasks,
                 called, late>>

\* Variant: the task calls back although the timeline has scheduled the call.
registerAndCall(w) ==
  LET t == worker[w].task
  IN /\ worker[w].pc = "register"
     /\ timeline' = [timeline EXCEPT ![t.image].requests = @ + 1,
          ![t.image].pending = @ \cup {[count |-> timeline[t.image].requests,
                                        export |-> t.export]}]
     /\ Call({t.export})
     /\ LetGo(w)
     /\ UNCHANGED <<native, guest, mImageInfo, pool, gpu, rt, tasks, late>>

registerQsriCallback(w) ==
  /\ worker[w].pc = "register"
  /\ registerCallbackForNextPresentAndPoll(worker[w].task.image, worker[w].task.export)
  /\ LetGo(w)
  /\ UNCHANGED <<native, guest, mImageInfo, pool, gpu, rt, tasks, late>>

waitForQsriFenceTask(w) ==
  /\ worker[w].pc = "wait"
  /\ WaitForFence(worker[w].task)
  /\ worker' = [worker EXCEPT ![w].pc = "return"]
  /\ UNCHANGED <<native, guest, mImageInfo, pool, timeline, gpu, rt, tasks, called>>

workerReturn(w) ==
  /\ worker[w].pc = "return"
  /\ returnFence(worker[w].task.image, worker[w].task.fence)
  /\ worker' = [worker EXCEPT ![w].pc = "signal"]
  /\ UNCHANGED <<native, guest, mImageInfo, timeline, gpu, rt, tasks, called, late>>

workerSignal(w) ==
  /\ worker[w].pc = "signal"
  /\ signalNextPresentAndPoll(worker[w].task.image)
  /\ LetGo(w)
  /\ UNCHANGED <<native, guest, mImageInfo, pool, gpu, rt, tasks, late>>

workerTeardown(w) ==
  /\ worker[w].pc = "teardown"
  /\ destroyTimeline(worker[w].task.image)
  /\ worker' = [worker EXCEPT ![w] = Idle]
  /\ UNCHANGED <<native, guest, mImageInfo, pool, gpu, rt, tasks, late>>

Worker(w) ==
  \/ registerUnknownImage(w) \/ registerLookup(w) \/ registerQsriCallback(w)
  \/ waitForQsriFenceTask(w) \/ workerReturn(w) \/ workerSignal(w)
  \/ workerTeardown(w)

-----------------------------------------------------------------------------
(* Vulkan: a queue finishes its submissions in order and signals their     *)
(* fences.  Nothing makes it finish.                                       *)
Finish(q) ==
  /\ gpu.queue[q] # <<>>
  /\ LET s == Head(gpu.queue[q])
     IN gpu' = [gpu EXCEPT !.queue[q] = Tail(@),
                           !.finished[s.image] = @ \cup {s.nth},
                           !.signaled[s.image] = @ \cup {s.fence}]
  /\ UNCHANGED <<native, guest, mImageInfo, pool, timeline, rt, tasks, worker,
                 called, late>>

Next ==
  \/ \E i \in Images : (\E q \in Queues : Present(i, q)) \/ DestroyImage(i)
  \/ RenderThread
  \/ triggerWaitVkQsriWithCompletionCallback
  \/ \E w \in Workers : Worker(w) \/ \E t \in tasks : doSyncThreadCmd(w, t)
  \/ \E q \in Queues : Finish(q)

(***************************************************************************)
(* Threads run, and every wait for a fence ends, if only by its time-out.  *)
(* Nothing is assumed of the GPU and of the guest.                         *)
(***************************************************************************)
Fairness ==
  /\ WF_vars(RenderThread)
  /\ WF_vars(triggerWaitVkQsriWithCompletionCallback)
  /\ \A w \in Workers : WF_vars(Worker(w))
  /\ WF_vars(\E w \in Workers : \E t \in tasks : doSyncThreadCmd(w, t))

Spec == Init /\ [][Next]_vars /\ Fairness

-----------------------------------------------------------------------------
(***************************************************************************)
(* Properties                                                              *)
(***************************************************************************)

\* The shape of the state.  A timeline never counts more presents than the
\* render thread has submitted, nor more requests than were decoded.
TypeOK ==
  /\ native \subseteq Images /\ mImageInfo \subseteq Images
  /\ guest.exports \in Seq(Images) /\ guest.decoded \in 0 .. Len(guest.exports)
  /\ \A i \in Images :
       /\ pool[i].available \in Seq(Fences) /\ pool[i].used \subseteq Fences
       /\ timeline[i].presents \in 0 .. Cardinality({e \in Exported : ImageOf(e) = i})
       /\ timeline[i].requests \in 0 .. Cardinality({e \in Handed : ImageOf(e) = i})
       /\ {r.count : r \in timeline[i].pending} \subseteq 0 .. timeline[i].requests - 1
       /\ late[i] \subseteq 1 .. MaxPresents
  /\ rt.pc \in {"idle", "wait", "return", "signal", "teardown"}
  /\ \A w \in Workers :
       worker[w].pc \in {"idle", "lookup", "register", "wait", "return",
                         "signal", "teardown"}

\* VkDecoderGlobalState.h:655: the fence of the n-th export of an image signals
\* only when the GPU has finished n presents of it (on one queue: the first n),
\* whichever worker registers or waits first, unless a wait of the image timed
\* out or the guest destroyed the image before its fences had signalled.
FenceCountsPresents ==
  \A e \in Handed :
    Signaled(e) =>
      \/ ImageOf(e) \in guest.gaveUp
      \/ late[ImageOf(e)] # {}
      \/ Cardinality(gpu.finished[ImageOf(e)]) >= Nth(e)

\* VkAndroidNativeBuffer.cpp:84, "Nothing in the fence pool is unsignaled": as
\* long as no wait has timed out, a fence that is free is signalled and on no
\* queue, a fence in use is on its way back by one task, and none is both.
Submissions(i) ==
  UNION {{<<q, k>> : k \in {k \in 1 .. Len(gpu.queue[q]) : gpu.queue[q][k].image = i}} :
         q \in Queues}
FenceAt(s) == gpu.queue[s[1]][s[2]].fence
Returning ==
  {t \in tasks : t.op = "wait"}
    \cup {worker[w].task : w \in {w \in Workers : worker[w].pc \in {"wait", "return"}}}
    \cup {r.task : r \in {r \in {rt} : r.pc \in {"wait", "return"}}}

PoolIdle ==
  \A i \in Images : late[i] = {} =>
    /\ ToSet(pool[i].available) \cap pool[i].used = {}
    /\ IsInjective(pool[i].available)
    /\ \A f \in ToSet(pool[i].available) : f \in gpu.signaled[i]
    /\ \A s \in Submissions(i) : FenceAt(s) \in pool[i].used
    /\ \A s, t \in Submissions(i) : FenceAt(s) = FenceAt(t) => s = t
    /\ \A f \in pool[i].used :
         Cardinality({t \in Returning : t.image = i /\ t.fence = f}) = 1

\* The callback of an export runs at most once, whether the timeline, its
\* destructor or the task itself calls it: notifyTaskCompletion aborts the host
\* on the second call.
CalledOnce == \A e \in Exports : called[e] <= 1

\* SyncThread.cpp:191: every export is called back, also when its image is gone
\* and when the GPU never finishes, or else a destructor waits for ever for a
\* queue of the GPU to become idle (VkAndroidNativeBuffer.cpp:477), which has no
\* time-out.
TeardownWaits ==
  \/ rt.pc = "teardown" /\ ~QueuesIdle(rt.task.image)
  \/ \E w \in Workers : worker[w].pc = "teardown" /\ ~QueuesIdle(worker[w].task.image)

EveryExportCalled ==
  \A e \in Exports : e \in Exported ~> (called[e] > 0 \/ []TeardownWaits)

=============================================================================
