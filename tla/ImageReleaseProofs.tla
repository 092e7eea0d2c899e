------------------------- MODULE ImageReleaseProofs -------------------------
(***************************************************************************)
(* Proofs about ImageRelease, for any images, queues, workers and number   *)
(* of presents: no export is called back twice, and the pool hands out     *)
(* idle fences only.  Both rest on the same idea: an export that has not   *)
(* been called back is in one place, and so is a fence that is in use.     *)
(***************************************************************************)
EXTENDS ImageRelease, FiniteSetTheorems, SequenceTheorems, TLAPS

-----------------------------------------------------------------------------
(***************************************************************************)
(* Types.                                                                  *)
(***************************************************************************)
PresentCalls  == [op : {"present"}, image : Images, queue : Queues, nth : Nat]
DestroyCalls  == [op : {"destroy"}, image : Images]
Calls         == PresentCalls \cup DestroyCalls
WaitTasks     == [op : {"wait"}, image : Images, nth : Nat, fence : Nat]
RegisterTasks == [op : {"register"}, image : Images, export : Nat]
Returns       == {"wait", "return", "signal"}
Registers     == {"lookup", "register"}

Threads == {Idle} \cup [pc : Returns, task : WaitTasks]
                  \cup [pc : {"teardown"}, task : DestroyCalls]
Pooled  == {Idle} \cup [pc : Returns, task : WaitTasks]
                  \cup [pc : Registers, task : RegisterTasks]
                  \cup [pc : {"teardown"}, task : WaitTasks \cup RegisterTasks]

Guests == [stream : Seq(Calls), exports : Seq(Images),
           decoded : Nat, destroyed : SUBSET Images, gaveUp : SUBSET Images]
Pools == [available : Seq(Nat), used : SUBSET Nat]
Timelines == [presents : Nat, requests : Nat, pending : SUBSET [count : Nat, export : Nat]]
Gpus == [queue : [Queues -> Seq(WaitTasks)], finished : [Images -> SUBSET Nat],
         signaled : [Images -> SUBSET Nat], used : [Images -> SUBSET Queues]]

Typed ==
  /\ guest \in Guests /\ guest.decoded <= Len(guest.exports)
  /\ pool \in [Images -> Pools] /\ \A i \in Images : IsFiniteSet(pool[i].used)
  /\ timeline \in [Images -> Timelines]
  /\ gpu \in Gpus
  /\ rt \in Threads
  /\ tasks \subseteq WaitTasks \cup RegisterTasks
  /\ worker \in [Workers -> Pooled]
  /\ called \in [Exports -> Nat]
  /\ late \in [Images -> SUBSET Nat]

-----------------------------------------------------------------------------
(***************************************************************************)
(* Where an export is that has not been called back.                       *)
(***************************************************************************)
InTasks(t, e)    == t \in tasks /\ t.op = "register" /\ t.export = e
AtWorker(w, e)   == worker[w].pc \in Registers /\ worker[w].task.export = e
Pending(i, r, e) == r \in timeline[i].pending /\ r.export = e

Waiting(e) == \/ \E t \in tasks : InTasks(t, e)
              \/ \E w \in Workers : AtWorker(w, e)
              \/ \E i \in Images : \E r \in timeline[i].pending : Pending(i, r, e)

InOnePlace(e) ==
  /\ \A t, u \in tasks : InTasks(t, e) /\ InTasks(u, e) => t = u
  /\ \A v, w \in Workers : AtWorker(v, e) /\ AtWorker(w, e) => v = w
  /\ \A i, j \in Images : \A r \in timeline[i].pending, s \in timeline[j].pending :
       Pending(i, r, e) /\ Pending(j, s, e) => i = j /\ r = s
  /\ \A t \in tasks, w \in Workers : ~(InTasks(t, e) /\ AtWorker(w, e))
  /\ \A t \in tasks, i \in Images : \A r \in timeline[i].pending :
       ~(InTasks(t, e) /\ Pending(i, r, e))
  /\ \A w \in Workers, i \in Images : \A r \in timeline[i].pending :
       ~(AtWorker(w, e) /\ Pending(i, r, e))

ExportInv(e) ==
  /\ InOnePlace(e)
  /\ Waiting(e) => e <= guest.decoded /\ (e \in Exports => called[e] = 0)
  /\ e \in Exports => called[e] <= 1 /\ (e > guest.decoded => called[e] = 0)

ExportsInv == \A e \in Nat : ExportInv(e)

-----------------------------------------------------------------------------
(***************************************************************************)
(* Where a fence is that is in use, as long as no wait has timed out.      *)
(***************************************************************************)
NumberedPool(p) ==
  /\ ToSet(p.available) \cap p.used = {}
  /\ IsInjective(p.available)
  /\ \A f \in ToSet(p.available) \cup p.used : f <= Created(p)

ForFence(t, i, f)    == t.image = i /\ t.fence = f
TaskReturns(t, i, f) == t \in tasks /\ t.op = "wait" /\ ForFence(t, i, f)
Waits(s, i, f)       == s.pc = "wait" /\ ForFence(s.task, i, f)
WaitIsOver(s, i, f)  == s.pc = "return" /\ ForFence(s.task, i, f)
Returner(s, i, f)    == Waits(s, i, f) \/ WaitIsOver(s, i, f)
Submitted(q, k, i, f) == /\ k \in 1 .. Len(gpu.queue[q])
                         /\ ForFence(gpu.queue[q][k], i, f)

InUse(i, f) == \/ \E t \in tasks : TaskReturns(t, i, f)
               \/ \E w \in Workers : Returner(worker[w], i, f)
               \/ Returner(rt, i, f)

ReturnedOnce(i, f) ==
  /\ \A t, u \in tasks : TaskReturns(t, i, f) /\ TaskReturns(u, i, f) => t = u
  /\ \A v, w \in Workers :
       Returner(worker[v], i, f) /\ Returner(worker[w], i, f) => v = w
  /\ \A t \in tasks, w \in Workers : ~(TaskReturns(t, i, f) /\ Returner(worker[w], i, f))
  /\ \A t \in tasks : ~(TaskReturns(t, i, f) /\ Returner(rt, i, f))
  /\ \A w \in Workers : ~(Returner(worker[w], i, f) /\ Returner(rt, i, f))

QueuedOnce(i, f) ==
  /\ \A q \in Queues, k \in Nat :
       Submitted(q, k, i, f) => f \in pool[i].used /\ f \notin gpu.signaled[i]
  /\ \A p, q \in Queues, j, k \in Nat :
       Submitted(p, j, i, f) /\ Submitted(q, k, i, f) => p = q /\ j = k

SignaledWhenFree(i, f) ==
  /\ f \in ToSet(pool[i].available) => f \in gpu.signaled[i]
  /\ \A w \in Workers : WaitIsOver(worker[w], i, f) => f \in gpu.signaled[i]
  /\ WaitIsOver(rt, i, f) => f \in gpu.signaled[i]

FenceInv(i, f) ==
  /\ f \in pool[i].used <=> InUse(i, f)
  /\ ReturnedOnce(i, f) /\ QueuedOnce(i, f) /\ SignaledWhenFree(i, f)

FencesInv(i) ==
  late[i] = {} => NumberedPool(pool[i]) /\ \A f \in Nat : FenceInv(i, f)

PoolInv == \A i \in Images : FencesInv(i)

IInv == Typed /\ ExportsInv /\ PoolInv

-----------------------------------------------------------------------------
(***************************************************************************)
(* The types are kept.                                                     *)
(***************************************************************************)
LEMMA CallTyped ==
  ASSUME called \in [Exports -> Nat], NEW S, Call(S)
  PROVE  called' \in [Exports -> Nat]
BY DEF Call

LEMMA PollTyped ==
  ASSUME Typed, NEW i \in Images, NEW tl \in Timelines, PollLocked(i, tl)
  PROVE  /\ timeline' \in [Images -> Timelines]
         /\ called' \in [Exports -> Nat]
<1>1. Polled(tl) \in Timelines BY DEF Polled, Timelines
<1>2. timeline' \in [Images -> Timelines] BY <1>1 DEF PollLocked, Typed
<1>3. called' \in [Exports -> Nat] BY CallTyped DEF PollLocked, Typed
<1> QED BY <1>2, <1>3

LEMMA SignalTyped ==
  ASSUME Typed, NEW i \in Images, signalNextPresentAndPoll(i)
  PROVE  /\ timeline' \in [Images -> Timelines]
         /\ called' \in [Exports -> Nat]
<1> DEFINE tl == timeline[i]
<1>t. tl \in Timelines BY DEF Typed
<1> HIDE DEF tl
<1>1. [tl EXCEPT !.presents = @ + 1] \in Timelines BY <1>t DEF Timelines
<1> QED BY <1>1, PollTyped DEF tl, signalNextPresentAndPoll

LEMMA RegisterTyped ==
  ASSUME Typed, NEW i \in Images, NEW e \in Nat, registerCallbackForNextPresentAndPoll(i, e)
  PROVE  /\ timeline' \in [Images -> Timelines]
         /\ called' \in [Exports -> Nat]
<1> DEFINE tl == timeline[i]
<1>t. tl \in Timelines BY DEF Typed
<1> HIDE DEF tl
<1> DEFINE p == tl.pending \cup {[count |-> tl.requests, export |-> e]}
<1>p. p \in SUBSET [count : Nat, export : Nat] BY <1>t DEF Timelines
<1> DEFINE n == tl.requests + 1
<1>n. n \in Nat BY <1>t DEF Timelines
<1>q. [tl EXCEPT !.requests = n, !.pending = p] \in Timelines
  <2> HIDE DEF p, n
  <2> QED BY <1>t, <1>p, <1>n DEF Timelines
<1>1. [tl EXCEPT !.requests = @ + 1,
         !.pending = @ \cup {[count |-> tl.requests, export |-> e]}] \in Timelines
  BY <1>q
<1> QED BY <1>1, PollTyped DEF tl, registerCallbackForNextPresentAndPoll

LEMMA DestroyTyped ==
  ASSUME Typed, NEW i \in Images, destroyTimeline(i)
  PROVE  /\ timeline' \in [Images -> Timelines]
         /\ called' \in [Exports -> Nat]
<1>1. timeline' \in [Images -> Timelines] BY DEF destroyTimeline, Typed, Timelines
<1> QED BY <1>1, CallTyped DEF destroyTimeline, Typed

LEMMA ReturnTyped ==
  ASSUME Typed, NEW i \in Images, NEW f \in Nat, returnFence(i, f)
  PROVE  pool' \in [Images -> Pools] /\ \A j \in Images : IsFiniteSet(pool'[j].used)
<1>1. pool' \in [Images -> Pools] BY DEF returnFence, Typed, Pools
<1>2. pool'[i].used = pool[i].used \ {f} BY DEF returnFence, Typed, Pools
<1> DEFINE u == pool[i].used
<1>u. IsFiniteSet(u) BY DEF Typed
<1>v. IsFiniteSet(u \ {f}) BY <1>u, FS_RemoveElement
<1>3. IsFiniteSet(pool'[i].used) BY <1>2, <1>v
<1>4. \A j \in Images \ {i} : pool'[j] = pool[j] BY DEF returnFence, Typed
<1> QED BY <1>1, <1>3, <1>4 DEF Typed

LEMMA NextFenceTyped ==
  ASSUME NEW p \in Pools, IsFiniteSet(p.used)
  PROVE  /\ Cardinality(p.used) \in Nat /\ Created(p) \in Nat /\ NextFence(p) \in Nat
         /\ WithoutNext(p) \in Seq(Nat)
<1>1. Cardinality(p.used) \in Nat BY FS_CardinalityType
<1>2. p.available \in Seq(Nat) BY DEF Pools
<1>3. Created(p) \in Nat BY <1>1, <1>2 DEF Created
<1>4. p.available # <<>> => Last(p.available) \in Nat BY <1>2 DEF Last
<1>5. WithoutNext(p) \in Seq(Nat) BY <1>2 DEF WithoutNext, Front
<1> QED BY <1>1, <1>3, <1>4, <1>5 DEF NextFence

LEMMA GetTyped ==
  ASSUME Typed, NEW i \in Images, getFenceFromPool(i)
  PROVE  pool' \in [Images -> Pools] /\ \A j \in Images : IsFiniteSet(pool'[j].used)
<1> DEFINE f == NextFence(pool[i])
<1>1. f \in Nat /\ WithoutNext(pool[i]) \in Seq(Nat) BY NextFenceTyped DEF Typed
<1>2. pool'[i] = [available |-> WithoutNext(pool[i]), used |-> pool[i].used \cup {f}]
  BY DEF getFenceFromPool, Typed
<1>3. pool'[i] \in Pools BY <1>1, <1>2 DEF Pools, Typed
<1>4. pool' \in [Images -> Pools] BY <1>2, <1>3 DEF getFenceFromPool, Typed
<1> DEFINE u == pool[i].used
<1>u. IsFiniteSet(u) BY DEF Typed
<1>v. IsFiniteSet(u \cup {f}) BY <1>u, FS_AddElement
<1>5. IsFiniteSet(pool'[i].used) BY <1>2, <1>v
<1>6. \A j \in Images \ {i} : pool'[j] = pool[j] BY DEF getFenceFromPool, Typed
<1> QED BY <1>4, <1>5, <1>6 DEF Typed

LEMMA StreamTyped ==
  ASSUME Typed, guest.stream # <<>>
  PROVE  /\ NextCall \in Calls
         /\ [guest EXCEPT !.stream = Tail(@)] \in Guests
<1>1. guest.stream \in Seq(Calls) BY DEF Typed, Guests
<1>2. Head(guest.stream) \in Calls /\ Tail(guest.stream) \in Seq(Calls) BY <1>1
<1>3. [guest EXCEPT !.stream = Tail(@)] \in Guests BY <1>2 DEF Typed, Guests
<1> QED BY <1>2, <1>3 DEF NextCall

LEMMA LateTyped ==
  ASSUME Typed, NEW t \in WaitTasks, WaitForFence(t)
  PROVE  late' \in [Images -> SUBSET Nat]
BY DEF WaitForFence, Typed, WaitTasks

LEMMA LetGoTyped ==
  ASSUME Typed, NEW w \in Workers, worker[w] # Idle, LetGo(w)
  PROVE  worker' \in [Workers -> Pooled]
BY DEF LetGo, Typed, Pooled, At

(* What a worker or the render thread holds.                               *)
LEMMA WorkerTask ==
  ASSUME Typed, NEW w \in Workers
  PROVE  /\ worker[w].pc \in Returns => worker[w] # Idle /\ worker[w].task \in WaitTasks
         /\ worker[w].pc \in Registers => worker[w] # Idle /\ worker[w].task \in RegisterTasks
         /\ worker[w].pc = "teardown" => worker[w].task \in WaitTasks \cup RegisterTasks
         /\ worker[w].pc # "idle" => worker[w].task.image \in Images
BY DEF Typed, Pooled, Idle, Returns, Registers, WaitTasks, RegisterTasks

LEMMA ThreadTask ==
  ASSUME Typed
  PROVE  /\ rt.pc \in Returns => rt.task \in WaitTasks
         /\ rt.pc = "teardown" => rt.task \in DestroyCalls
         /\ rt.pc # "idle" => rt.task.image \in Images
BY DEF Typed, Threads, Idle, Returns, WaitTasks, DestroyCalls

LEMMA TypedStep == Typed /\ [Next]_vars => Typed'
<1> SUFFICES ASSUME Typed, [Next]_vars PROVE Typed' OBVIOUS
<1>1. ASSUME NEW i \in Images, NEW q \in Queues, Present(i, q) PROVE Typed'
  <2>1. guest' \in Guests /\ guest'.decoded <= Len(guest'.exports)
    <3> DEFINE E == {e \in Exported : ImageOf(e) = i}
    <3>1. IsFiniteSet(1 .. Len(guest.exports))
      <4>1. Len(guest.exports) \in Int BY DEF Typed, Guests
      <4> QED BY <4>1, FS_Interval
    <3>2. IsFiniteSet(E) BY <3>1, FS_Subset DEF Exported
    <3>3. Cardinality(E) \in Nat BY <3>2, FS_CardinalityType
    <3> HIDE DEF E
    <3>4. PresentCall(i, q, 1 + Cardinality(E)) \in PresentCalls
      BY <3>3 DEF PresentCall, PresentCalls
    <3> DEFINE c == PresentCall(i, q, 1 + Cardinality(E))
    <3>5. guest' = [guest EXCEPT !.stream = Append(@, c), !.exports = Append(@, i)]
      BY <1>1 DEF Present, E
    <3> HIDE DEF c
    <3>6. c \in PresentCalls BY <3>4 DEF c
    <3>7. guest.stream \in Seq(Calls) /\ guest.exports \in Seq(Images) BY DEF Typed, Guests
    <3>8. c \in Calls BY <3>6 DEF Calls
    <3>9. Append(guest.stream, c) \in Seq(Calls) BY <3>7, <3>8
    <3>10. /\ Append(guest.exports, i) \in Seq(Images)
           /\ Len(Append(guest.exports, i)) = Len(guest.exports) + 1
      BY <3>7
    <3>11. guest' \in Guests BY <3>5, <3>9, <3>10 DEF Typed, Guests
    <3>12. guest'.exports = Append(guest.exports, i) /\ guest'.decoded = guest.decoded
      BY <3>5 DEF Typed, Guests
    <3> QED BY <3>10, <3>11, <3>12, <3>7 DEF Typed, Guests
  <2> QED BY <1>1, <2>1 DEF Present, Typed
<1>2. ASSUME NEW i \in Images, DestroyImage(i) PROVE Typed'
  <2>1. guest' \in Guests /\ guest'.decoded <= Len(guest'.exports)
    <3>1. guest.stream \in Seq(Calls) BY DEF Typed, Guests
    <3>2. DestroyCall(i) \in Calls BY DEF DestroyCall, DestroyCalls, Calls
    <3>3. Append(guest.stream, DestroyCall(i)) \in Seq(Calls) BY <3>1, <3>2
    <3> DEFINE d == Append(guest.stream, DestroyCall(i))
               g == guest.gaveUp \cup {j \in {i} : Unready(j) # {}}
    <3>4. guest' = [guest EXCEPT !.stream = d, !.destroyed = @ \cup {i}, !.gaveUp = g]
      BY <1>2 DEF DestroyImage
    <3>5. g \in SUBSET Images BY DEF Typed, Guests
    <3>6. d \in Seq(Calls) BY <3>3
    <3> HIDE DEF d, g
    <3> QED BY <3>4, <3>5, <3>6 DEF Typed, Guests
  <2> QED BY <1>2, <2>1 DEF DestroyImage, Typed
<1>3. CASE syncImageToColorBuffer
  <2> DEFINE i == NextCall.image
             f == NextFence(pool[i])
             q == NextCall.queue
             t == WaitTask(i, NextCall.nth, f)
  <2>1. guest' \in Guests /\ guest'.decoded <= Len(guest'.exports) /\ NextCall \in PresentCalls
    BY <1>3, StreamTyped DEF syncImageToColorBuffer, Typed, Calls, DestroyCalls, Guests
  <2>2. i \in Images /\ q \in Queues BY <2>1 DEF PresentCalls
  <2>3. f \in Nat BY <2>2, NextFenceTyped DEF Typed
  <2>4. t \in WaitTasks BY <2>1, <2>2, <2>3 DEF WaitTask, WaitTasks, PresentCalls
  <2>5. pool' \in [Images -> Pools] /\ \A j \in Images : IsFiniteSet(pool'[j].used)
    BY <1>3, <2>2, GetTyped DEF syncImageToColorBuffer
  <2>6. gpu' = [gpu EXCEPT !.queue[q] = Append(@, t), !.signaled[i] = Reset(i, f),
                           !.used[i] = @ \cup {q}]
    BY <1>3 DEF syncImageToColorBuffer
  <2>7. tasks' \subseteq tasks \cup {t} /\ (rt' = rt \/ rt' = At("wait", t))
    BY <1>3 DEF syncImageToColorBuffer
  <2>8. UNCHANGED <<timeline, worker, called, late>>
    BY <1>3 DEF syncImageToColorBuffer
  <2> HIDE DEF f, t, q, i
  <2>g. /\ gpu.queue \in [Queues -> Seq(WaitTasks)] /\ gpu.signaled \in [Images -> SUBSET Nat]
        /\ gpu.used \in [Images -> SUBSET Queues]
    BY DEF Typed, Gpus
  <2>h. /\ [gpu.queue EXCEPT ![q] = Append(@, t)] \in [Queues -> Seq(WaitTasks)]
        /\ [gpu.signaled EXCEPT ![i] = Reset(i, f)] \in [Images -> SUBSET Nat]
        /\ [gpu.used EXCEPT ![i] = @ \cup {q}] \in [Images -> SUBSET Queues]
    BY <2>g, <2>2, <2>4 DEF Reset
  <2>k. gpu' = [gpu EXCEPT !.queue = [gpu.queue EXCEPT ![q] = Append(@, t)],
                           !.signaled = [gpu.signaled EXCEPT ![i] = Reset(i, f)],
                           !.used = [gpu.used EXCEPT ![i] = @ \cup {q}]]
    BY <2>6
  <2>9. gpu' \in Gpus BY <2>h, <2>k DEF Typed, Gpus
  <2>10. rt' \in Threads BY <2>4, <2>7 DEF Typed, Threads, At, Returns
  <2> QED BY <2>1, <2>4, <2>5, <2>7, <2>8, <2>9, <2>10 DEF Typed
<1>4. CASE destroyImageLocked
  <2>1. guest' \in Guests /\ guest'.decoded <= Len(guest'.exports) /\ NextCall \in DestroyCalls
    BY <1>4, StreamTyped DEF destroyImageLocked, Typed, Calls, PresentCalls, Guests
  <2>2. rt' \in Threads
    BY <1>4, <2>1 DEF destroyImageLocked, Threads, At, DestroyCall, DestroyCalls
  <2> QED BY <1>4, <2>1, <2>2 DEF destroyImageLocked, Typed
<1>5. CASE renderThreadWait
  <2>1. rt.task \in WaitTasks BY <1>5, ThreadTask DEF renderThreadWait, Returns
  <2>2. late' \in [Images -> SUBSET Nat] BY <1>5, <2>1, LateTyped DEF renderThreadWait
  <2>3. rt' \in Threads BY <1>5, <2>1 DEF renderThreadWait, Threads, At, Returns
  <2> QED BY <1>5, <2>2, <2>3 DEF renderThreadWait, Typed
<1>6. CASE renderThreadReturn
  <2>1. rt.task \in WaitTasks BY <1>6, ThreadTask DEF renderThreadReturn, Returns
  <2>2. pool' \in [Images -> Pools] /\ \A j \in Images : IsFiniteSet(pool'[j].used)
    BY <1>6, <2>1, ReturnTyped DEF renderThreadReturn, WaitTasks
  <2>3. rt' \in Threads BY <1>6, <2>1 DEF renderThreadReturn, Threads, At, Returns
  <2> QED BY <1>6, <2>2, <2>3 DEF renderThreadReturn, Typed
<1>7. CASE renderThreadSignal
  <2>1. rt.task.image \in Images BY <1>7, ThreadTask DEF renderThreadSignal
  <2>2. timeline' \in [Images -> Timelines] /\ called' \in [Exports -> Nat]
    BY <1>7, <2>1, SignalTyped DEF renderThreadSignal
  <2>3. rt' \in Threads BY <1>7 DEF renderThreadSignal, Threads
  <2> QED BY <1>7, <2>2, <2>3 DEF renderThreadSignal, Typed
<1>8. CASE renderThreadTeardown
  <2>1. rt.task.image \in Images BY <1>8, ThreadTask DEF renderThreadTeardown
  <2>2. timeline' \in [Images -> Timelines] /\ called' \in [Exports -> Nat]
    BY <1>8, <2>1, DestroyTyped DEF renderThreadTeardown
  <2>3. rt' \in Threads BY <1>8 DEF renderThreadTeardown, Threads
  <2> QED BY <1>8, <2>2, <2>3 DEF renderThreadTeardown, Typed
<1>9. CASE triggerWaitVkQsriWithCompletionCallback
  <2> DEFINE e == guest.decoded + 1
  <2>1. e \in 1 .. Len(guest.exports) /\ guest.exports \in Seq(Images)
    BY <1>9 DEF triggerWaitVkQsriWithCompletionCallback, Typed, Guests
  <2>2. RegisterTask(ImageOf(e), e) \in RegisterTasks
    BY <2>1 DEF RegisterTask, RegisterTasks, ImageOf
  <2>3. guest' \in Guests /\ guest'.decoded <= Len(guest'.exports)
    <3>1. guest' = [guest EXCEPT !.decoded = @ + 1] /\ guest.decoded < Len(guest.exports)
      BY <1>9 DEF triggerWaitVkQsriWithCompletionCallback
    <3>2. guest.decoded \in Nat /\ Len(guest.exports) \in Nat BY DEF Typed, Guests
    <3>3. guest'.decoded = guest.decoded + 1 /\ guest'.exports = guest.exports
      BY <3>1 DEF Typed, Guests
    <3> DEFINE n == guest.decoded + 1
    <3>4. n \in Nat /\ guest' = [guest EXCEPT !.decoded = n] BY <3>1, <3>2
    <3> HIDE DEF n
    <3>5. guest' \in Guests BY <3>4 DEF Typed, Guests
    <3> QED BY <3>1, <3>2, <3>3, <3>5
  <2>4. tasks' = tasks \cup {RegisterTask(ImageOf(e), e)}
    BY <1>9 DEF triggerWaitVkQsriWithCompletionCallback
  <2> QED BY <1>9, <2>2, <2>3, <2>4 DEF triggerWaitVkQsriWithCompletionCallback, Typed
<1>10. ASSUME NEW w \in Workers, NEW t \in tasks, doSyncThreadCmd(w, t) PROVE Typed'
  <2>1. t \in WaitTasks \cup RegisterTasks BY DEF Typed
  <2>2. At(IF t.op = "wait" THEN "wait" ELSE "lookup", t) \in Pooled
    BY <2>1 DEF At, Pooled, WaitTasks, RegisterTasks, Returns, Registers
  <2>3. worker' \in [Workers -> Pooled] BY <1>10, <2>2 DEF doSyncThreadCmd, Typed
  <2> QED BY <1>10, <2>3 DEF doSyncThreadCmd, Typed
<1>11. ASSUME NEW w \in Workers, registerUnknownImage(w) PROVE Typed'
  <2>1. called' \in [Exports -> Nat] BY <1>11, CallTyped DEF registerUnknownImage, Typed
  <2>2. worker' \in [Workers -> Pooled] BY <1>11 DEF registerUnknownImage, Typed, Pooled
  <2> QED BY <1>11, <2>1, <2>2 DEF registerUnknownImage, Typed
<1>12. ASSUME NEW w \in Workers, registerLookup(w) PROVE Typed'
  <2>1. worker' \in [Workers -> Pooled]
    BY <1>12 DEF registerLookup, Typed, Pooled, Idle, Registers, Returns
  <2> QED BY <1>12, <2>1 DEF registerLookup, Typed
<1>13. ASSUME NEW w \in Workers, registerQsriCallback(w) PROVE Typed'
  <2>1. worker[w] # Idle /\ worker[w].task \in RegisterTasks
    BY <1>13, WorkerTask DEF registerQsriCallback, Registers
  <2>2. timeline' \in [Images -> Timelines] /\ called' \in [Exports -> Nat]
    BY <1>13, <2>1, RegisterTyped DEF registerQsriCallback, RegisterTasks
  <2>3. worker' \in [Workers -> Pooled] BY <1>13, <2>1, LetGoTyped DEF registerQsriCallback
  <2> QED BY <1>13, <2>2, <2>3 DEF registerQsriCallback, Typed
<1>14. ASSUME NEW w \in Workers, waitForQsriFenceTask(w) PROVE Typed'
  <2>1. worker[w].task \in WaitTasks BY <1>14, WorkerTask DEF waitForQsriFenceTask, Returns
  <2>2. late' \in [Images -> SUBSET Nat] BY <1>14, <2>1, LateTyped DEF waitForQsriFenceTask
  <2>3. worker' \in [Workers -> Pooled]
    BY <1>14 DEF waitForQsriFenceTask, Typed, Pooled, Idle, Registers, Returns
  <2> QED BY <1>14, <2>2, <2>3 DEF waitForQsriFenceTask, Typed
<1>15. ASSUME NEW w \in Workers, workerReturn(w) PROVE Typed'
  <2>1. worker[w].task \in WaitTasks BY <1>15, WorkerTask DEF workerReturn, Returns
  <2>2. pool' \in [Images -> Pools] /\ \A j \in Images : IsFiniteSet(pool'[j].used)
    BY <1>15, <2>1, ReturnTyped DEF workerReturn, WaitTasks
  <2>3. worker' \in [Workers -> Pooled]
    BY <1>15 DEF workerReturn, Typed, Pooled, Idle, Registers, Returns
  <2> QED BY <1>15, <2>2, <2>3 DEF workerReturn, Typed
<1>16. ASSUME NEW w \in Workers, workerSignal(w) PROVE Typed'
  <2>1. worker[w] # Idle /\ worker[w].task.image \in Images
    BY <1>16, WorkerTask DEF workerSignal, Idle
  <2>2. timeline' \in [Images -> Timelines] /\ called' \in [Exports -> Nat]
    BY <1>16, <2>1, SignalTyped DEF workerSignal
  <2>3. worker' \in [Workers -> Pooled] BY <1>16, <2>1, LetGoTyped DEF workerSignal
  <2> QED BY <1>16, <2>2, <2>3 DEF workerSignal, Typed
<1>17. ASSUME NEW w \in Workers, workerTeardown(w) PROVE Typed'
  <2>1. worker[w].task.image \in Images BY <1>17, WorkerTask DEF workerTeardown
  <2>2. timeline' \in [Images -> Timelines] /\ called' \in [Exports -> Nat]
    BY <1>17, <2>1, DestroyTyped DEF workerTeardown
  <2>3. worker' \in [Workers -> Pooled] BY <1>17 DEF workerTeardown, Typed, Pooled
  <2> QED BY <1>17, <2>2, <2>3 DEF workerTeardown, Typed
<1>18. ASSUME NEW q \in Queues, Finish(q) PROVE Typed'
  <2> DEFINE s == Head(gpu.queue[q])
  <2>1. s \in WaitTasks BY <1>18 DEF Finish, Typed, Gpus
  <2>2. s.image \in Images /\ s.nth \in Nat /\ s.fence \in Nat BY <2>1 DEF WaitTasks
  <2>3. gpu' = [gpu EXCEPT !.queue[q] = Tail(@), !.finished[s.image] = @ \cup {s.nth},
                           !.signaled[s.image] = @ \cup {s.fence}]
    BY <1>18 DEF Finish
  <2>4. gpu.queue[q] # <<>> BY <1>18 DEF Finish
  <2> HIDE DEF s
  <2>g. /\ gpu.queue \in [Queues -> Seq(WaitTasks)] /\ gpu.signaled \in [Images -> SUBSET Nat]
        /\ gpu.finished \in [Images -> SUBSET Nat]
    BY DEF Typed, Gpus
  <2>h. /\ [gpu.queue EXCEPT ![q] = Tail(@)] \in [Queues -> Seq(WaitTasks)]
        /\ [gpu.signaled EXCEPT ![s.image] = @ \cup {s.fence}] \in [Images -> SUBSET Nat]
        /\ [gpu.finished EXCEPT ![s.image] = @ \cup {s.nth}] \in [Images -> SUBSET Nat]
    BY <2>g, <2>2, <2>4
  <2>k. gpu' = [gpu EXCEPT !.queue = [gpu.queue EXCEPT ![q] = Tail(@)],
                           !.finished = [gpu.finished EXCEPT ![s.image] = @ \cup {s.nth}],
                           !.signaled = [gpu.signaled EXCEPT ![s.image] = @ \cup {s.fence}]]
    BY <2>3
  <2>5. gpu' \in Gpus BY <2>h, <2>k DEF Typed, Gpus
  <2> QED BY <1>18, <2>5 DEF Finish, Typed
<1>19. CASE UNCHANGED vars BY <1>19 DEF vars, Typed
<1> QED
  BY <1>1, <1>2, <1>3, <1>4, <1>5, <1>6, <1>7, <1>8, <1>9, <1>10, <1>11, <1>12,
     <1>13, <1>14, <1>15, <1>16, <1>17, <1>18, <1>19
  DEF Next, RenderThread, Worker

-----------------------------------------------------------------------------
(***************************************************************************)
(* An export stays in one place until it is called back.                   *)
(***************************************************************************)

(* Nothing enters a place, and what is called leaves its own.              *)
LEMMA ExportLeaves ==
  ASSUME Typed, NEW e \in Nat, ExportInv(e),
         \A t : InTasks(t, e)' => InTasks(t, e),
         \A w \in Workers : AtWorker(w, e)' => AtWorker(w, e),
         \A i \in Images : \A r : Pending(i, r, e)' => Pending(i, r, e),
         guest'.decoded = guest.decoded,
         e \in Exports => \/ called'[e] = called[e]
                          \/ Waiting(e) /\ ~Waiting(e)' /\ called'[e] = called[e] + 1
  PROVE  ExportInv(e)'
<1>1. InOnePlace(e)' BY DEF ExportInv, InOnePlace, InTasks, AtWorker, Pending
<1>2. Waiting(e)' => Waiting(e) BY DEF Waiting, InTasks, AtWorker, Pending
<1>3. e \in Exports => called[e] \in Nat BY DEF Typed
<1> HIDE DEF Waiting, InOnePlace, Typed
<1>4. Waiting(e)' => e <= guest'.decoded /\ (e \in Exports => called'[e] = 0)
  BY <1>2, <1>3 DEF ExportInv
<1>5. e \in Exports => called'[e] <= 1 /\ (e > guest'.decoded => called'[e] = 0)
  <2> SUFFICES ASSUME e \in Exports PROVE called'[e] <= 1 /\ (e > guest'.decoded => called'[e] = 0)
    OBVIOUS
  <2>1. guest.decoded \in Nat BY DEF Typed, Guests
  <2>2. CASE called'[e] = called[e] BY <2>2 DEF ExportInv
  <2>3. CASE Waiting(e) /\ called'[e] = called[e] + 1
    BY <2>1, <2>3, <1>3 DEF ExportInv
  <2> QED BY <2>2, <2>3
<1> QED BY <1>1, <1>4, <1>5 DEF ExportInv

LEMMA ExportsFrame ==
  ASSUME Typed, ExportsInv, guest'.decoded = guest.decoded,
         UNCHANGED <<tasks, worker, timeline, called>>
  PROVE  ExportsInv'
<1> SUFFICES ASSUME NEW e \in Nat PROVE ExportInv(e)' BY DEF ExportsInv
<1>1. ExportInv(e) BY DEF ExportsInv
<1>2. /\ \A t : InTasks(t, e)' => InTasks(t, e)
      /\ \A w \in Workers : AtWorker(w, e)' => AtWorker(w, e)
      /\ \A i \in Images : \A r : Pending(i, r, e)' => Pending(i, r, e)
  BY DEF InTasks, AtWorker, Pending
<1> QED BY <1>1, <1>2, ExportLeaves

LEMMA CallEffect ==
  ASSUME Typed, NEW S, Call(S), NEW e \in Exports
  PROVE  /\ e \in S => called'[e] = called[e] + 1
         /\ e \notin S => called'[e] = called[e]
BY DEF Call

(* The timeline calls back what it forgets.                                *)
LEMMA PollEffect ==
  ASSUME Typed, NEW i \in Images, NEW tl \in Timelines, PollLocked(i, tl)
  PROVE  /\ timeline'[i].pending = tl.pending \ Ready(tl)
         /\ \A j \in Images \ {i} : timeline'[j] = timeline[j]
         /\ Call({r.export : r \in Ready(tl)})
         /\ Ready(tl) \subseteq tl.pending
BY DEF Typed, PollLocked, Polled, Ready, Timelines

LEMMA ForgetsAndCalls ==
  ASSUME Typed, ExportsInv, NEW i \in Images, NEW S,
         S \subseteq timeline[i].pending,
         timeline'[i].pending = timeline[i].pending \ S,
         \A j \in Images \ {i} : timeline'[j] = timeline[j],
         Call({r.export : r \in S}),
         guest'.decoded = guest.decoded, tasks' = tasks,
         \A e \in Nat : \A w \in Workers : AtWorker(w, e)' => AtWorker(w, e)
  PROVE  ExportsInv'
<1> SUFFICES ASSUME NEW e \in Nat PROVE ExportInv(e)' BY DEF ExportsInv
<1>1. ExportInv(e) BY DEF ExportsInv
<1>2. /\ \A t : InTasks(t, e)' => InTasks(t, e)
      /\ \A w \in Workers : AtWorker(w, e)' => AtWorker(w, e)
      /\ \A j \in Images : \A r : Pending(j, r, e)' => Pending(j, r, e)
  BY DEF InTasks, Pending
<1>3. ASSUME e \in Exports
      PROVE  \/ called'[e] = called[e]
             \/ Waiting(e) /\ ~Waiting(e)' /\ called'[e] = called[e] + 1
  <2>1. CASE e \notin {r.export : r \in S} BY <1>3, <2>1, CallEffect
  <2>2. CASE e \in {r.export : r \in S}
    <3>1. PICK r \in S : r.export = e BY <2>2
    <3>2. Pending(i, r, e) BY <3>1 DEF Pending
    <3>3. Waiting(e) BY <3>2 DEF Waiting, Pending
    <3>4. ~Waiting(e)'
      <4>1. \A t \in tasks' : ~InTasks(t, e)'
        BY <1>1, <1>2, <3>2 DEF ExportInv, InOnePlace, Pending, InTasks
      <4>2. \A w \in Workers : ~AtWorker(w, e)'
        BY <1>1, <1>2, <3>2 DEF ExportInv, InOnePlace, Pending
      <4>3. \A j \in Images : \A s \in timeline'[j].pending : ~Pending(j, s, e)'
        BY <1>1, <3>1, <3>2 DEF ExportInv, InOnePlace, Pending
      <4> QED BY <4>1, <4>2, <4>3 DEF Waiting
    <3>5. called'[e] = called[e] + 1 BY <1>3, <2>2, CallEffect
    <3> QED BY <3>3, <3>4, <3>5
  <2> QED BY <2>1, <2>2
<1> QED BY <1>1, <1>2, <1>3, ExportLeaves

LEMMA SignalExports ==
  ASSUME Typed, ExportsInv, NEW i \in Images, signalNextPresentAndPoll(i),
         guest'.decoded = guest.decoded, tasks' = tasks,
         \A e \in Nat : \A w \in Workers : AtWorker(w, e)' => AtWorker(w, e)
  PROVE  ExportsInv'
<1> DEFINE tl == timeline[i]  u == [tl EXCEPT !.presents = @ + 1]
<1>1. tl \in Timelines BY DEF Typed
<1>2. PollLocked(i, u) BY DEF signalNextPresentAndPoll
<1> HIDE DEF tl
<1>3. u \in Timelines /\ u.pending = tl.pending BY <1>1 DEF Timelines
<1> HIDE DEF u
<1>4. /\ timeline'[i].pending = tl.pending \ Ready(u)
      /\ \A j \in Images \ {i} : timeline'[j] = timeline[j]
      /\ Call({r.export : r \in Ready(u)})
      /\ Ready(u) \subseteq tl.pending
  BY <1>2, <1>3, PollEffect
<1> QED BY <1>4, ForgetsAndCalls DEF tl

LEMMA DestroyExports ==
  ASSUME Typed, ExportsInv, NEW i \in Images, destroyTimeline(i),
         guest'.decoded = guest.decoded, tasks' = tasks,
         \A e \in Nat : \A w \in Workers : AtWorker(w, e)' => AtWorker(w, e)
  PROVE  ExportsInv'
<1> DEFINE S == timeline[i].pending
<1>1. /\ timeline'[i].pending = S \ S
      /\ \A j \in Images \ {i} : timeline'[j] = timeline[j]
      /\ Call({r.export : r \in S})
  BY DEF destroyTimeline, Typed, Timelines
<1> QED BY <1>1, ForgetsAndCalls

(* A worker that does not begin a request does not come to hold one.       *)
LEMMA LetGoEffect ==
  ASSUME Typed, NEW w \in Workers, LetGo(w), NEW e \in Nat
  PROVE  /\ ~AtWorker(w, e)'
         /\ \A v \in Workers \ {w} : AtWorker(v, e)' <=> AtWorker(v, e)
BY DEF Typed, LetGo, AtWorker, At, Idle, Registers

LEMMA StepsExports ==
  ASSUME Typed, ExportsInv, NEW w \in Workers, NEW pc \in Returns,
         worker[w].pc \in Returns, worker' = [worker EXCEPT ![w].pc = pc],
         guest' = guest, UNCHANGED <<tasks, timeline, called>>
  PROVE  ExportsInv'
<1> SUFFICES ASSUME NEW e \in Nat PROVE ExportInv(e)' BY DEF ExportsInv
<1>1. ExportInv(e) BY DEF ExportsInv
<1>2. worker[w] # Idle /\ worker[w] \in [pc : Returns, task : WaitTasks]
  BY DEF Typed, Pooled, Returns, Registers, Idle
<1>3. worker'[w].pc = pc /\ \A v \in Workers \ {w} : worker'[v] = worker[v]
  BY <1>2 DEF Typed
<1>4. /\ \A t : InTasks(t, e)' => InTasks(t, e)
      /\ \A v \in Workers : AtWorker(v, e)' => AtWorker(v, e)
      /\ \A i \in Images : \A r : Pending(i, r, e)' => Pending(i, r, e)
  BY <1>3 DEF InTasks, AtWorker, Pending, Returns, Registers
<1> QED BY <1>1, <1>4, ExportLeaves

LEMMA TriggerExports ==
  ASSUME Typed, ExportsInv, triggerWaitVkQsriWithCompletionCallback
  PROVE  ExportsInv'
<1> SUFFICES ASSUME NEW e \in Nat PROVE ExportInv(e)' BY DEF ExportsInv
<1> DEFINE k == guest.decoded + 1  t == RegisterTask(ImageOf(k), k)
<1>1. ExportInv(e) BY DEF ExportsInv
<1>2. tasks' = tasks \cup {t} /\ UNCHANGED <<timeline, worker, called>>
  BY DEF triggerWaitVkQsriWithCompletionCallback
<1>3. guest.decoded \in Nat /\ guest'.decoded = k
  BY DEF triggerWaitVkQsriWithCompletionCallback, Typed, Guests
<1>4. t.op = "register" /\ t.export = k BY DEF RegisterTask
<1>5. \A u : InTasks(u, e)' <=> InTasks(u, e) \/ (u = t /\ e = k)
  BY <1>2, <1>4 DEF InTasks
<1>6. /\ \A w \in Workers : AtWorker(w, e)' <=> AtWorker(w, e)
      /\ \A i \in Images : \A r : Pending(i, r, e)' <=> Pending(i, r, e)
  BY <1>2 DEF AtWorker, Pending
<1> HIDE DEF t
<1>7. e = k => ~Waiting(e) BY <1>1, <1>3 DEF ExportInv
<1>8. InOnePlace(e)'
  <2>1. CASE e # k
    <3>1. \A u : InTasks(u, e)' <=> InTasks(u, e) BY <2>1, <1>5
    <3>2. \A u : InTasks(u, e) => u \in tasks BY DEF InTasks
    <3>3. InOnePlace(e) BY <1>1 DEF ExportInv
    <3> QED BY <3>1, <3>2, <3>3, <1>2, <1>6 DEF InOnePlace
  <2>2. CASE e = k
    <3>1. /\ \A u \in tasks : ~InTasks(u, e)
          /\ \A w \in Workers : ~AtWorker(w, e)
          /\ \A i \in Images : \A r \in timeline[i].pending : ~Pending(i, r, e)
      BY <2>2, <1>7 DEF Waiting
    <3>2. \A u : InTasks(u, e)' => u = t BY <3>1, <1>5 DEF InTasks
    <3> QED BY <3>1, <3>2, <1>6, <1>2 DEF InOnePlace
  <2> QED BY <2>1, <2>2
<1>9. Waiting(e)' => Waiting(e) \/ e = k BY <1>2, <1>5, <1>6 DEF Waiting, InTasks
<1> HIDE DEF Waiting, InOnePlace
<1>10. e \in Exports => called'[e] = called[e] BY <1>2
<1> QED BY <1>1, <1>3, <1>8, <1>9, <1>10 DEF ExportInv

LEMMA BeginExports ==
  ASSUME Typed, ExportsInv, NEW w \in Workers, NEW t \in tasks, doSyncThreadCmd(w, t)
  PROVE  ExportsInv'
<1> SUFFICES ASSUME NEW e \in Nat PROVE ExportInv(e)' BY DEF ExportsInv
<1>1. ExportInv(e) BY DEF ExportsInv
<1>2. tasks' = tasks \ {t} /\ UNCHANGED <<guest, timeline, called>> /\ worker[w] = Idle
  BY DEF doSyncThreadCmd
<1>3. /\ worker'[w] = At(IF t.op = "wait" THEN "wait" ELSE "lookup", t)
      /\ \A v \in Workers \ {w} : worker'[v] = worker[v]
  BY DEF doSyncThreadCmd, Typed
<1>4. t.op \in {"wait", "register"} BY DEF Typed, WaitTasks, RegisterTasks
<1>5. \A u : InTasks(u, e)' <=> InTasks(u, e) /\ u # t BY <1>2 DEF InTasks
<1>6. ~AtWorker(w, e) BY <1>2 DEF AtWorker, Idle, Registers
<1>7. AtWorker(w, e)' <=> InTasks(t, e)
  BY <1>3, <1>4 DEF AtWorker, InTasks, At, Registers
<1>8. /\ \A v \in Workers \ {w} : AtWorker(v, e)' <=> AtWorker(v, e)
      /\ \A i \in Images : \A r : Pending(i, r, e)' <=> Pending(i, r, e)
  BY <1>2, <1>3 DEF AtWorker, Pending
<1>9. CASE ~InTasks(t, e) BY <1>1, <1>2, <1>5, <1>7, <1>8, <1>9, <1>6, ExportLeaves
<1>10. CASE InTasks(t, e)
  <2>1. /\ \A u \in tasks' : ~InTasks(u, e)'
        /\ \A v \in Workers \ {w} : ~AtWorker(v, e)'
        /\ \A i \in Images : \A r \in timeline'[i].pending : ~Pending(i, r, e)'
    BY <1>1, <1>2, <1>5, <1>8, <1>10 DEF ExportInv, InOnePlace
  <2>2. InOnePlace(e)' BY <2>1 DEF InOnePlace
  <2>3. Waiting(e) BY <1>10 DEF Waiting
  <2> HIDE DEF Waiting, InOnePlace
  <2> QED BY <1>1, <1>2, <2>2, <2>3 DEF ExportInv
<1> QED BY <1>9, <1>10

LEMMA RegisterExports ==
  ASSUME Typed, ExportsInv, NEW w \in Workers, registerQsriCallback(w)
  PROVE  ExportsInv'
<1> SUFFICES ASSUME NEW e \in Nat PROVE ExportInv(e)' BY DEF ExportsInv
<1>1. ExportInv(e) BY DEF ExportsInv
<1> DEFINE x == worker[w].task.export  i == worker[w].task.image
           n == [count |-> timeline[i].requests, export |-> x]
           tl == timeline[i]
           u == [tl EXCEPT !.requests = @ + 1, !.pending = @ \cup {n}]
<1>2. i \in Images /\ x \in Nat
  BY WorkerTask DEF registerQsriCallback, Registers, RegisterTasks
<1>3. PollLocked(i, u) BY DEF registerQsriCallback, registerCallbackForNextPresentAndPoll
<1>4. tl \in Timelines BY <1>2 DEF Typed
<1>5. n \in [count : Nat, export : Nat] /\ n.export = x BY <1>2, <1>4 DEF Timelines
<1>6. AtWorker(w, x) BY DEF registerQsriCallback, AtWorker, Registers
<1>7. UNCHANGED <<guest, tasks>> /\ LetGo(w) BY DEF registerQsriCallback
<1> HIDE DEF x, i, n, tl
<1>8. u \in Timelines /\ u.pending = tl.pending \cup {n}
  <2> DEFINE p == tl.pending \cup {n}  k == tl.requests + 1
  <2>1. p \in SUBSET [count : Nat, export : Nat] /\ k \in Nat BY <1>4, <1>5 DEF Timelines
  <2> HIDE DEF p, k
  <2>2. [tl EXCEPT !.requests = k, !.pending = p] \in Timelines
    BY <1>4, <2>1 DEF Timelines
  <2>3. u = [tl EXCEPT !.requests = k, !.pending = p] BY DEF p, k
  <2> QED BY <1>4, <2>2, <2>3 DEF p, Timelines
<1> HIDE DEF u
<1>9. /\ timeline'[i].pending = (tl.pending \cup {n}) \ Ready(u)
      /\ \A j \in Images \ {i} : timeline'[j] = timeline[j]
      /\ Call({r.export : r \in Ready(u)})
      /\ Ready(u) \subseteq tl.pending \cup {n}
  BY <1>2, <1>3, <1>8, PollEffect
<1>10. /\ \A t : InTasks(t, e)' <=> InTasks(t, e)
       /\ ~AtWorker(w, e)'
       /\ \A v \in Workers : AtWorker(v, e)' => AtWorker(v, e)
  BY <1>7, LetGoEffect DEF InTasks
<1>11. \A j \in Images : \A r : Pending(j, r, e)' =>
         \/ Pending(j, r, e)
         \/ j = i /\ r = n /\ e = x
  BY <1>5, <1>9 DEF Pending, tl
<1>12. CASE e = x
  <2>1. AtWorker(w, e) BY <1>6, <1>12
  <2>2. Waiting(e) BY <2>1 DEF Waiting
  <2>3. /\ \A t \in tasks : ~InTasks(t, e)
        /\ \A v \in Workers : AtWorker(v, e) => v = w
        /\ \A j \in Images : \A r \in timeline[j].pending : ~Pending(j, r, e)
    BY <1>1, <2>1 DEF ExportInv, InOnePlace
  <2>4. /\ \A t : ~InTasks(t, e)'
        /\ \A v \in Workers : ~AtWorker(v, e)'
        /\ \A j \in Images : \A r : Pending(j, r, e)' => j = i /\ r = n
    BY <2>3, <1>10, <1>11 DEF Pending, InTasks
  <2>5. InOnePlace(e)' BY <2>4 DEF InOnePlace
  <2>6. n \in Ready(u) => ~Waiting(e)'
    BY <2>4, <1>2, <1>9 DEF Waiting, Pending
  <2>7. e \in {r.export : r \in Ready(u)} => n \in Ready(u)
    BY <2>3, <1>2, <1>9 DEF Pending, tl
  <2>8. e \in Exports => \/ called'[e] = called[e]
                         \/ ~Waiting(e)' /\ called'[e] = called[e] + 1
    BY <1>9, <2>6, <2>7, CallEffect
  <2>9. e <= guest.decoded /\ guest.decoded \in Nat /\ (e \in Exports => called[e] = 0)
    BY <1>1, <2>2 DEF ExportInv, Typed, Guests
  <2> HIDE DEF Waiting, InOnePlace
  <2> QED BY <1>7, <2>5, <2>8, <2>9 DEF ExportInv
<1>13. CASE e # x
  <2>1. \A j \in Images : \A r : Pending(j, r, e)' => Pending(j, r, e) BY <1>11, <1>13
  <2>2. ASSUME e \in Exports
        PROVE  \/ called'[e] = called[e]
               \/ Waiting(e) /\ ~Waiting(e)' /\ called'[e] = called[e] + 1
    <3>1. CASE e \notin {r.export : r \in Ready(u)} BY <1>9, <2>2, <3>1, CallEffect
    <3>2. CASE e \in {r.export : r \in Ready(u)}
      <4>1. PICK r \in Ready(u) : r.export = e BY <3>2
      <4>2. Pending(i, r, e) BY <4>1, <1>5, <1>9, <1>13 DEF Pending, tl
      <4>3. Waiting(e) BY <4>2, <1>2 DEF Waiting, Pending
      <4>4. /\ \A t \in tasks' : ~InTasks(t, e)'
            /\ \A v \in Workers : ~AtWorker(v, e)'
        BY <1>1, <1>2, <1>10, <4>2 DEF ExportInv, InOnePlace, InTasks, Pending
      <4>5. \A j \in Images : \A s : ~Pending(j, s, e)'
        BY <1>1, <1>2, <1>9, <2>1, <4>1, <4>2 DEF ExportInv, InOnePlace, Pending
      <4>6. ~Waiting(e)' BY <4>4, <4>5 DEF Waiting
      <4>7. called'[e] = called[e] + 1 BY <1>9, <2>2, <3>2, CallEffect
      <4> QED BY <4>3, <4>6, <4>7
    <3> QED BY <3>1, <3>2
  <2> QED BY <1>1, <1>7, <1>10, <2>1, <2>2, ExportLeaves
<1> QED BY <1>12, <1>13

LEMMA UnknownExports ==
  ASSUME Typed, ExportsInv, NEW w \in Workers, registerUnknownImage(w)
  PROVE  ExportsInv'
<1> SUFFICES ASSUME NEW e \in Nat PROVE ExportInv(e)' BY DEF ExportsInv
<1>1. ExportInv(e) BY DEF ExportsInv
<1> DEFINE x == worker[w].task.export
<1>2. AtWorker(w, x) BY DEF registerUnknownImage, AtWorker, Registers
<1>3. Call({x}) /\ UNCHANGED <<guest, tasks, timeline>> BY DEF registerUnknownImage, CallbackOf
<1>4. ~AtWorker(w, e)' /\ \A v \in Workers \ {w} : AtWorker(v, e)' <=> AtWorker(v, e)
  BY DEF registerUnknownImage, AtWorker, Idle, Registers, Typed
<1>5. /\ \A t : InTasks(t, e)' <=> InTasks(t, e)
      /\ \A i \in Images : \A r : Pending(i, r, e)' <=> Pending(i, r, e)
  BY <1>3 DEF InTasks, Pending
<1> HIDE DEF x
<1>6. ASSUME e \in Exports
      PROVE  \/ called'[e] = called[e]
             \/ Waiting(e) /\ ~Waiting(e)' /\ called'[e] = called[e] + 1
  <2>1. CASE e # x BY <1>3, <1>6, <2>1, CallEffect
  <2>2. CASE e = x
    <3>1. Waiting(e) BY <1>2, <2>2 DEF Waiting
    <3>2. ~Waiting(e)' BY <1>1, <1>2, <1>3, <1>4, <1>5, <2>2 DEF ExportInv, InOnePlace, Waiting
    <3>3. called'[e] = called[e] + 1 BY <1>3, <1>6, <2>2, CallEffect
    <3> QED BY <3>1, <3>2, <3>3
  <2> QED BY <2>1, <2>2
<1> QED BY <1>1, <1>3, <1>4, <1>5, <1>6, ExportLeaves

LEMMA LookupExports ==
  ASSUME Typed, ExportsInv, NEW w \in Workers, registerLookup(w)
  PROVE  ExportsInv'
<1> SUFFICES ASSUME NEW e \in Nat PROVE ExportInv(e)' BY DEF ExportsInv
<1>1. ExportInv(e) BY DEF ExportsInv
<1>2. worker[w].pc = "lookup" /\ worker[w] \in [pc : Registers, task : RegisterTasks]
  BY DEF registerLookup, Typed, Pooled, Returns, Registers, Idle
<1>3. worker' = [worker EXCEPT ![w].pc = "register"] /\ UNCHANGED <<guest, tasks, timeline, called>>
  BY DEF registerLookup
<1>4. worker'[w].task = worker[w].task /\ \A v \in Workers \ {w} : worker'[v] = worker[v]
  BY <1>2, <1>3 DEF Typed
<1>5. /\ \A t : InTasks(t, e)' => InTasks(t, e)
      /\ \A v \in Workers : AtWorker(v, e)' => AtWorker(v, e)
      /\ \A i \in Images : \A r : Pending(i, r, e)' => Pending(i, r, e)
  BY <1>2, <1>3, <1>4 DEF InTasks, AtWorker, Pending, Registers
<1> QED BY <1>1, <1>3, <1>5, ExportLeaves

LEMMA SubmitExports ==
  ASSUME Typed, ExportsInv, syncImageToColorBuffer
  PROVE  ExportsInv'
<1> SUFFICES ASSUME NEW e \in Nat PROVE ExportInv(e)' BY DEF ExportsInv
<1>1. ExportInv(e) BY DEF ExportsInv
<1>2. \A t \in tasks' \ tasks : t.op = "wait"
  BY DEF syncImageToColorBuffer, WaitTask
<1>3. guest'.decoded = guest.decoded /\ UNCHANGED <<timeline, worker, called>>
  BY DEF syncImageToColorBuffer, Typed, Guests
<1>4. /\ \A t : InTasks(t, e)' => InTasks(t, e)
      /\ \A v \in Workers : AtWorker(v, e)' => AtWorker(v, e)
      /\ \A i \in Images : \A r : Pending(i, r, e)' => Pending(i, r, e)
  BY <1>2, <1>3 DEF InTasks, AtWorker, Pending
<1> QED BY <1>1, <1>3, <1>4, ExportLeaves

LEMMA ExportsStep == Typed /\ ExportsInv /\ [Next]_vars => ExportsInv'
<1> SUFFICES ASSUME Typed, ExportsInv, [Next]_vars PROVE ExportsInv' OBVIOUS
<1>1. ASSUME NEW i \in Images, NEW q \in Queues, Present(i, q) PROVE ExportsInv'
  BY <1>1, ExportsFrame DEF Present, Typed, Guests
<1>2. ASSUME NEW i \in Images, DestroyImage(i) PROVE ExportsInv'
  BY <1>2, ExportsFrame DEF DestroyImage, Typed, Guests
<1>3. CASE syncImageToColorBuffer BY <1>3, SubmitExports
<1>4. CASE destroyImageLocked
  BY <1>4, ExportsFrame DEF destroyImageLocked, Typed, Guests
<1>5. CASE renderThreadWait BY <1>5, ExportsFrame DEF renderThreadWait
<1>6. CASE renderThreadReturn BY <1>6, ExportsFrame DEF renderThreadReturn
<1>7. CASE renderThreadSignal
  <2>1. \A e \in Nat : \A w \in Workers : AtWorker(w, e)' => AtWorker(w, e)
    BY <1>7 DEF renderThreadSignal, AtWorker
  <2> QED BY <1>7, <2>1, SignalExports, ThreadTask DEF renderThreadSignal
<1>8. CASE renderThreadTeardown
  <2>1. \A e \in Nat : \A w \in Workers : AtWorker(w, e)' => AtWorker(w, e)
    BY <1>8 DEF renderThreadTeardown, AtWorker
  <2> QED BY <1>8, <2>1, DestroyExports, ThreadTask DEF renderThreadTeardown
<1>9. CASE triggerWaitVkQsriWithCompletionCallback BY <1>9, TriggerExports
<1>10. ASSUME NEW w \in Workers, NEW t \in tasks, doSyncThreadCmd(w, t) PROVE ExportsInv'
  BY <1>10, BeginExports
<1>11. ASSUME NEW w \in Workers, registerUnknownImage(w) PROVE ExportsInv'
  BY <1>11, UnknownExports
<1>12. ASSUME NEW w \in Workers, registerLookup(w) PROVE ExportsInv'
  BY <1>12, LookupExports
<1>13. ASSUME NEW w \in Workers, registerQsriCallback(w) PROVE ExportsInv'
  BY <1>13, RegisterExports
<1>14. ASSUME NEW w \in Workers, waitForQsriFenceTask(w) PROVE ExportsInv'
  BY <1>14, StepsExports DEF waitForQsriFenceTask, Returns
<1>15. ASSUME NEW w \in Workers, workerReturn(w) PROVE ExportsInv'
  BY <1>15, StepsExports DEF workerReturn, Returns
<1>16. ASSUME NEW w \in Workers, workerSignal(w) PROVE ExportsInv'
  <2>1. \A e \in Nat : \A v \in Workers : AtWorker(v, e)' => AtWorker(v, e)
    BY <1>16, LetGoEffect DEF workerSignal
  <2> QED BY <1>16, <2>1, SignalExports, WorkerTask DEF workerSignal
<1>17. ASSUME NEW w \in Workers, workerTeardown(w) PROVE ExportsInv'
  <2>1. \A e \in Nat : \A v \in Workers : AtWorker(v, e)' => AtWorker(v, e)
    BY <1>17 DEF workerTeardown, AtWorker, Idle, Registers, Typed
  <2> QED BY <1>17, <2>1, DestroyExports, WorkerTask DEF workerTeardown
<1>18. ASSUME NEW q \in Queues, Finish(q) PROVE ExportsInv'
  BY <1>18, ExportsFrame DEF Finish
<1>19. CASE UNCHANGED vars BY <1>19, ExportsFrame DEF vars
<1> QED
  BY <1>1, <1>2, <1>3, <1>4, <1>5, <1>6, <1>7, <1>8, <1>9, <1>10, <1>11, <1>12,
     <1>13, <1>14, <1>15, <1>16, <1>17, <1>18, <1>19
  DEF Next, RenderThread, Worker

-----------------------------------------------------------------------------
(***************************************************************************)
(* The pool as a numbered set of fences.                                   *)
(***************************************************************************)
LEMMA LastFront ==
  ASSUME NEW S, NEW s \in Seq(S), s # <<>>
  PROVE  /\ Len(s) \in Nat /\ Len(s) > 0 /\ Last(s) = s[Len(s)] /\ Last(s) \in S
         /\ Front(s) \in Seq(S) /\ Len(Front(s)) = Len(s) - 1
         /\ \A k \in 1 .. Len(s) - 1 : Front(s)[k] = s[k]
<1>1. Len(s) \in Nat /\ Len(s) > 0 OBVIOUS
<1>2. Len(s) \in 1 .. Len(s) /\ s[Len(s)] \in S BY <1>1, ElementOfSeq
<1>3. Front(s) \in Seq(S) /\ Len(Front(s)) = Len(s) - 1
  <2>1. \A k \in 1 .. Len(s) - 1 : s[k] \in S BY <1>1, ElementOfSeq
  <2>2. 1 \in Int /\ Len(s) - 1 \in Int BY <1>1
  <2>3. /\ SubSeq(s, 1, Len(s) - 1) \in Seq(S)
        /\ Len(SubSeq(s, 1, Len(s) - 1)) =
             IF 1 <= Len(s) - 1 THEN (Len(s) - 1) - 1 + 1 ELSE 0
    BY <2>1, <2>2, SubSeqProperties
  <2>4. (IF 1 <= Len(s) - 1 THEN (Len(s) - 1) - 1 + 1 ELSE 0) = Len(s) - 1
    <3> DEFINE n == Len(s)
    <3>1. n \in Nat /\ n > 0 BY <1>1
    <3> HIDE DEF n
    <3>2. (IF 1 <= n - 1 THEN (n - 1) - 1 + 1 ELSE 0) = n - 1
      <4>1. CASE n = 1 BY <4>1
      <4>2. CASE n > 1 BY <3>1, <4>2
      <4> QED BY <3>1, <4>1, <4>2
    <3> QED BY <3>2 DEF n
  <2> DEFINE r == SubSeq(s, 1, Len(s) - 1)
  <2>5. r \in Seq(S) /\ Len(r) = Len(s) - 1 BY <2>3, <2>4
  <2>6. Front(s) = r BY DEF Front
  <2> HIDE DEF r
  <2> QED BY <2>5, <2>6
<1>4. \A k \in 1 .. Len(s) - 1 : Front(s)[k] = s[k] BY <1>1 DEF Front
<1> QED BY <1>1, <1>2, <1>3, <1>4 DEF Last

LEMMA GetNumbered ==
  ASSUME NEW p \in Pools, IsFiniteSet(p.used), NumberedPool(p), NEW q,
         q = [available |-> WithoutNext(p), used |-> p.used \cup {NextFence(p)}]
  PROVE  /\ NextFence(p) \in Nat /\ NextFence(p) \notin p.used
         /\ NextFence(p) \notin ToSet(q.available)
         /\ ToSet(q.available) \subseteq ToSet(p.available)
         /\ NumberedPool(q)
<1> DEFINE f == NextFence(p)  a == p.available  b == q.available
<1>1. a \in Seq(Nat) /\ p.used \in SUBSET Nat BY DEF Pools
<1>2. Cardinality(p.used) \in Nat /\ Created(p) \in Nat /\ f \in Nat /\ b \in Seq(Nat)
  BY NextFenceTyped
<1>3. Created(p) = Cardinality(p.used) + Len(a) BY DEF Created
<1>4. CASE a = <<>>
  <2>1. f = Created(p) + 1 /\ b = <<>> BY <1>4 DEF NextFence, WithoutNext
  <2>2. f \notin p.used BY <1>1, <1>2, <2>1 DEF NumberedPool
  <2>3. Cardinality(p.used \cup {f}) = Cardinality(p.used) + 1 BY <2>2, FS_AddElement
  <2>4. Created(q) = Created(p) + 1 BY <1>2, <1>3, <1>4, <2>1, <2>3 DEF Created
  <2>5. ToSet(b) = {} BY <2>1 DEF ToSet
  <2>6. IsInjective(b) BY <2>1 DEF IsInjective
  <2>7. \A g \in ToSet(b) \cup q.used : g <= Created(q)
    <3>1. \A g \in p.used : g \in Nat /\ g <= Created(p) BY <1>1 DEF NumberedPool
    <3>2. q.used = p.used \cup {f} OBVIOUS
    <3> HIDE DEF f, b
    <3> QED BY <3>1, <3>2, <1>2, <2>1, <2>4, <2>5
  <2>8. NumberedPool(q) BY <2>5, <2>6, <2>7 DEF NumberedPool
  <2> QED BY <1>2, <2>2, <2>5, <2>8
<1>5. CASE a # <<>>
  <2>1. f = Last(a) /\ b = Front(a) BY <1>5 DEF NextFence, WithoutNext
  <2>2. /\ Len(a) \in Nat /\ Len(a) > 0 /\ f = a[Len(a)] /\ Len(b) = Len(a) - 1
        /\ \A k \in 1 .. Len(a) - 1 : b[k] = a[k]
    <3> HIDE DEF a, b, f
    <3>1. a \in Seq(Nat) BY <1>1
    <3> QED BY <3>1, <1>5, <2>1, LastFront
  <2>3. f \in ToSet(a) BY <1>1, <2>2 DEF ToSet
  <2>4. f \notin p.used BY <2>3 DEF NumberedPool
  <2>5. Cardinality(p.used \cup {f}) = Cardinality(p.used) + 1 BY <2>4, FS_AddElement
  <2>6. Created(q) = Created(p) BY <1>2, <1>3, <2>2, <2>5 DEF Created
  <2>7. \A j, k \in 1 .. Len(a) : a[j] = a[k] => j = k
    BY <1>1 DEF NumberedPool, IsInjective
  <2>8. ToSet(b) \subseteq ToSet(a)
    <3> HIDE DEF a, b
    <3>1. DOMAIN a = 1 .. Len(a) /\ DOMAIN b = 1 .. Len(a) - 1 BY <1>1, <1>2, <2>2
    <3>2. 1 .. Len(a) - 1 \subseteq 1 .. Len(a) BY <2>2
    <3> QED BY <3>1, <3>2, <2>2 DEF ToSet
  <2>9. f \notin ToSet(b)
    <3> SUFFICES ASSUME NEW k \in 1 .. Len(a) - 1, b[k] = f PROVE FALSE
      BY <1>2, <2>2 DEF ToSet
    <3> QED BY <2>2, <2>7
  <2>10. IsInjective(b)
    <3> SUFFICES ASSUME NEW j \in 1 .. Len(a) - 1, NEW k \in 1 .. Len(a) - 1, b[j] = b[k]
                 PROVE  j = k
      BY <1>2, <2>2 DEF IsInjective
    <3> QED BY <2>2, <2>7
  <2>11. ToSet(b) \cap q.used = {} BY <2>8, <2>9 DEF NumberedPool
  <2>12. \A g \in ToSet(b) \cup q.used : g <= Created(q)
    BY <2>3, <2>6, <2>8 DEF NumberedPool
  <2>13. NumberedPool(q) BY <2>10, <2>11, <2>12 DEF NumberedPool
  <2> QED BY <1>2, <2>4, <2>8, <2>9, <2>13
<1> QED BY <1>4, <1>5

LEMMA ReturnNumbered ==
  ASSUME NEW p \in Pools, IsFiniteSet(p.used), NumberedPool(p), NEW f \in p.used, NEW q,
         q = [available |-> Append(p.available, f), used |-> p.used \ {f}]
  PROVE  ToSet(q.available) = ToSet(p.available) \cup {f} /\ NumberedPool(q)
<1> DEFINE a == p.available  b == q.available
<1>1. a \in Seq(Nat) /\ p.used \in SUBSET Nat /\ f \in Nat BY DEF Pools
<1>2. /\ Len(a) \in Nat /\ b \in Seq(Nat) /\ Len(b) = Len(a) + 1 /\ b[Len(a) + 1] = f
      /\ \A k \in 1 .. Len(a) : b[k] = a[k]
  BY <1>1
<1>3. ToSet(b) = ToSet(a) \cup {f}
  <2>1. DOMAIN a = 1 .. Len(a) /\ DOMAIN b = 1 .. Len(a) + 1 BY <1>1, <1>2
  <2>2. \A k \in 1 .. Len(a) + 1 : k \in 1 .. Len(a) \/ k = Len(a) + 1 BY <1>2
  <2> HIDE DEF a, b
  <2>3. \A g : g \in ToSet(a) <=> \E k \in 1 .. Len(a) : a[k] = g BY <2>1 DEF ToSet
  <2>4. \A g : g \in ToSet(b) <=> \E k \in 1 .. Len(a) + 1 : b[k] = g BY <2>1 DEF ToSet
  <2>5. 1 .. Len(a) \subseteq 1 .. Len(a) + 1 /\ Len(a) + 1 \in 1 .. Len(a) + 1 BY <1>2
  <2> QED BY <1>2, <2>2, <2>3, <2>4, <2>5
<1>4. f \notin ToSet(a) BY DEF NumberedPool
<1>5. \A j, k \in 1 .. Len(a) : a[j] = a[k] => j = k
  BY <1>1 DEF NumberedPool, IsInjective
<1>6. \A k \in 1 .. Len(a) : a[k] # f BY <1>1, <1>4 DEF ToSet
<1>7. IsInjective(b)
  <2> SUFFICES ASSUME NEW j \in 1 .. Len(a) + 1, NEW k \in 1 .. Len(a) + 1, b[j] = b[k]
               PROVE  j = k
    BY <1>2 DEF IsInjective
  <2> HIDE DEF a, b
  <2>1. /\ j \in 1 .. Len(a) \/ j = Len(a) + 1
        /\ k \in 1 .. Len(a) \/ k = Len(a) + 1
    BY <1>2
  <2>2. CASE j \in 1 .. Len(a) /\ k \in 1 .. Len(a) BY <2>2, <1>2, <1>5
  <2>3. CASE j = Len(a) + 1 /\ k \in 1 .. Len(a) BY <2>3, <1>2, <1>6
  <2>4. CASE j \in 1 .. Len(a) /\ k = Len(a) + 1 BY <2>4, <1>2, <1>6
  <2> QED BY <2>1, <2>2, <2>3, <2>4
<1>8. /\ Cardinality(p.used) \in Nat
      /\ Cardinality(p.used \ {f}) = Cardinality(p.used) - 1
  BY FS_RemoveElement, FS_CardinalityType
<1>9. Created(q) = Created(p)
  <2>1. q.available = b /\ q.used = p.used \ {f} /\ p.available = a OBVIOUS
  <2>2. Created(q) = Cardinality(p.used \ {f}) + Len(b) BY <2>1 DEF Created
  <2>3. Created(p) = Cardinality(p.used) + Len(a) BY <2>1 DEF Created
  <2> HIDE DEF a, b
  <2> QED BY <1>2, <1>8, <2>2, <2>3
<1>10. \A g \in ToSet(b) \cup q.used : g <= Created(q) BY <1>3, <1>9 DEF NumberedPool
<1>11. ToSet(b) \cap q.used = {} BY <1>3 DEF NumberedPool
<1> QED BY <1>3, <1>7, <1>10, <1>11 DEF NumberedPool

-----------------------------------------------------------------------------
(***************************************************************************)
(* A fence in use is returned by one task.                                 *)
(***************************************************************************)

(* Nothing of the fence changes.                                           *)
LEMMA FenceFrame ==
  ASSUME NEW i \in Images, NEW f \in Nat, FenceInv(i, f),
         f \in pool[i].used <=> f \in pool'[i].used,
         f \in ToSet(pool'[i].available) => f \in ToSet(pool[i].available),
         f \in gpu.signaled[i] <=> f \in gpu'.signaled[i],
         \A t : TaskReturns(t, i, f)' <=> TaskReturns(t, i, f),
         \A w \in Workers : /\ Waits(worker[w], i, f)' <=> Waits(worker[w], i, f)
                            /\ WaitIsOver(worker[w], i, f)' <=> WaitIsOver(worker[w], i, f),
         Waits(rt, i, f)' <=> Waits(rt, i, f),
         WaitIsOver(rt, i, f)' <=> WaitIsOver(rt, i, f),
         QueuedOnce(i, f)'
  PROVE  FenceInv(i, f)'
<1>1. \A t : TaskReturns(t, i, f) => t \in tasks BY DEF TaskReturns
<1>2. \A t : TaskReturns(t, i, f)' => t \in tasks' BY DEF TaskReturns
<1>3. /\ \A w \in Workers : Returner(worker[w], i, f)' <=> Returner(worker[w], i, f)
      /\ Returner(rt, i, f)' <=> Returner(rt, i, f)
  BY DEF Returner
<1>4. InUse(i, f)' <=> InUse(i, f) BY <1>1, <1>2, <1>3 DEF InUse
<1>5. ReturnedOnce(i, f)' BY <1>1, <1>2, <1>3 DEF FenceInv, ReturnedOnce
<1>6. SignaledWhenFree(i, f)' BY DEF FenceInv, SignaledWhenFree
<1> QED BY <1>4, <1>5, <1>6 DEF FenceInv

(* Steps that neither take nor return a fence, nor wait for one.           *)
LEMMA PoolFrame ==
  ASSUME PoolInv, UNCHANGED <<pool, gpu, late>>,
         \A i, f, t : TaskReturns(t, i, f)' <=> TaskReturns(t, i, f),
         \A i, f : \A w \in Workers :
           /\ Waits(worker[w], i, f)' <=> Waits(worker[w], i, f)
           /\ WaitIsOver(worker[w], i, f)' <=> WaitIsOver(worker[w], i, f),
         \A i, f : Waits(rt, i, f)' <=> Waits(rt, i, f),
         \A i, f : WaitIsOver(rt, i, f)' <=> WaitIsOver(rt, i, f)
  PROVE  PoolInv'
<1> SUFFICES ASSUME NEW i \in Images, late[i] = {}
             PROVE  NumberedPool(pool[i])' /\ \A f \in Nat : FenceInv(i, f)'
  BY DEF PoolInv, FencesInv
<1>1. NumberedPool(pool[i])' BY DEF PoolInv, FencesInv, NumberedPool, Created
<1>2. ASSUME NEW f \in Nat PROVE FenceInv(i, f)'
  <2>1. FenceInv(i, f) BY DEF PoolInv, FencesInv
  <2>2. QueuedOnce(i, f)' BY <2>1 DEF FenceInv, QueuedOnce, Submitted
  <2> QED BY <2>1, <2>2, FenceFrame
<1> QED BY <1>1, <1>2

LEMMA SubmitPool ==
  ASSUME Typed, PoolInv, syncImageToColorBuffer
  PROVE  PoolInv'
<1>p. PICK i \in Images, q \in Queues, t \in WaitTasks, f \in Nat :
        /\ t.image = i /\ t.fence = f /\ f = NextFence(pool[i])
        /\ pool' = [pool EXCEPT ![i] = [available |-> WithoutNext(pool[i]),
                                       used |-> pool[i].used \cup {f}]]
        /\ gpu' = [gpu EXCEPT !.queue[q] = Append(@, t), !.signaled[i] = Reset(i, f),
                              !.used[i] = @ \cup {q}]
        /\ \/ tasks' = tasks \cup {t} /\ rt' = rt
           \/ tasks' = tasks /\ rt' = At("wait", t)
  <2> DEFINE i == NextCall.image
             f == NextFence(pool[i])
             q == NextCall.queue
             t == WaitTask(i, NextCall.nth, f)
  <2>1. NextCall \in PresentCalls
    BY StreamTyped DEF syncImageToColorBuffer, Calls, DestroyCalls
  <2>2. i \in Images /\ q \in Queues BY <2>1 DEF PresentCalls
  <2>3. f \in Nat BY <2>2, NextFenceTyped DEF Typed
  <2>4. t \in WaitTasks /\ t.image = i /\ t.fence = f
    BY <2>1, <2>2, <2>3 DEF WaitTask, WaitTasks, PresentCalls
  <2>5. pool' = [pool EXCEPT ![i] = [available |-> WithoutNext(pool[i]),
                                     used |-> pool[i].used \cup {f}]]
    BY DEF syncImageToColorBuffer, getFenceFromPool
  <2>6. gpu' = [gpu EXCEPT !.queue[q] = Append(@, t), !.signaled[i] = Reset(i, f),
                           !.used[i] = @ \cup {q}]
    BY DEF syncImageToColorBuffer
  <2>7. \/ tasks' = tasks \cup {t} /\ rt' = rt
        \/ tasks' = tasks /\ rt' = At("wait", t)
    BY DEF syncImageToColorBuffer
  <2> HIDE DEF i, q, t, f
  <2> QED BY <2>2, <2>3, <2>4, <2>5, <2>6, <2>7 DEF f
<1>1. i \in Images /\ q \in Queues /\ f = NextFence(pool[i]) BY <1>p
<1>2. t \in WaitTasks /\ t.op = "wait" /\ t.image = i /\ t.fence = f
  BY <1>p DEF WaitTasks
<1>5. /\ \/ tasks' = tasks \cup {t} /\ rt' = rt
         \/ tasks' = tasks /\ rt' = At("wait", t)
      /\ rt.pc = "idle" /\ UNCHANGED <<worker, late>>
  BY <1>p DEF syncImageToColorBuffer, mLockFree
<1>6. t.op = "wait" /\ t.image = i /\ t.fence = f BY <1>2
<1>7. /\ pool'[i] = [available |-> WithoutNext(pool[i]), used |-> pool[i].used \cup {f}]
      /\ \A j \in Images \ {i} : pool'[j] = pool[j]
  BY <1>p DEF Typed
<1>8. /\ gpu'.queue[q] = Append(gpu.queue[q], t)
      /\ \A p \in Queues \ {q} : gpu'.queue[p] = gpu.queue[p]
      /\ gpu'.signaled[i] = gpu.signaled[i] \ {f}
      /\ \A j \in Images \ {i} : gpu'.signaled[j] = gpu.signaled[j]
      /\ \A p \in Queues : gpu.queue[p] \in Seq(WaitTasks)
  BY <1>p DEF Typed, Gpus, Reset
<1>9. \A p \in Queues : \A k \in Nat : \A j, g :
        Submitted(p, k, j, g)' <=>
          \/ Submitted(p, k, j, g)
          \/ p = q /\ k = Len(gpu.queue[q]) + 1 /\ j = i /\ g = f
  <2>1. ASSUME NEW k \in Nat, NEW j, NEW g
        PROVE  Submitted(q, k, j, g)' <=>
                 Submitted(q, k, j, g) \/ (k = Len(gpu.queue[q]) + 1 /\ j = i /\ g = f)
    <3> DEFINE s == gpu.queue[q]  u == gpu'.queue[q]
    <3>1. s \in Seq(WaitTasks) /\ u = Append(s, t) BY <1>1, <1>2, <1>8
    <3> HIDE DEF s, u
    <3>2. /\ Len(s) \in Nat /\ Len(u) = Len(s) + 1 /\ u[Len(s) + 1] = t
          /\ \A m \in 1 .. Len(s) : u[m] = s[m]
      BY <3>1
    <3>d. /\ Submitted(q, k, j, g) <=> k \in 1 .. Len(s) /\ ForFence(s[k], j, g)
          /\ Submitted(q, k, j, g)' <=> k \in 1 .. Len(u) /\ ForFence(u[k], j, g)
      BY DEF Submitted, ForFence, s, u
    <3>3. CASE k = Len(s) + 1
      <4>1. k \in 1 .. Len(u) /\ k \notin 1 .. Len(s) BY <3>2, <3>3
      <4>2. ForFence(u[k], j, g) <=> j = i /\ g = f BY <3>2, <3>3, <1>6 DEF ForFence
      <4> QED BY <4>1, <4>2, <3>3, <3>d DEF s
    <3>4. CASE k # Len(s) + 1
      <4>1. k \in 1 .. Len(u) <=> k \in 1 .. Len(s) BY <3>2, <3>4
      <4>2. k \in 1 .. Len(s) => u[k] = s[k] BY <3>2
      <4> QED BY <4>1, <4>2, <3>d, <3>4 DEF s
    <3> QED BY <3>3, <3>4 DEF s
  <2>2. ASSUME NEW p \in Queues \ {q} PROVE \A k, j, g : Submitted(p, k, j, g)' <=> Submitted(p, k, j, g)
    BY <1>8 DEF Submitted
  <2> QED BY <2>1, <2>2
<1>10. /\ \A u, j, g : \/ j # i
                       \/ g # f
                       => (TaskReturns(u, j, g)' <=> TaskReturns(u, j, g))
       /\ \A j, g : j # i \/ g # f =>
            /\ Waits(rt, j, g)' <=> Waits(rt, j, g)
            /\ WaitIsOver(rt, j, g)' <=> WaitIsOver(rt, j, g)
       /\ \A w \in Workers : \A j, g :
            /\ Waits(worker[w], j, g)' <=> Waits(worker[w], j, g)
            /\ WaitIsOver(worker[w], j, g)' <=> WaitIsOver(worker[w], j, g)
  BY <1>5, <1>6 DEF TaskReturns, Waits, WaitIsOver, ForFence, At
<1> SUFFICES ASSUME NEW j \in Images, late[j] = {}
             PROVE  NumberedPool(pool[j])' /\ \A g \in Nat : FenceInv(j, g)'
  BY <1>5 DEF PoolInv, FencesInv
<1>11. NumberedPool(pool[j]) /\ \A g \in Nat : FenceInv(j, g) BY DEF PoolInv, FencesInv
<1>12. CASE j # i
  <2>1. NumberedPool(pool[j])' BY <1>7, <1>11, <1>12 DEF NumberedPool, Created
  <2>2. ASSUME NEW g \in Nat PROVE FenceInv(j, g)'
    <3>1. FenceInv(j, g) BY <1>11
    <3>2. QueuedOnce(j, g)'
      BY <3>1, <1>7, <1>8, <1>9, <1>12 DEF FenceInv, QueuedOnce
    <3> QED BY <3>1, <3>2, <1>7, <1>8, <1>10, <1>12, FenceFrame
  <2> QED BY <2>1, <2>2
<1>13. CASE j = i
  <2> DEFINE p == pool[i]
  <2>1. p \in Pools /\ IsFiniteSet(p.used) /\ NumberedPool(p)
    BY <1>1, <1>11, <1>13 DEF Typed
  <2>2. /\ f \in Nat /\ f \notin pool[i].used
        /\ f \notin ToSet(pool'[i].available)
        /\ ToSet(pool'[i].available) \subseteq ToSet(pool[i].available)
        /\ NumberedPool(pool'[i])
    <3> HIDE DEF p
    <3> DEFINE r == pool'[i]
    <3>1. r = [available |-> WithoutNext(p), used |-> p.used \cup {NextFence(p)}]
      BY <1>1, <1>7 DEF p
    <3> HIDE DEF r
    <3>2. /\ NextFence(p) \in Nat /\ NextFence(p) \notin p.used
          /\ NextFence(p) \notin ToSet(r.available)
          /\ ToSet(r.available) \subseteq ToSet(p.available)
          /\ NumberedPool(r)
      BY <2>1, <3>1, GetNumbered
    <3> QED BY <3>2, <1>1 DEF p, r
  <2>3. pool'[i].used = pool[i].used \cup {f} BY <1>7
  <2>4. NumberedPool(pool[j])' BY <2>2, <1>13 DEF NumberedPool, Created
  <2>5. ASSUME NEW g \in Nat, g # f PROVE FenceInv(j, g)'
    <3>1. FenceInv(j, g) BY <1>11
    <3>2. QueuedOnce(j, g)'
      BY <3>1, <1>8, <1>9, <1>13, <2>3, <2>5 DEF FenceInv, QueuedOnce
    <3>3. /\ g \in pool[j].used <=> g \in pool'[j].used
          /\ g \in ToSet(pool'[j].available) => g \in ToSet(pool[j].available)
          /\ g \in gpu.signaled[j] <=> g \in gpu'.signaled[j]
      BY <1>8, <1>13, <2>2, <2>3, <2>5
    <3> QED BY <3>1, <3>2, <3>3, <1>10, <2>5, FenceFrame
  <2>6. FenceInv(i, f)'
    <3>1. FenceInv(i, f) /\ ~InUse(i, f) BY <1>11, <1>13, <2>2 DEF FenceInv
    <3>2. /\ \A u : ~TaskReturns(u, i, f)
          /\ \A w \in Workers : ~Returner(worker[w], i, f)
          /\ ~Returner(rt, i, f)
      BY <3>1 DEF InUse, TaskReturns
    <3>3. \A w \in Workers : ~Returner(worker[w], i, f)' BY <3>2, <1>10 DEF Returner
    <3>4. ASSUME tasks' = tasks \cup {t} /\ rt' = rt
          PROVE  InUse(i, f)' /\ ReturnedOnce(i, f)' /\ ~WaitIsOver(rt, i, f)'
      <4>1. \A u : TaskReturns(u, i, f)' <=> u = t
        BY <3>2, <3>4, <1>6 DEF TaskReturns, ForFence
      <4>2. ~Returner(rt, i, f)' BY <3>2, <3>4
      <4>3. t \in tasks' BY <3>4
      <4>4. InUse(i, f)' BY <4>1, <4>3 DEF InUse
      <4>5. ReturnedOnce(i, f)' BY <4>1, <4>2, <3>3 DEF ReturnedOnce
      <4>6. ~WaitIsOver(rt, i, f)' BY <4>2 DEF Returner
      <4> QED BY <4>4, <4>5, <4>6
    <3>5. ASSUME tasks' = tasks /\ rt' = At("wait", t)
          PROVE  InUse(i, f)' /\ ReturnedOnce(i, f)' /\ ~WaitIsOver(rt, i, f)'
      <4>1. \A u : ~TaskReturns(u, i, f)' BY <3>2, <3>5 DEF TaskReturns
      <4>2. Returner(rt, i, f)' BY <3>5, <1>6 DEF Returner, Waits, ForFence, At
      <4>3. InUse(i, f)' BY <4>2 DEF InUse
      <4>4. ReturnedOnce(i, f)' BY <4>1, <3>3 DEF ReturnedOnce
      <4>5. ~WaitIsOver(rt, i, f)' BY <3>5 DEF WaitIsOver, At
      <4> QED BY <4>3, <4>4, <4>5
    <3>6. InUse(i, f)' /\ ReturnedOnce(i, f)' /\ ~WaitIsOver(rt, i, f)'
      BY <3>4, <3>5, <1>5
    <3>7. SignaledWhenFree(i, f)'
      BY <3>3, <3>6, <2>2 DEF SignaledWhenFree, Returner
    <3>8. QueuedOnce(i, f)'
      <4>1. \A r \in Queues, k \in Nat : ~Submitted(r, k, i, f)
        BY <3>1, <2>2 DEF FenceInv, QueuedOnce
      <4>2. \A r \in Queues, k \in Nat :
              Submitted(r, k, i, f)' => r = q /\ k = Len(gpu.queue[q]) + 1
        BY <4>1, <1>9
      <4> QED BY <4>2, <1>8, <2>3 DEF QueuedOnce
    <3> QED BY <3>6, <3>7, <3>8, <2>3 DEF FenceInv
  <2> QED BY <2>4, <2>5, <2>6, <1>13
<1> QED BY <1>12, <1>13

(* The wait of a thread or a worker is over: it may have timed out.        *)
LEMMA LateEffect ==
  ASSUME Typed, NEW t \in WaitTasks, WaitForFence(t)
  PROVE  /\ \A j \in Images : late'[j] = {} => late[j] = {}
         /\ late'[t.image] = {} => t.fence \in gpu.signaled[t.image]
<1>1. t.image \in Images BY DEF WaitTasks
<1>2. late'[t.image] = IF t.fence \in gpu.signaled[t.image] THEN late[t.image]
                       ELSE late[t.image] \cup {t.nth}
  BY <1>1 DEF WaitForFence, Typed
<1>3. \A j \in Images \ {t.image} : late'[j] = late[j] BY DEF WaitForFence, Typed
<1> QED BY <1>1, <1>2, <1>3

LEMMA WaitedPool ==
  ASSUME Typed, PoolInv, NEW t \in WaitTasks, WaitForFence(t),
         UNCHANGED <<pool, gpu, tasks>>,
         \A i, f : \A w \in Workers :
           /\ Returner(worker[w], i, f)' <=> Returner(worker[w], i, f)
           /\ WaitIsOver(worker[w], i, f)' =>
                WaitIsOver(worker[w], i, f) \/ ForFence(t, i, f),
         \A i, f : Returner(rt, i, f)' <=> Returner(rt, i, f),
         \A i, f : WaitIsOver(rt, i, f)' => WaitIsOver(rt, i, f) \/ ForFence(t, i, f)
  PROVE  PoolInv'
<1>1. /\ \A j \in Images : late'[j] = {} => late[j] = {}
      /\ late'[t.image] = {} => t.fence \in gpu.signaled[t.image]
  BY LateEffect
<1> SUFFICES ASSUME NEW i \in Images, late'[i] = {}
             PROVE  NumberedPool(pool[i])' /\ \A f \in Nat : FenceInv(i, f)'
  BY DEF PoolInv, FencesInv
<1>2. late[i] = {} BY <1>1
<1>3. NumberedPool(pool[i])' BY <1>2 DEF PoolInv, FencesInv, NumberedPool, Created
<1>4. ASSUME NEW f \in Nat PROVE FenceInv(i, f)'
  <2>1. FenceInv(i, f) BY <1>2 DEF PoolInv, FencesInv
  <2>2. ForFence(t, i, f) => f \in gpu.signaled[i] BY <1>1 DEF ForFence
  <2>3. \A u : TaskReturns(u, i, f)' <=> TaskReturns(u, i, f) BY DEF TaskReturns
  <2>4. InUse(i, f)' <=> InUse(i, f) BY <2>3 DEF InUse
  <2>5. ReturnedOnce(i, f)' BY <2>1, <2>3 DEF FenceInv, ReturnedOnce
  <2>6. QueuedOnce(i, f)' BY <2>1 DEF FenceInv, QueuedOnce, Submitted
  <2>7. SignaledWhenFree(i, f)' BY <2>1, <2>2 DEF FenceInv, SignaledWhenFree
  <2> QED BY <2>1, <2>4, <2>5, <2>6, <2>7 DEF FenceInv
<1> QED BY <1>3, <1>4

(* A fence is put back by the one task that returned it.                   *)
LEMMA ReturnedPool ==
  ASSUME Typed, PoolInv, NEW i \in Images, NEW f \in Nat, returnFence(i, f),
         UNCHANGED <<gpu, tasks, late>>,
         late[i] = {} => /\ f \in gpu.signaled[i]
                         /\ \A t : ~TaskReturns(t, i, f)
                         /\ \A w \in Workers : ~Returner(worker[w], i, f)'
                         /\ ~Returner(rt, i, f)',
         \A j, g : j # i \/ g # f =>
           /\ \A w \in Workers :
                /\ Waits(worker[w], j, g)' <=> Waits(worker[w], j, g)
                /\ WaitIsOver(worker[w], j, g)' <=> WaitIsOver(worker[w], j, g)
           /\ Waits(rt, j, g)' <=> Waits(rt, j, g)
           /\ WaitIsOver(rt, j, g)' <=> WaitIsOver(rt, j, g)
  PROVE  PoolInv'
<1>1. /\ f \in pool[i].used
      /\ pool'[i] = [available |-> Append(pool[i].available, f),
                     used |-> pool[i].used \ {f}]
      /\ \A j \in Images \ {i} : pool'[j] = pool[j]
  BY DEF returnFence, Typed
<1> SUFFICES ASSUME NEW j \in Images, late[j] = {}
             PROVE  NumberedPool(pool[j])' /\ \A g \in Nat : FenceInv(j, g)'
  BY DEF PoolInv, FencesInv
<1>2. NumberedPool(pool[j]) /\ \A g \in Nat : FenceInv(j, g) BY DEF PoolInv, FencesInv
<1>3. \A g \in Nat : \A t : TaskReturns(t, j, g)' <=> TaskReturns(t, j, g)
  BY DEF TaskReturns
<1>4. CASE j # i
  <2>1. NumberedPool(pool[j])' BY <1>1, <1>2, <1>4 DEF NumberedPool, Created
  <2>2. ASSUME NEW g \in Nat PROVE FenceInv(j, g)'
    <3>1. FenceInv(j, g) BY <1>2
    <3>2. QueuedOnce(j, g)' BY <3>1, <1>1, <1>4 DEF FenceInv, QueuedOnce, Submitted
    <3> QED BY <3>1, <3>2, <1>1, <1>3, <1>4, FenceFrame
  <2> QED BY <2>1, <2>2
<1>5. CASE j = i
  <2> DEFINE p == pool[i]  r == pool'[i]
  <2>1. p \in Pools /\ IsFiniteSet(p.used) /\ NumberedPool(p) /\ f \in p.used
    BY <1>1, <1>2, <1>5 DEF Typed
  <2>2. r = [available |-> Append(p.available, f), used |-> p.used \ {f}] BY <1>1
  <2> HIDE DEF p, r
  <2>3. ToSet(r.available) = ToSet(p.available) \cup {f} /\ NumberedPool(r)
    BY <2>1, <2>2, ReturnNumbered
  <2>4. r.used = p.used \ {f} BY <2>2
  <2>5. NumberedPool(pool[j])' BY <2>3, <1>5 DEF NumberedPool, Created, r
  <2>6. ASSUME NEW g \in Nat, g # f PROVE FenceInv(j, g)'
    <3>1. FenceInv(j, g) BY <1>2
    <3>2. /\ g \in pool[j].used <=> g \in pool'[j].used
          /\ g \in ToSet(pool'[j].available) => g \in ToSet(pool[j].available)
      BY <1>5, <2>3, <2>4, <2>6 DEF p, r
    <3>3. QueuedOnce(j, g)' BY <3>1, <3>2 DEF FenceInv, QueuedOnce, Submitted
    <3> QED BY <3>1, <3>2, <3>3, <1>3, <2>6, FenceFrame
  <2>7. FenceInv(i, f)'
    <3>1. FenceInv(i, f) BY <1>2, <1>5
    <3>2. f \in gpu.signaled[i] BY <1>5
    <3>3. /\ \A t : ~TaskReturns(t, i, f)
          /\ \A w \in Workers : ~Returner(worker[w], i, f)'
          /\ ~Returner(rt, i, f)'
      BY <1>5
    <3>4. \A t : ~TaskReturns(t, i, f)' BY <3>3, <1>3, <1>5
    <3>5. ~InUse(i, f)' BY <3>3, <3>4 DEF InUse
    <3>6. ReturnedOnce(i, f)' BY <3>3, <3>4 DEF ReturnedOnce
    <3>7. SignaledWhenFree(i, f)' BY <3>2, <3>3 DEF SignaledWhenFree, Returner
    <3>8. \A q \in Queues, k \in Nat : ~Submitted(q, k, i, f)
      BY <3>1, <3>2 DEF FenceInv, QueuedOnce
    <3>9. QueuedOnce(i, f)' BY <3>8 DEF QueuedOnce, Submitted
    <3>10. f \notin pool'[i].used BY <2>4 DEF r
    <3> QED BY <3>5, <3>6, <3>7, <3>9, <3>10 DEF FenceInv
  <2> QED BY <2>5, <2>6, <2>7, <1>5
<1> QED BY <1>4, <1>5

(* A task moves from the pool's queue to a worker.                         *)
LEMMA BeginPool ==
  ASSUME Typed, PoolInv, NEW w \in Workers, NEW t \in tasks, doSyncThreadCmd(w, t)
  PROVE  PoolInv'
<1>1. /\ tasks' = tasks \ {t} /\ worker[w] = Idle
      /\ UNCHANGED <<pool, gpu, late, rt>>
  BY DEF doSyncThreadCmd
<1>2. /\ worker'[w] = At(IF t.op = "wait" THEN "wait" ELSE "lookup", t)
      /\ \A v \in Workers \ {w} : worker'[v] = worker[v]
  BY DEF doSyncThreadCmd, Typed
<1> SUFFICES ASSUME NEW i \in Images, late[i] = {}
             PROVE  NumberedPool(pool[i])' /\ \A f \in Nat : FenceInv(i, f)'
  BY <1>1 DEF PoolInv, FencesInv
<1>3. NumberedPool(pool[i])' BY <1>1 DEF PoolInv, FencesInv, NumberedPool, Created
<1>4. ASSUME NEW f \in Nat PROVE FenceInv(i, f)'
  <2>1. FenceInv(i, f) BY DEF PoolInv, FencesInv
  <2>2. QueuedOnce(i, f)' BY <2>1, <1>1 DEF FenceInv, QueuedOnce, Submitted
  <2>3. \A u : TaskReturns(u, i, f)' <=> TaskReturns(u, i, f) /\ u # t
    BY <1>1 DEF TaskReturns
  <2>4. ~Waits(worker[w], i, f) /\ ~WaitIsOver(worker[w], i, f)
    BY <1>1 DEF Waits, WaitIsOver, Idle
  <2>5. ~WaitIsOver(worker[w], i, f)' BY <1>2 DEF WaitIsOver, At
  <2>6. Waits(worker[w], i, f)' <=> TaskReturns(t, i, f)
    BY <1>2 DEF Waits, TaskReturns, ForFence, At
  <2>7. /\ \A v \in Workers \ {w} : /\ Waits(worker[v], i, f)' <=> Waits(worker[v], i, f)
                                    /\ WaitIsOver(worker[v], i, f)' <=> WaitIsOver(worker[v], i, f)
        /\ Waits(rt, i, f)' <=> Waits(rt, i, f)
        /\ WaitIsOver(rt, i, f)' <=> WaitIsOver(rt, i, f)
    BY <1>1, <1>2 DEF Waits, WaitIsOver
  <2>8. CASE ~TaskReturns(t, i, f)
    <3>1. \A u : TaskReturns(u, i, f)' <=> TaskReturns(u, i, f) BY <2>3, <2>8
    <3>2. \A v \in Workers : /\ Waits(worker[v], i, f)' <=> Waits(worker[v], i, f)
                             /\ WaitIsOver(worker[v], i, f)' <=> WaitIsOver(worker[v], i, f)
      BY <2>4, <2>5, <2>6, <2>7, <2>8
    <3>3. UNCHANGED <<pool, gpu>> BY <1>1
    <3> QED BY <3>1, <3>2, <3>3, <2>1, <2>2, <2>7, FenceFrame
  <2>9. CASE TaskReturns(t, i, f)
    <3>1. /\ \A u \in tasks : TaskReturns(u, i, f) => u = t
          /\ \A v \in Workers : ~Returner(worker[v], i, f)
          /\ ~Returner(rt, i, f)
      BY <2>1, <2>9 DEF FenceInv, ReturnedOnce
    <3>2. /\ \A u : ~TaskReturns(u, i, f)'
          /\ \A v \in Workers \ {w} : ~Returner(worker[v], i, f)'
          /\ ~Returner(rt, i, f)'
      BY <3>1, <2>3, <2>7 DEF Returner, TaskReturns
    <3>3. Returner(worker[w], i, f)' BY <2>6, <2>9 DEF Returner
    <3>4. InUse(i, f) BY <2>9 DEF InUse
    <3>5. InUse(i, f)' BY <3>3 DEF InUse
    <3>6. ReturnedOnce(i, f)' BY <3>2 DEF ReturnedOnce
    <3>7. SignaledWhenFree(i, f)'
      BY <1>1, <2>1, <2>5, <2>7 DEF FenceInv, SignaledWhenFree
    <3> QED BY <1>1, <2>1, <2>2, <3>4, <3>5, <3>6, <3>7 DEF FenceInv
  <2> QED BY <2>8, <2>9
<1> QED BY <1>3, <1>4

(* The GPU signals the fence of a submission that it forgets.              *)
LEMMA FinishPool ==
  ASSUME Typed, PoolInv, NEW q \in Queues, Finish(q)
  PROVE  PoolInv'
<1>p. PICK s \in WaitTasks :
        /\ s = Head(gpu.queue[q])
        /\ gpu' = [gpu EXCEPT !.queue[q] = Tail(@), !.finished[s.image] = @ \cup {s.nth},
                              !.signaled[s.image] = @ \cup {s.fence}]
  <2>1. Head(gpu.queue[q]) \in WaitTasks BY DEF Finish, Typed, Gpus
  <2> QED BY <2>1 DEF Finish
<1>1. gpu.queue[q] # <<>> /\ UNCHANGED <<pool, tasks, worker, rt, late>> BY DEF Finish
<1>2. s.image \in Images /\ s.fence \in Nat BY DEF WaitTasks
<1>3. /\ gpu'.queue[q] = Tail(gpu.queue[q])
      /\ \A p \in Queues \ {q} : gpu'.queue[p] = gpu.queue[p]
      /\ gpu'.signaled[s.image] = gpu.signaled[s.image] \cup {s.fence}
      /\ \A j \in Images \ {s.image} : gpu'.signaled[j] = gpu.signaled[j]
      /\ gpu.queue[q] \in Seq(WaitTasks)
  BY <1>p, <1>2 DEF Typed, Gpus
<1>4. Submitted(q, 1, s.image, s.fence)
  <2> DEFINE a == gpu.queue[q]
  <2>1. a \in Seq(WaitTasks) /\ a # <<>> /\ s = Head(a) BY <1>p, <1>1, <1>3
  <2> HIDE DEF a
  <2>2. 1 \in 1 .. Len(a) /\ a[1] = s BY <2>1
  <2>3. ForFence(a[1], s.image, s.fence) BY <2>2 DEF ForFence
  <2> QED BY <2>2, <2>3 DEF Submitted, a
<1>5. ASSUME NEW k \in Nat, NEW j, NEW g, Submitted(q, k, j, g)'
      PROVE  Submitted(q, k + 1, j, g)
  <2> DEFINE a == gpu.queue[q]  b == gpu'.queue[q]
  <2>1. a \in Seq(WaitTasks) /\ a # <<>> /\ b = Tail(a) BY <1>1, <1>3
  <2>2. k \in 1 .. Len(b) /\ ForFence(b[k], j, g) BY <1>5 DEF Submitted, ForFence
  <2> HIDE DEF a, b
  <2>3. Len(a) \in Nat /\ Len(b) = Len(a) - 1 /\ \A m \in 1 .. Len(a) - 1 : b[m] = a[m + 1]
    BY <2>1
  <2>4. k + 1 \in 1 .. Len(a) /\ b[k] = a[k + 1] BY <2>2, <2>3
  <2> QED BY <2>2, <2>4 DEF Submitted, a
<1>6. \A p \in Queues \ {q} : \A k, j, g : Submitted(p, k, j, g)' <=> Submitted(p, k, j, g)
  BY <1>3 DEF Submitted
<1> SUFFICES ASSUME NEW i \in Images, late[i] = {}
             PROVE  NumberedPool(pool[i])' /\ \A f \in Nat : FenceInv(i, f)'
  BY <1>1 DEF PoolInv, FencesInv
<1>7. NumberedPool(pool[i])' BY <1>1 DEF PoolInv, FencesInv, NumberedPool, Created
<1>8. ASSUME NEW f \in Nat PROVE FenceInv(i, f)'
  <2>1. FenceInv(i, f) BY DEF PoolInv, FencesInv
  <2>2. \A t : TaskReturns(t, i, f)' <=> TaskReturns(t, i, f)
    BY <1>1 DEF TaskReturns
  <2>3. InUse(i, f)' <=> InUse(i, f) BY <1>1, <2>2 DEF InUse
  <2>4. ReturnedOnce(i, f)' BY <1>1, <2>1 DEF FenceInv, ReturnedOnce, TaskReturns
  <2>5. SignaledWhenFree(i, f)'
    <3>1. f \in gpu.signaled[i] => f \in gpu'.signaled[i] BY <1>2, <1>3
    <3> QED BY <1>1, <2>1, <3>1 DEF FenceInv, SignaledWhenFree
  <2>6. QueuedOnce(i, f)'
    <3>1. ASSUME NEW p \in Queues, NEW k \in Nat, Submitted(p, k, i, f)'
          PROVE  f \in pool'[i].used /\ f \notin gpu'.signaled[i]
      <4>1. \E m \in Nat : Submitted(p, m, i, f) BY <1>5, <1>6, <3>1
      <4>2. f \in pool[i].used /\ f \notin gpu.signaled[i]
        BY <2>1, <4>1 DEF FenceInv, QueuedOnce
      <4>3. ~(i = s.image /\ f = s.fence)
        <5> SUFFICES ASSUME i = s.image, f = s.fence PROVE FALSE OBVIOUS
        <5>1. Submitted(q, 1, i, f) BY <1>4
        <5>2. CASE p = q
          <6>1. Submitted(q, k + 1, i, f) BY <1>5, <3>1, <5>2
          <6>2. k \in 1 .. Len(gpu'.queue[q]) BY <3>1, <5>2 DEF Submitted
          <6>3. k + 1 # 1 /\ k + 1 \in Nat BY <6>2
          <6> QED BY <2>1, <5>1, <6>1, <6>3 DEF FenceInv, QueuedOnce
        <5>3. CASE p # q
          <6>1. Submitted(p, k, i, f) BY <1>6, <3>1, <5>3
          <6> QED BY <2>1, <5>1, <5>3, <6>1 DEF FenceInv, QueuedOnce
        <5> QED BY <5>2, <5>3
      <4> QED BY <1>1, <1>3, <4>2, <4>3
    <3>2. ASSUME NEW p \in Queues, NEW r \in Queues, NEW j \in Nat, NEW k \in Nat,
                 Submitted(p, j, i, f)', Submitted(r, k, i, f)'
          PROVE  p = r /\ j = k
      <4>1. PICK m \in Nat, n \in Nat :
              /\ Submitted(p, m, i, f) /\ Submitted(r, n, i, f)
              /\ m = (IF p = q THEN j + 1 ELSE j) /\ n = (IF r = q THEN k + 1 ELSE k)
        <5>1. \E m \in Nat : Submitted(p, m, i, f) /\ m = (IF p = q THEN j + 1 ELSE j)
          BY <1>5, <1>6, <3>2
        <5>2. \E n \in Nat : Submitted(r, n, i, f) /\ n = (IF r = q THEN k + 1 ELSE k)
          BY <1>5, <1>6, <3>2
        <5> QED BY <5>1, <5>2
      <4>2. p = r /\ m = n BY <2>1, <4>1 DEF FenceInv, QueuedOnce
      <4> QED BY <4>1, <4>2
    <3> QED BY <3>1, <3>2 DEF QueuedOnce
  <2> QED BY <1>1, <2>1, <2>3, <2>4, <2>5, <2>6 DEF FenceInv
<1> QED BY <1>7, <1>8

LEMMA ThreadWaitPool ==
  ASSUME Typed, PoolInv, renderThreadWait
  PROVE  PoolInv'
<1>p. PICK t \in WaitTasks : t = rt.task
  BY ThreadTask DEF renderThreadWait, Returns
<1>1. /\ rt.pc = "wait" /\ rt' = At("return", t) /\ WaitForFence(t)
      /\ UNCHANGED <<pool, gpu, tasks, worker>>
  BY <1>p DEF renderThreadWait
<1>2. \A i, f : Returner(rt, i, f)' <=> Returner(rt, i, f)
  BY <1>1, <1>p DEF Returner, Waits, WaitIsOver, At
<1>3. \A i, f : WaitIsOver(rt, i, f)' => ForFence(t, i, f)
  BY <1>1 DEF WaitIsOver, At, ForFence
<1>4. \A i, f : \A w \in Workers :
        /\ Returner(worker[w], i, f)' <=> Returner(worker[w], i, f)
        /\ WaitIsOver(worker[w], i, f)' => WaitIsOver(worker[w], i, f)
  BY <1>1
<1> QED BY <1>1, <1>2, <1>3, <1>4, WaitedPool

LEMMA WorkerWaitPool ==
  ASSUME Typed, PoolInv, NEW w \in Workers, waitForQsriFenceTask(w)
  PROVE  PoolInv'
<1>p. PICK t \in WaitTasks : t = worker[w].task
  BY WorkerTask DEF waitForQsriFenceTask, Returns
<1>1. /\ worker[w].pc = "wait" /\ worker' = [worker EXCEPT ![w].pc = "return"]
      /\ WaitForFence(t) /\ UNCHANGED <<pool, gpu, tasks, rt>>
  BY <1>p DEF waitForQsriFenceTask
<1>2. worker[w] \in [pc : Returns, task : WaitTasks]
  BY <1>1 DEF Typed, Pooled, Idle, Returns, Registers
<1>3. /\ worker'[w].pc = "return" /\ worker'[w].task = t
      /\ \A v \in Workers \ {w} : worker'[v] = worker[v]
  BY <1>1, <1>2, <1>p DEF Typed
<1>4. \A i, f : \A v \in Workers :
        /\ Returner(worker[v], i, f)' <=> Returner(worker[v], i, f)
        /\ WaitIsOver(worker[v], i, f)' => WaitIsOver(worker[v], i, f) \/ ForFence(t, i, f)
  BY <1>1, <1>3, <1>p DEF Returner, Waits, WaitIsOver, ForFence
<1>5. \A i, f : /\ Returner(rt, i, f)' <=> Returner(rt, i, f)
                /\ WaitIsOver(rt, i, f)' => WaitIsOver(rt, i, f)
  BY <1>1
<1> QED BY <1>1, <1>4, <1>5, WaitedPool

LEMMA ThreadReturnPool ==
  ASSUME Typed, PoolInv, renderThreadReturn
  PROVE  PoolInv'
<1>p. PICK i \in Images, f \in Nat : i = rt.task.image /\ f = rt.task.fence
  BY ThreadTask DEF renderThreadReturn, Returns, WaitTasks
<1>1. /\ rt.pc = "return" /\ rt' = At("signal", rt.task) /\ returnFence(i, f)
      /\ UNCHANGED <<gpu, tasks, worker, late>>
  BY <1>p DEF renderThreadReturn
<1>2. WaitIsOver(rt, i, f) /\ Returner(rt, i, f)
  BY <1>1, <1>p DEF Returner, WaitIsOver, ForFence
<1>3. ASSUME late[i] = {}
      PROVE  /\ f \in gpu.signaled[i]
             /\ \A t : ~TaskReturns(t, i, f)
             /\ \A w \in Workers : ~Returner(worker[w], i, f)
  <2>1. FenceInv(i, f) BY <1>3 DEF PoolInv, FencesInv
  <2>2. f \in gpu.signaled[i] BY <2>1, <1>2 DEF FenceInv, SignaledWhenFree
  <2>3. \A t : ~TaskReturns(t, i, f)
    BY <2>1, <1>2 DEF FenceInv, ReturnedOnce, TaskReturns
  <2>4. \A w \in Workers : ~Returner(worker[w], i, f)
    BY <2>1, <1>2 DEF FenceInv, ReturnedOnce
  <2> QED BY <2>2, <2>3, <2>4
<1>4. \A j, g : ~Waits(rt, j, g)' /\ ~WaitIsOver(rt, j, g)'
  BY <1>1 DEF Waits, WaitIsOver, At
<1>5. \A j, g : j # i \/ g # f => ~Waits(rt, j, g) /\ ~WaitIsOver(rt, j, g)
  BY <1>1, <1>p DEF Waits, WaitIsOver, ForFence
<1>6. \A j, g : \A w \in Workers :
        /\ Waits(worker[w], j, g)' <=> Waits(worker[w], j, g)
        /\ WaitIsOver(worker[w], j, g)' <=> WaitIsOver(worker[w], j, g)
        /\ Returner(worker[w], j, g)' <=> Returner(worker[w], j, g)
  BY <1>1
<1>7. ~Returner(rt, i, f)' BY <1>4 DEF Returner
<1> QED BY <1>1, <1>3, <1>4, <1>5, <1>6, <1>7, ReturnedPool

LEMMA WorkerReturnPool ==
  ASSUME Typed, PoolInv, NEW v \in Workers, workerReturn(v)
  PROVE  PoolInv'
<1>p. PICK i \in Images, f \in Nat : i = worker[v].task.image /\ f = worker[v].task.fence
  BY WorkerTask DEF workerReturn, Returns, WaitTasks
<1>1. /\ worker[v].pc = "return" /\ worker' = [worker EXCEPT ![v].pc = "signal"]
      /\ returnFence(i, f) /\ UNCHANGED <<gpu, tasks, rt, late>>
  BY <1>p DEF workerReturn
<1>2. WaitIsOver(worker[v], i, f) /\ Returner(worker[v], i, f)
  BY <1>1, <1>p DEF Returner, WaitIsOver, ForFence
<1>3. worker[v] \in [pc : Returns, task : WaitTasks]
  BY <1>1 DEF Typed, Pooled, Idle, Returns, Registers
<1>4. worker'[v].pc = "signal" /\ \A w \in Workers \ {v} : worker'[w] = worker[w]
  BY <1>1, <1>3 DEF Typed
<1>5. ASSUME late[i] = {}
      PROVE  /\ f \in gpu.signaled[i]
             /\ \A t : ~TaskReturns(t, i, f)
             /\ \A w \in Workers \ {v} : ~Returner(worker[w], i, f)
             /\ ~Returner(rt, i, f)
  <2>1. FenceInv(i, f) BY <1>5 DEF PoolInv, FencesInv
  <2>2. f \in gpu.signaled[i] BY <2>1, <1>2 DEF FenceInv, SignaledWhenFree
  <2>3. \A t : ~TaskReturns(t, i, f)
    BY <2>1, <1>2 DEF FenceInv, ReturnedOnce, TaskReturns
  <2>4. /\ \A w \in Workers \ {v} : ~Returner(worker[w], i, f)
        /\ ~Returner(rt, i, f)
    BY <2>1, <1>2 DEF FenceInv, ReturnedOnce
  <2> QED BY <2>2, <2>3, <2>4
<1>6. \A j, g : ~Waits(worker[v], j, g)' /\ ~WaitIsOver(worker[v], j, g)'
  BY <1>4 DEF Waits, WaitIsOver
<1>7. \A j, g : j # i \/ g # f => ~Waits(worker[v], j, g) /\ ~WaitIsOver(worker[v], j, g)
  BY <1>1, <1>p DEF Waits, WaitIsOver, ForFence
<1>8. \A j, g : \A w \in Workers \ {v} :
        /\ Waits(worker[w], j, g)' <=> Waits(worker[w], j, g)
        /\ WaitIsOver(worker[w], j, g)' <=> WaitIsOver(worker[w], j, g)
  BY <1>4 DEF Waits, WaitIsOver
<1>9. \A j, g : \A w \in Workers : j # i \/ g # f =>
        /\ Waits(worker[w], j, g)' <=> Waits(worker[w], j, g)
        /\ WaitIsOver(worker[w], j, g)' <=> WaitIsOver(worker[w], j, g)
  BY <1>6, <1>7, <1>8
<1>10. \A j, g : /\ Waits(rt, j, g)' <=> Waits(rt, j, g)
                 /\ WaitIsOver(rt, j, g)' <=> WaitIsOver(rt, j, g)
                 /\ Returner(rt, j, g)' <=> Returner(rt, j, g)
  BY <1>1
<1>11. late[i] = {} => \A w \in Workers : ~Returner(worker[w], i, f)'
  BY <1>5, <1>6, <1>8 DEF Returner
<1> QED BY <1>1, <1>5, <1>9, <1>10, <1>11, ReturnedPool

(* The workers' other steps.                                               *)
LEMMA WorkerElsewhere ==
  ASSUME Typed, PoolInv, NEW w \in Workers, UNCHANGED <<pool, gpu, late, rt, tasks>>,
         worker[w].pc \notin {"wait", "return"},
         worker'[w].pc \notin {"wait", "return"},
         \A v \in Workers \ {w} : worker'[v] = worker[v]
  PROVE  PoolInv'
<1>1. \A i, f, t : TaskReturns(t, i, f)' <=> TaskReturns(t, i, f) BY DEF TaskReturns
<1>2. \A i, f : \A v \in Workers :
        /\ Waits(worker[v], i, f)' <=> Waits(worker[v], i, f)
        /\ WaitIsOver(worker[v], i, f)' <=> WaitIsOver(worker[v], i, f)
  BY DEF Waits, WaitIsOver
<1>3. \A i, f : /\ Waits(rt, i, f)' <=> Waits(rt, i, f)
                /\ WaitIsOver(rt, i, f)' <=> WaitIsOver(rt, i, f)
  OBVIOUS
<1> QED BY <1>1, <1>2, <1>3, PoolFrame

(* The steps of the others, outside of the waits of the render thread.     *)
LEMMA ThreadElsewhere ==
  ASSUME Typed, PoolInv, UNCHANGED <<pool, gpu, late, worker>>,
         \A t : t.op = "wait" => (t \in tasks' <=> t \in tasks),
         \/ rt' = rt
         \/ rt.pc \notin {"wait", "return"} /\ rt'.pc \notin {"wait", "return"}
  PROVE  PoolInv'
<1>1. \A i, f, t : TaskReturns(t, i, f)' <=> TaskReturns(t, i, f) BY DEF TaskReturns
<1>2. \A i, f : \A v \in Workers :
        /\ Waits(worker[v], i, f)' <=> Waits(worker[v], i, f)
        /\ WaitIsOver(worker[v], i, f)' <=> WaitIsOver(worker[v], i, f)
  OBVIOUS
<1>3. \A i, f : /\ Waits(rt, i, f)' <=> Waits(rt, i, f)
                /\ WaitIsOver(rt, i, f)' <=> WaitIsOver(rt, i, f)
  BY DEF Waits, WaitIsOver
<1> QED BY <1>1, <1>2, <1>3, PoolFrame

LEMMA LetGoElsewhere ==
  ASSUME Typed, NEW w \in Workers, LetGo(w)
  PROVE  /\ worker'[w].pc \notin {"wait", "return"}
         /\ \A v \in Workers \ {w} : worker'[v] = worker[v]
BY DEF LetGo, Typed, At, Idle

LEMMA PoolStep == Typed /\ PoolInv /\ [Next]_vars => PoolInv'
<1> SUFFICES ASSUME Typed, PoolInv, [Next]_vars PROVE PoolInv' OBVIOUS
<1>1. ASSUME NEW i \in Images, NEW q \in Queues, Present(i, q) PROVE PoolInv'
  BY <1>1, ThreadElsewhere DEF Present
<1>2. ASSUME NEW i \in Images, DestroyImage(i) PROVE PoolInv'
  BY <1>2, ThreadElsewhere DEF DestroyImage
<1>3. CASE syncImageToColorBuffer BY <1>3, SubmitPool
<1>4. CASE destroyImageLocked
  <2>1. rt.pc = "idle" /\ rt'.pc \in {"idle", "teardown"}
    BY <1>4 DEF destroyImageLocked, mLockFree, Idle, At
  <2>2. UNCHANGED <<pool, gpu, late, worker, tasks>> BY <1>4 DEF destroyImageLocked
  <2> QED BY <2>1, <2>2, ThreadElsewhere
<1>5. CASE renderThreadWait BY <1>5, ThreadWaitPool
<1>6. CASE renderThreadReturn BY <1>6, ThreadReturnPool
<1>7. CASE renderThreadSignal
  BY <1>7, ThreadElsewhere DEF renderThreadSignal, Idle
<1>8. CASE renderThreadTeardown
  BY <1>8, ThreadElsewhere DEF renderThreadTeardown, Idle
<1>9. CASE triggerWaitVkQsriWithCompletionCallback
  <2>1. \A t : t.op = "wait" => (t \in tasks' <=> t \in tasks)
    BY <1>9 DEF triggerWaitVkQsriWithCompletionCallback, RegisterTask
  <2> QED BY <1>9, <2>1, ThreadElsewhere DEF triggerWaitVkQsriWithCompletionCallback
<1>10. ASSUME NEW w \in Workers, NEW t \in tasks, doSyncThreadCmd(w, t) PROVE PoolInv'
  BY <1>10, BeginPool
<1>11. ASSUME NEW w \in Workers, registerUnknownImage(w) PROVE PoolInv'
  <2>1. worker'[w] = Idle /\ \A v \in Workers \ {w} : worker'[v] = worker[v]
    BY <1>11 DEF registerUnknownImage, Typed
  <2> QED BY <1>11, <2>1, WorkerElsewhere DEF registerUnknownImage, Idle
<1>12. ASSUME NEW w \in Workers, registerLookup(w) PROVE PoolInv'
  <2>1. worker[w] \in [pc : Registers, task : RegisterTasks]
    BY <1>12 DEF registerLookup, Typed, Pooled, Returns, Registers, Idle
  <2>2. worker'[w].pc = "register" /\ \A v \in Workers \ {w} : worker'[v] = worker[v]
    BY <1>12, <2>1 DEF registerLookup, Typed
  <2> QED BY <1>12, <2>2, WorkerElsewhere DEF registerLookup
<1>13. ASSUME NEW w \in Workers, registerQsriCallback(w) PROVE PoolInv'
  BY <1>13, LetGoElsewhere, WorkerElsewhere DEF registerQsriCallback
<1>14. ASSUME NEW w \in Workers, waitForQsriFenceTask(w) PROVE PoolInv'
  BY <1>14, WorkerWaitPool
<1>15. ASSUME NEW w \in Workers, workerReturn(w) PROVE PoolInv'
  BY <1>15, WorkerReturnPool
<1>16. ASSUME NEW w \in Workers, workerSignal(w) PROVE PoolInv'
  BY <1>16, LetGoElsewhere, WorkerElsewhere DEF workerSignal
<1>17. ASSUME NEW w \in Workers, workerTeardown(w) PROVE PoolInv'
  <2>1. worker'[w] = Idle /\ \A v \in Workers \ {w} : worker'[v] = worker[v]
    BY <1>17 DEF workerTeardown, Typed
  <2> QED BY <1>17, <2>1, WorkerElsewhere DEF workerTeardown, Idle
<1>18. ASSUME NEW q \in Queues, Finish(q) PROVE PoolInv'
  BY <1>18, FinishPool
<1>19. CASE UNCHANGED vars BY <1>19, ThreadElsewhere DEF vars
<1> QED
  BY <1>1, <1>2, <1>3, <1>4, <1>5, <1>6, <1>7, <1>8, <1>9, <1>10, <1>11, <1>12,
     <1>13, <1>14, <1>15, <1>16, <1>17, <1>18, <1>19
  DEF Next, RenderThread, Worker

-----------------------------------------------------------------------------
(***************************************************************************)
(* The invariant, and what follows from it.                                *)
(***************************************************************************)
LEMMA InitTyped == Init => Typed
<1> SUFFICES ASSUME Init PROVE Typed OBVIOUS
<1>1. guest \in Guests /\ guest.decoded <= Len(guest.exports)
  <2>1. <<>> \in Seq(Calls) /\ <<>> \in Seq(Images) /\ Len(<<>>) = 0 OBVIOUS
  <2> QED BY <2>1 DEF Init, Guests
<1>2. pool \in [Images -> Pools] /\ \A i \in Images : IsFiniteSet(pool[i].used)
  <2>1. <<>> \in Seq(Nat) /\ IsFiniteSet({}) BY FS_EmptySet
  <2> QED BY <2>1 DEF Init, Pools
<1>3. timeline \in [Images -> Timelines] BY DEF Init, Timelines
<1>4. gpu \in Gpus
  <2>1. /\ [q \in Queues |-> <<>>] \in [Queues -> Seq(WaitTasks)]
        /\ [i \in Images |-> {}] \in [Images -> SUBSET Nat]
        /\ [i \in Images |-> {}] \in [Images -> SUBSET Queues]
    OBVIOUS
  <2> QED BY <2>1 DEF Init, Gpus
<1>5. rt \in Threads /\ worker \in [Workers -> Pooled] BY DEF Init, Threads, Pooled
<1>6. tasks = {} /\ called \in [Exports -> Nat] /\ late \in [Images -> SUBSET Nat]
  BY DEF Init
<1> QED BY <1>1, <1>2, <1>3, <1>4, <1>5, <1>6 DEF Typed

LEMMA InitInv == Init => IInv
<1> SUFFICES ASSUME Init PROVE IInv OBVIOUS
<1>1. Typed BY InitTyped
<1>2. /\ tasks = {} /\ rt.pc = "idle"
      /\ \A w \in Workers : worker[w].pc = "idle"
      /\ \A i \in Images : /\ timeline[i].pending = {}
                           /\ pool[i].available = <<>> /\ pool[i].used = {}
      /\ \A q \in Queues : gpu.queue[q] = <<>>
      /\ \A e \in Exports : called[e] = 0
  BY DEF Init, Idle
<1>3. ExportsInv
  <2> SUFFICES ASSUME NEW e \in Nat PROVE ExportInv(e) BY DEF ExportsInv
  <2>1. /\ \A t \in tasks : ~InTasks(t, e)
        /\ \A w \in Workers : ~AtWorker(w, e)
        /\ \A i \in Images : \A r \in timeline[i].pending : ~Pending(i, r, e)
    BY <1>2 DEF InTasks, AtWorker, Pending, Registers
  <2>2. InOnePlace(e) BY <2>1 DEF InOnePlace
  <2>3. ~Waiting(e) BY <2>1 DEF Waiting
  <2> QED BY <1>2, <2>2, <2>3 DEF ExportInv
<1>4. ASSUME NEW i \in Images PROVE FencesInv(i)
  <2>1. ToSet(pool[i].available) = {} /\ IsInjective(pool[i].available)
    BY <1>2 DEF ToSet, IsInjective
  <2>2. NumberedPool(pool[i]) BY <1>2, <2>1 DEF NumberedPool
  <2>3. ASSUME NEW f \in Nat PROVE FenceInv(i, f)
    <3>1. /\ \A t : ~TaskReturns(t, i, f)
          /\ \A w \in Workers : ~Returner(worker[w], i, f) /\ ~WaitIsOver(worker[w], i, f)
          /\ ~Returner(rt, i, f) /\ ~WaitIsOver(rt, i, f)
      BY <1>2 DEF TaskReturns, Returner, Waits, WaitIsOver
    <3>2. ~InUse(i, f) BY <3>1 DEF InUse
    <3>3. ReturnedOnce(i, f) BY <3>1 DEF ReturnedOnce
    <3>4. QueuedOnce(i, f) BY <1>2 DEF QueuedOnce, Submitted
    <3>5. SignaledWhenFree(i, f) BY <2>1, <3>1 DEF SignaledWhenFree
    <3> QED BY <1>2, <3>2, <3>3, <3>4, <3>5 DEF FenceInv
  <2> QED BY <2>2, <2>3 DEF FencesInv
<1> QED BY <1>1, <1>3, <1>4 DEF IInv, PoolInv

LEMMA NextInv == IInv /\ [Next]_vars => IInv'
BY TypedStep, ExportsStep, PoolStep DEF IInv

LEMMA Invariance == Spec => []IInv
BY InitInv, NextInv, PTL DEF Spec

(* No export is called back twice, in whatever order the workers take the  *)
(* requests and the presents, and although three pieces of the code call.  *)
THEOREM NoSecondCall == Spec => []CalledOnce
<1>1. IInv => CalledOnce
  <2> SUFFICES ASSUME IInv, NEW e \in Exports PROVE called[e] <= 1 BY DEF CalledOnce
  <2>1. e \in Nat BY DEF Exports
  <2>2. ExportInv(e) BY <2>1 DEF IInv, ExportsInv
  <2> QED BY <2>2 DEF ExportInv
<1> QED BY <1>1, Invariance, PTL

LEMMA OneReturning ==
  ASSUME NEW i \in Images, NEW f \in Nat, InUse(i, f), ReturnedOnce(i, f)
  PROVE  Cardinality({t \in Returning : t.image = i /\ t.fence = f}) = 1
<1> DEFINE S == {t \in Returning : t.image = i /\ t.fence = f}
<1>1. \A t : t \in S <=> \/ TaskReturns(t, i, f)
                         \/ \E w \in Workers : Returner(worker[w], i, f) /\ worker[w].task = t
                         \/ Returner(rt, i, f) /\ rt.task = t
  BY DEF Returning, TaskReturns, Returner, Waits, WaitIsOver, ForFence
<1> HIDE DEF S
<1>2. \E t : t \in S BY <1>1 DEF InUse
<1>3. \A t, u : t \in S /\ u \in S => t = u
  BY <1>1 DEF ReturnedOnce, TaskReturns
<1>4. PICK t : S = {t} BY <1>2, <1>3
<1>5. Cardinality(S) = 1 BY <1>4, FS_Singleton
<1> QED BY <1>5 DEF S

(* The pool hands out fences that are signalled and on no queue, and a     *)
(* fence in use comes back once, as long as no wait has timed out.         *)
THEOREM IdleFencesOnly == Spec => []PoolIdle
<1>1. IInv => PoolIdle
  <2> SUFFICES ASSUME IInv, NEW i \in Images, late[i] = {}
               PROVE  /\ ToSet(pool[i].available) \cap pool[i].used = {}
                      /\ IsInjective(pool[i].available)
                      /\ \A f \in ToSet(pool[i].available) : f \in gpu.signaled[i]
                      /\ \A s \in Submissions(i) : FenceAt(s) \in pool[i].used
                      /\ \A s, t \in Submissions(i) : FenceAt(s) = FenceAt(t) => s = t
                      /\ \A f \in pool[i].used :
                           Cardinality({t \in Returning : t.image = i /\ t.fence = f}) = 1
    BY DEF PoolIdle
  <2>1. NumberedPool(pool[i]) /\ \A f \in Nat : FenceInv(i, f)
    BY DEF IInv, PoolInv, FencesInv
  <2>2. /\ pool[i].available \in Seq(Nat) /\ pool[i].used \subseteq Nat
        /\ \A q \in Queues : gpu.queue[q] \in Seq(WaitTasks)
    BY DEF IInv, Typed, Pools, Gpus
  <2>3. ASSUME NEW f \in ToSet(pool[i].available) PROVE f \in gpu.signaled[i]
    <3>1. f \in Nat BY <2>2 DEF ToSet
    <3> QED BY <3>1, <2>1, <2>3 DEF FenceInv, SignaledWhenFree
  <2>4. ASSUME NEW s \in Submissions(i)
        PROVE  \E q \in Queues : \E k \in Nat :
                 /\ s = <<q, k>> /\ FenceAt(s) \in Nat /\ Submitted(q, k, i, FenceAt(s))
    <3>1. \E q \in Queues : \E k \in 1 .. Len(gpu.queue[q]) :
            s = <<q, k>> /\ gpu.queue[q][k].image = i
      BY DEF Submissions
    <3> PICK q \in Queues : \E k \in 1 .. Len(gpu.queue[q]) :
               s = <<q, k>> /\ gpu.queue[q][k].image = i
      BY <3>1
    <3>5. PICK k \in 1 .. Len(gpu.queue[q]) : s = <<q, k>> /\ gpu.queue[q][k].image = i
      OBVIOUS
    <3>2. gpu.queue[q] \in Seq(WaitTasks) BY <2>2
    <3>3. gpu.queue[q][k] \in WaitTasks BY <3>2
    <3>4. FenceAt(s) = gpu.queue[q][k].fence BY <3>5 DEF FenceAt
    <3> QED BY <3>5, <3>3, <3>4 DEF Submitted, ForFence, WaitTasks
  <2>5. ASSUME NEW s \in Submissions(i) PROVE FenceAt(s) \in pool[i].used
    BY <2>1, <2>4 DEF FenceInv, QueuedOnce
  <2>6. ASSUME NEW s \in Submissions(i), NEW t \in Submissions(i), FenceAt(s) = FenceAt(t)
        PROVE  s = t
    <3>1. PICK q \in Queues, k \in Nat :
            /\ s = <<q, k>> /\ FenceAt(s) \in Nat /\ Submitted(q, k, i, FenceAt(s))
      BY <2>4
    <3>2. PICK p \in Queues, j \in Nat :
            /\ t = <<p, j>> /\ Submitted(p, j, i, FenceAt(t))
      BY <2>4
    <3> QED BY <2>1, <2>6, <3>1, <3>2 DEF FenceInv, QueuedOnce
  <2>7. ASSUME NEW f \in pool[i].used
        PROVE  Cardinality({t \in Returning : t.image = i /\ t.fence = f}) = 1
    <3>1. f \in Nat BY <2>2
    <3> QED BY <3>1, <2>1, <2>7, OneReturning DEF FenceInv
  <2> QED BY <2>1, <2>3, <2>5, <2>6, <2>7 DEF NumberedPool
<1> QED BY <1>1, Invariance, PTL
=============================================================================
