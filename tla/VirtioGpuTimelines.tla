------------------------- MODULE VirtioGpuTimelines -------------------------
(***************************************************************************)
(* host/VirtioGpuTimelines.{h,cpp}: one list of tasks and fences per       *)
(* virtio-gpu ring.  The command thread appends; whichever thread finishes *)
(* a GPU task reports it; a fence is signalled, by calling its completion  *)
(* callback under mLock, once every earlier task of its ring is complete.  *)
(*                                                                         *)
(* Every public method holds mLock from its first line to its last, so one *)
(* method is one action.  issued, visited, callbacks and lost are not in   *)
(* the code: the first two record the history of a ring, callbacks holds   *)
(* the tasks whose completion callback the caller has not yet run (the     *)
(* renderer hands each one to at most one asynchronous wait), and lost     *)
(* those of them that no wait will ever run.                               *)
(***************************************************************************)
EXTENDS Naturals, Sequences

CONSTANTS
  Rings,               \* VirtioGpuRing values in use
  Fences,              \* fence ids, each created once by the guest driver
  MaxTasks             \* bound: number of tasks ever enqueued

ASSUME MaxTasksAssumption == MaxTasks \in Nat

VARIABLES
  mWithAsyncCallback, \* constructor argument; the renderer passes TRUE
  mNextId,          \* next TaskId
  mTaskIdToTask,    \* live TaskId -> Task (the weak_ptr cache)
  mTimelineQueues,  \* ring -> items not yet erased
  issued,           \* history: ring -> every item ever enqueued
  visited,          \* history: ring -> items poll_locked has passed, in order
  callbacks,        \* tasks whose completion callback has not run yet
  lost,             \* of those, the ones whose callback never runs
  aborted           \* GFXSTREAM_ABORT was reached

vars == <<mWithAsyncCallback, mNextId, mTaskIdToTask, mTimelineQueues, issued,
          visited, callbacks, lost, aborted>>

TaskIds == 0 .. MaxTasks - 1

Task(id)  == [kind |-> "task",  id |-> id]
Fence(id) == [kind |-> "fence", id |-> id]
TimelineItem == {Task(id) : id \in TaskIds} \cup {Fence(id) : id \in Fences}

IsTask(item)  == item.kind = "task"
IsFence(item) == item.kind = "fence"

Items(seq) == {seq[i] : i \in 1 .. Len(seq)}

TypeOK ==
  /\ mWithAsyncCallback \in BOOLEAN
  /\ mNextId \in 0 .. MaxTasks
  /\ DOMAIN mTaskIdToTask \subseteq 0 .. mNextId - 1
  /\ \A id \in DOMAIN mTaskIdToTask :
       mTaskIdToTask[id] \in [mRing : Rings, mHasCompleted : BOOLEAN]
  /\ mTimelineQueues \in [Rings -> Seq(TimelineItem)]
  /\ issued \in [Rings -> Seq(TimelineItem)]
  /\ visited \in [Rings -> Seq(TimelineItem)]
  /\ callbacks \subseteq 0 .. mNextId - 1
  /\ lost \subseteq callbacks
  /\ aborted \in BOOLEAN

Init ==
  /\ mWithAsyncCallback \in BOOLEAN
  /\ mNextId = 0
  /\ mTaskIdToTask = [id \in {} |-> {}]
  /\ mTimelineQueues = [r \in Rings |-> <<>>]
  /\ issued = [r \in Rings |-> <<>>]
  /\ visited = [r \in Rings |-> <<>>]
  /\ callbacks = {}
  /\ lost = {}
  /\ aborted = FALSE

-----------------------------------------------------------------------------
(***************************************************************************)
(* poll_locked.  The loop calls the callback of every fence it meets and   *)
(* breaks at the first incomplete task; everything before that is erased.  *)
(* Erasing a task drops the last owner of its shared_ptr, whose deleter    *)
(* removes the entry of mTaskIdToTask.                                     *)
(***************************************************************************)
Incomplete(item, tasks) == IsTask(item) /\ ~tasks[item.id].mHasCompleted

StopsAtNothing(queue, tasks) == {}   \* variant: the visitor returns false for a task

StopsAt(queue, tasks) ==
  {i \in 1 .. Len(queue) : Incomplete(queue[i], tasks)}

\* Number of items the loop walks over before it breaks.
Cut(queue, tasks) ==
  IF StopsAt(queue, tasks) = {}
    THEN Len(queue)
    ELSE (CHOOSE i \in StopsAt(queue, tasks) :
            \A j \in StopsAt(queue, tasks) : i <= j) - 1

\* Variant: the item at which the loop broke is erased too.
KeptAfterBreak(queue, tasks) == SubSeq(queue, Cut(queue, tasks) + 2, Len(queue))

Passed(queue, tasks) == SubSeq(queue, 1, Cut(queue, tasks))
Kept(queue, tasks)   == SubSeq(queue, Cut(queue, tasks) + 1, Len(queue))

ErasedNever(queues, tasks, polled) == {}   \* variant: a shared_ptr without the deleter

Erased(queues, tasks, polled) ==
  {id \in DOMAIN tasks :
     \E r \in polled : Task(id) \in Items(Passed(queues[r], tasks))}

\* The effect of poll_locked on every ring of polled, given the queues and
\* tasks the caller has just updated.
poll_locked(queues, tasks, polled) ==
  /\ mTimelineQueues' =
       [r \in Rings |-> IF r \in polled THEN Kept(queues[r], tasks)
                                        ELSE queues[r]]
  /\ visited' =
       [r \in Rings |-> IF r \in polled
                          THEN visited[r] \o Passed(queues[r], tasks)
                          ELSE visited[r]]
  /\ mTaskIdToTask' =
       [id \in DOMAIN tasks \ Erased(queues, tasks, polled) |-> tasks[id]]

-----------------------------------------------------------------------------
(***************************************************************************)
(* enqueueTask(ring).  The caller passes a completion callback for the new *)
(* id to the SyncThread or to the post worker.                             *)
(***************************************************************************)
WithTask(tasks, id, ring) ==
  [t \in DOMAIN tasks \cup {id} |->
     IF t = id THEN [mRing |-> ring, mHasCompleted |-> FALSE] ELSE tasks[t]]

\* Variant: the id is not advanced, so it is handed out again.
enqueueTaskSameId(ring) ==
  /\ ~aborted
  /\ mNextId < MaxTasks
  /\ mTaskIdToTask' = WithTask(mTaskIdToTask, mNextId, ring)
  /\ mTimelineQueues' = [mTimelineQueues EXCEPT ![ring] = Append(@, Task(mNextId))]
  /\ issued' = [issued EXCEPT ![ring] = Append(@, Task(mNextId))]
  /\ callbacks' = callbacks \cup {mNextId}
  /\ UNCHANGED <<mWithAsyncCallback, mNextId, visited, lost, aborted>>

enqueueTask(ring) ==
  /\ ~aborted
  /\ mNextId < MaxTasks
  /\ mNextId' = mNextId + 1
  /\ mTaskIdToTask' = WithTask(mTaskIdToTask, mNextId, ring)
  /\ mTimelineQueues' = [mTimelineQueues EXCEPT ![ring] = Append(@, Task(mNextId))]
  /\ issued' = [issued EXCEPT ![ring] = Append(@, Task(mNextId))]
  /\ callbacks' = callbacks \cup {mNextId}
  /\ UNCHANGED <<mWithAsyncCallback, visited, lost, aborted>>

\* The guest driver allocates a fence id once.
Fresh(fence) == \A r \in Rings : Fence(fence) \notin Items(issued[r])

\* Variant: the queue is not polled when a fence is added.
enqueueFenceNoPoll(ring, fence) ==
  /\ ~aborted
  /\ Fresh(fence)
  /\ issued' = [issued EXCEPT ![ring] = Append(@, Fence(fence))]
  /\ mTimelineQueues' = [mTimelineQueues EXCEPT ![ring] = Append(@, Fence(fence))]
  /\ UNCHANGED <<mWithAsyncCallback, mNextId, mTaskIdToTask, visited,
                 callbacks, lost, aborted>>

enqueueFence(ring, fence) ==
  /\ ~aborted
  /\ Fresh(fence)
  /\ issued' = [issued EXCEPT ![ring] = Append(@, Fence(fence))]
  /\ poll_locked([mTimelineQueues EXCEPT ![ring] = Append(@, Fence(fence))],
                 mTaskIdToTask,
                 IF mWithAsyncCallback THEN {ring} ELSE {})
  /\ UNCHANGED <<mWithAsyncCallback, mNextId, callbacks, lost, aborted>>

(***************************************************************************)
(* notifyTaskCompletion(id), run once by the holder of the callback.  The  *)
(* id must still be in the map and not be complete, else the host aborts.  *)
(***************************************************************************)
WithCompleted(tasks, id) ==
  [tasks EXCEPT ![id] = [mRing |-> @.mRing, mHasCompleted |-> TRUE]]

CanComplete(id) ==
  id \in DOMAIN mTaskIdToTask /\ ~mTaskIdToTask[id].mHasCompleted

notifyTaskCompletion(id) ==
  /\ ~aborted
  /\ id \in callbacks \ lost
  /\ callbacks' = callbacks \ {id}
  /\ aborted' = ~CanComplete(id)
  /\ IF CanComplete(id)
       THEN poll_locked(mTimelineQueues,
                        WithCompleted(mTaskIdToTask, id),
                        IF mWithAsyncCallback THEN {mTaskIdToTask[id].mRing}
                                              ELSE {})
       ELSE UNCHANGED <<mTaskIdToTask, mTimelineQueues, visited>>
  /\ UNCHANGED <<mWithAsyncCallback, mNextId, issued, lost>>

(***************************************************************************)
(* A callback that never runs.  FrameBuffer::asyncWaitForGpuWithCb, called *)
(* after the task was enqueued, returns without it when it does not know   *)
(* the sync object, and VkDecoderGlobalState::waitForFence waits without a *)
(* time-out for a fence to be submitted (VkDecoderGlobalState.cpp:4951).   *)
(***************************************************************************)
loseCallback(id) ==
  /\ ~aborted
  /\ id \in callbacks \ lost
  /\ lost' = lost \cup {id}
  /\ UNCHANGED <<mWithAsyncCallback, mNextId, mTaskIdToTask, mTimelineQueues,
                 issued, visited, callbacks, aborted>>

(***************************************************************************)
(* poll(), which visits every ring.  It is only legal without asynchronous *)
(* callbacks (the code aborts otherwise, and no caller does that).         *)
(***************************************************************************)
\* Variant: poll stops after the first ring of the map.
pollOneRing ==
  /\ ~aborted
  /\ ~mWithAsyncCallback
  /\ poll_locked(mTimelineQueues, mTaskIdToTask, {CHOOSE r \in Rings : TRUE})
  /\ UNCHANGED <<mWithAsyncCallback, mNextId, issued, callbacks, lost, aborted>>

poll ==
  /\ ~aborted
  /\ ~mWithAsyncCallback
  /\ poll_locked(mTimelineQueues, mTaskIdToTask, Rings)
  /\ UNCHANGED <<mWithAsyncCallback, mNextId, issued, callbacks, lost, aborted>>

Next ==
  \/ \E r \in Rings : enqueueTask(r)
  \/ \E r \in Rings, f \in Fences : enqueueFence(r, f)
  \/ \E id \in TaskIds : notifyTaskCompletion(id)
  \/ \E id \in TaskIds : loseCallback(id)
  \/ poll

(***************************************************************************)
(* SyncThread and the post worker run the callback of every wait that      *)
(* ends, also with a time-out or an error; a caller without asynchronous   *)
(* callbacks keeps polling.  A lost callback is owed nothing, and nothing  *)
(* makes the guest submit work.                                            *)
(***************************************************************************)
Fairness ==
  /\ \A id \in TaskIds : WF_vars(notifyTaskCompletion(id))
  /\ WF_vars(poll)

Spec == Init /\ [][Next]_vars /\ Fairness

-----------------------------------------------------------------------------
(***************************************************************************)
(* Properties                                                              *)
(***************************************************************************)

\* Tasks that were enqueued and whose completion was reported.
Completed == (0 .. mNextId - 1) \ callbacks

\* No legal schedule of enqueues, completions and polls reaches an abort of
\* notifyTaskCompletion: a task stays in mTaskIdToTask until its completion is
\* reported, although it is its queue entry that owns it.
NeverAborts == ~aborted

\* The visitor walks over every enqueued item once and in order: what was
\* visited, followed by what is queued, is what was enqueued.  So a fence
\* callback is called at most once, and fences of a ring are signalled in the
\* order in which they were enqueued.
VisitedInOrderOnce ==
  \A r \in Rings : issued[r] = visited[r] \o mTimelineQueues[r]

\* A fence is never signalled while a task enqueued before it on its ring is
\* still running.
FenceAfterTasks ==
  \A r \in Rings : \A i \in 1 .. Len(visited[r]) :
    IsTask(visited[r][i]) => visited[r][i].id \in Completed

\* The map has exactly the tasks that some queue owns: no entry leaks when a
\* task is erased and none disappears before.
MapMatchesQueues ==
  \A id \in TaskIds :
    id \in DOMAIN mTaskIdToTask
      <=> \E r \in Rings : Task(id) \in Items(mTimelineQueues[r])

\* With asynchronous callbacks nobody polls: after every call a non-empty
\* queue starts with a task that is still running, so no signalable fence is
\* left behind.
NothingSignalableLeft ==
  mWithAsyncCallback =>
    \A r \in Rings :
      mTimelineQueues[r] # <<>> =>
        /\ IsTask(Head(mTimelineQueues[r]))
        /\ Head(mTimelineQueues[r]).id \in callbacks

\* A task before the fence, on its own ring, whose callback never runs.
HeldUp(r, f) ==
  \E i, j \in 1 .. Len(issued[r]) :
    /\ i < j /\ issued[r][j] = Fence(f)
    /\ IsTask(issued[r][i]) /\ issued[r][i].id \in lost

\* Every fence is signalled in the end, unless the callback of a task before
\* it on its own ring is lost: then it never is.  What is lost behind it or on
\* another ring holds up no fence.
FencesSignalled ==
  \A f \in Fences : \A r \in Rings :
    Fence(f) \in Items(issued[r])
      ~> Fence(f) \in Items(visited[r]) \/ HeldUp(r, f)

\* The timelines implement what a fence promises.
Timeline == INSTANCE FenceTimeline WITH
  completed <- Completed,
  passed <- [r \in Rings |-> Len(visited[r])]

ImplementsTimeline == Timeline!Spec

=============================================================================
