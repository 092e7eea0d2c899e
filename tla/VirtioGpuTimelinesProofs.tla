---------------------- MODULE VirtioGpuTimelinesProofs ----------------------
(***************************************************************************)
(* Proofs about VirtioGpuTimelines, for every set of rings and fences, any *)
(* number of tasks and both callback modes.                                *)
(*                                                                         *)
(* Consistent is the strengthening that makes the invariants inductive.    *)
(* It is stated about values rather than about the variables, because an   *)
(* operation first changes a queue or a task and then polls: PollKeeps is  *)
(* applied to the state in between.                                        *)
(***************************************************************************)
EXTENDS VirtioGpuTimelines, SequenceTheorems, WellFoundedInduction, TLAPS

TaskRecord == [mRing : Rings, mHasCompleted : BOOLEAN]

Typed(n, T, Q, I, V, C) ==
  /\ n \in 0 .. MaxTasks
  /\ DOMAIN T \subseteq 0 .. n - 1
  /\ \A id \in DOMAIN T : T[id] \in TaskRecord
  /\ Q \in [Rings -> Seq(TimelineItem)]
  /\ I \in [Rings -> Seq(TimelineItem)]
  /\ V \in [Rings -> Seq(TimelineItem)]
  /\ C \subseteq 0 .. n - 1

\* A task is enqueued once, on one ring, under an id already handed out.
TasksDistinct(n, I) ==
  /\ \A r \in Rings : \A i \in 1 .. Len(I[r]) :
       IsTask(I[r][i]) => I[r][i].id \in 0 .. n - 1
  /\ \A r, s \in Rings : \A i \in 1 .. Len(I[r]), j \in 1 .. Len(I[s]) :
       IsTask(I[r][i]) /\ IsTask(I[s][j]) /\ I[r][i].id = I[s][j].id
         => r = s /\ i = j

Split(Q, I, V) == \A r \in Rings : I[r] = V[r] \o Q[r]

VisitedDone(V, C) ==
  \A r \in Rings : \A i \in 1 .. Len(V[r]) : IsTask(V[r][i]) => V[r][i].id \notin C

\* The map and the queues hold the same tasks, and the map knows their ring.
QueuedInMap(T, Q) ==
  \A r \in Rings : \A i \in 1 .. Len(Q[r]) :
    IsTask(Q[r][i]) => Q[r][i].id \in DOMAIN T /\ T[Q[r][i].id].mRing = r

MapInQueues(T, Q) ==
  \A id \in DOMAIN T :
    \E i \in 1 .. Len(Q[T[id].mRing]) : Q[T[id].mRing][i] = Task(id)

\* A live task is incomplete exactly while its callback is outstanding.
CallbacksLive(T, C) ==
  /\ C \subseteq DOMAIN T
  /\ \A id \in DOMAIN T : T[id].mHasCompleted <=> id \notin C

Consistent(n, T, Q, I, V, C) ==
  /\ Typed(n, T, Q, I, V, C)
  /\ TasksDistinct(n, I)
  /\ Split(Q, I, V)
  /\ VisitedDone(V, C)
  /\ QueuedInMap(T, Q)
  /\ MapInQueues(T, Q)
  /\ CallbacksLive(T, C)

IInv ==
  /\ Consistent(mNextId, mTaskIdToTask, mTimelineQueues, issued, visited, callbacks)
  /\ aborted = FALSE

-----------------------------------------------------------------------------
(***************************************************************************)
(* The loop of poll_locked stops at the first incomplete task.             *)
(***************************************************************************)
LEMMA FirstOf ==
  ASSUME NEW S \in SUBSET Nat, S # {}
  PROVE  \E i \in S : \A j \in S : i <= j
<1> DEFINE R == OpToRel(<, Nat)
<1>1. IsWellFoundedOn(R, Nat)
  BY NatLessThanWellFounded
<1>2. PICK i \in S : \A j \in S : ~(<<j, i>> \in R)
  BY <1>1, WFMin
<1>3. \A j \in Nat : <<j, i>> \in R <=> j < i
  BY DEF OpToRel
<1> HIDE DEF R
<1>4. \A j \in S : ~(j < i)
  <2>1. S \subseteq Nat
    OBVIOUS
  <2> QED BY <2>1, <1>2, <1>3, Zenon
<1> QED BY <1>4

LEMMA ItemFields ==
  ASSUME NEW item \in TimelineItem
  PROVE  /\ IsTask(item) \in BOOLEAN
         /\ IsTask(item) => item.id \in TaskIds /\ item = Task(item.id)
         /\ ~IsTask(item) => IsFence(item) /\ item.id \in Fences
BY DEF TimelineItem, IsTask, IsFence, Task, Fence

LEMMA CutStops ==
  ASSUME NEW q \in Seq(TimelineItem), NEW T
  PROVE  /\ Cut(q, T) \in 0 .. Len(q)
         /\ \A i \in 1 .. Cut(q, T) : ~Incomplete(q[i], T)
         /\ Cut(q, T) < Len(q) => Incomplete(q[Cut(q, T) + 1], T)
<1> DEFINE S == StopsAt(q, T)
<1>0. Len(q) \in Nat /\ S \in SUBSET (1 .. Len(q))
  BY LenProperties DEF StopsAt
<1>1. CASE S = {}
  BY <1>0, <1>1 DEF Cut, StopsAt
<1>2. CASE S # {}
  <2>1. \E i \in S : \A j \in S : i <= j
    BY <1>0, <1>2, FirstOf
  <2> DEFINE m == CHOOSE i \in S : \A j \in S : i <= j
  <2>2. m \in S /\ \A j \in S : m <= j
    BY <2>1
  <2>3. Cut(q, T) = m - 1
    BY <1>2 DEF Cut
  <2> HIDE DEF m
  <2>4. \A i \in 1 .. m - 1 : i \notin S
    BY <2>2, <1>0
  <2> QED BY <1>0, <2>2, <2>3, <2>4 DEF StopsAt
<1> QED BY <1>1, <1>2

LEMMA PassedKept ==
  ASSUME NEW q \in Seq(TimelineItem), NEW T
  PROVE  /\ Passed(q, T) \in Seq(TimelineItem)
         /\ Kept(q, T) \in Seq(TimelineItem)
         /\ Len(Passed(q, T)) = Cut(q, T)
         /\ Len(Kept(q, T)) = Len(q) - Cut(q, T)
         /\ \A i \in 1 .. Cut(q, T) : Passed(q, T)[i] = q[i]
         /\ \A i \in 1 .. Len(q) - Cut(q, T) : Kept(q, T)[i] = q[i + Cut(q, T)]
         /\ q = Passed(q, T) \o Kept(q, T)
<1> DEFINE c == Cut(q, T)
<1>1. c \in 0 .. Len(q) /\ Len(q) \in Nat
  BY CutStops, LenProperties
<1>2. \A i \in 1 .. Len(q) : q[i] \in TimelineItem
  BY ElementOfSeq
<1> HIDE DEF c
<1>3. /\ SubSeq(q, 1, c) \in Seq(TimelineItem)
      /\ Len(SubSeq(q, 1, c)) = c
      /\ \A i \in 1 .. c : SubSeq(q, 1, c)[i] = q[i]
  BY <1>1, <1>2, SubSeqProperties
<1>4. /\ SubSeq(q, c + 1, Len(q)) \in Seq(TimelineItem)
      /\ Len(SubSeq(q, c + 1, Len(q))) = Len(q) - c
      /\ \A i \in 1 .. Len(q) - c : SubSeq(q, c + 1, Len(q))[i] = q[i + c]
  BY <1>1, <1>2, SubSeqProperties
<1>5. SubSeq(q, 1, c) \o SubSeq(q, c + 1, Len(q)) = SubSeq(q, 1, Len(q))
  <2>1. 1 \in 1 .. Len(q) + 1 /\ c \in 1 - 1 .. Len(q) /\ Len(q) \in c .. Len(q)
    BY <1>1
  <2> QED BY <2>1, ConcatAdjacentSubSeq, Zenon
<1>6. SubSeq(q, 1, Len(q)) = q
  BY SubSeqFull
<1> QED BY <1>3, <1>4, <1>5, <1>6 DEF Passed, Kept, c

\* w is v followed by the first c elements of q.
Grown(v, w, q, c) ==
  /\ Len(w) = Len(v) + c
  /\ \A i \in 1 .. Len(v) : w[i] = v[i]
  /\ \A i \in 1 .. Len(v) + c :
       i > Len(v) => i - Len(v) \in 1 .. c /\ w[i] = q[i - Len(v)]

LEMMA VisitedGrows ==
  ASSUME NEW q \in Seq(TimelineItem), NEW v \in Seq(TimelineItem), NEW T
  PROVE  /\ v \o Passed(q, T) \in Seq(TimelineItem)
         /\ v \o q = (v \o Passed(q, T)) \o Kept(q, T)
         /\ Grown(v, v \o Passed(q, T), q, Cut(q, T))
<1> DEFINE p == Passed(q, T)
           k == Kept(q, T)
           c == Cut(q, T)
<1>1. /\ p \in Seq(TimelineItem) /\ k \in Seq(TimelineItem)
      /\ q = p \o k
      /\ Len(p) = c
      /\ \A i \in 1 .. c : p[i] = q[i]
  BY PassedKept
<1>2. Len(v) \in Nat /\ c \in Nat
  BY CutStops, LenProperties
<1> HIDE DEF p, k, c
<1>3. (v \o p) \o k = v \o (p \o k)
  <2>1. p \in Seq(TimelineItem) /\ k \in Seq(TimelineItem)
    BY <1>1
  <2> QED BY <2>1, ConcatAssociative
<1>4. /\ v \o p \in Seq(TimelineItem)
      /\ Len(v \o p) = Len(v) + Len(p)
      /\ \A i \in 1 .. Len(v) + Len(p) :
           (v \o p)[i] = IF i <= Len(v) THEN v[i] ELSE p[i - Len(v)]
  BY <1>1, ConcatProperties, Zenon
<1>5. \A i \in 1 .. Len(v) : (v \o p)[i] = v[i]
  BY <1>1, <1>2, <1>4
<1>6. \A i \in 1 .. Len(v) + c :
        i > Len(v) => i - Len(v) \in 1 .. c /\ (v \o p)[i] = q[i - Len(v)]
  BY <1>1, <1>2, <1>4
<1>7. Grown(v, v \o p, q, c)
  BY <1>1, <1>4, <1>5, <1>6 DEF Grown
<1> QED BY <1>1, <1>3, <1>4, <1>7, Zenon DEF p, k, c

LEMMA Shift ==
  ASSUME NEW a \in Nat, NEW b \in Nat, NEW k \in 1 .. b
  PROVE  a + k \in 1 .. a + b /\ ~(a + k <= a) /\ (a + k) - a = k
OBVIOUS

LEMMA ShiftBack ==
  ASSUME NEW n \in Nat, NEW c \in 0 .. n, NEW i \in 1 .. n - c
  PROVE  i + c \in 1 .. n /\ i + c > c
OBVIOUS

LEMMA NotBeyond ==
  ASSUME NEW n \in Nat, NEW c \in 0 .. n, NEW k \in 1 .. c
  PROVE  ~(k > c)
OBVIOUS

LEMMA SumBounds ==
  ASSUME NEW a \in Nat, NEW b \in Nat
  PROVE  a + b \in Nat /\ a <= a + b /\ a \in 0 .. a + b
OBVIOUS

LEMMA OneMore ==
  ASSUME NEW n \in Nat
  PROVE  /\ \A i \in 1 .. n : i \in 1 .. n + 1
         /\ \A i \in 1 .. n + 1 : i \in 1 .. n \/ i = n + 1
         /\ n + 1 \in 1 .. n + 1
OBVIOUS

LEMMA InPrefix ==
  ASSUME NEW a \in Nat, NEW b \in Nat, NEW i \in 1 .. a
  PROVE  i \in 1 .. a + b /\ i <= a
OBVIOUS

LEMMA ShiftDown ==
  ASSUME NEW n \in Nat, NEW c \in 0 .. n, NEW k \in 1 .. n, k \notin 1 .. c
  PROVE  k - c \in 1 .. n - c /\ (k - c) + c = k
OBVIOUS

-----------------------------------------------------------------------------
(***************************************************************************)
(* poll_locked keeps Consistent, from any state a method can reach just    *)
(* before it polls.                                                        *)
(***************************************************************************)
QueuesAfter(Q, T, P) ==
  [r \in Rings |-> IF r \in P THEN Kept(Q[r], T) ELSE Q[r]]
VisitedAfter(Q, T, V, P) ==
  [r \in Rings |-> IF r \in P THEN V[r] \o Passed(Q[r], T) ELSE V[r]]
TasksAfter(Q, T, P) ==
  [id \in DOMAIN T \ Erased(Q, T, P) |-> T[id]]

\* A task sits at one place of one queue.
LEMMA QueueDistinct ==
  ASSUME NEW n, NEW T, NEW Q, NEW I, NEW V, NEW C,
         Consistent(n, T, Q, I, V, C),
         NEW r \in Rings, NEW s \in Rings,
         NEW i \in 1 .. Len(Q[r]), NEW j \in 1 .. Len(Q[s]),
         IsTask(Q[r][i]), IsTask(Q[s][j]), Q[r][i].id = Q[s][j].id
  PROVE  r = s /\ i = j
<1>1. \A t \in Rings :
        /\ Q[t] \in Seq(TimelineItem) /\ V[t] \in Seq(TimelineItem)
        /\ I[t] = V[t] \o Q[t]
        /\ Len(Q[t]) \in Nat /\ Len(V[t]) \in Nat
  BY LenProperties DEF Consistent, Typed, Split
<1>2. \A t \in Rings : \A k \in 1 .. Len(Q[t]) :
        /\ Len(V[t]) + k \in 1 .. Len(I[t])
        /\ I[t][Len(V[t]) + k] = Q[t][k]
  <2> TAKE t \in Rings
  <2>0. Q[t] \in Seq(TimelineItem) /\ V[t] \in Seq(TimelineItem)
    BY <1>1
  <2>1. /\ Len(V[t] \o Q[t]) = Len(V[t]) + Len(Q[t])
        /\ \A k \in 1 .. Len(V[t]) + Len(Q[t]) :
             (V[t] \o Q[t])[k] = IF k <= Len(V[t]) THEN V[t][k] ELSE Q[t][k - Len(V[t])]
    BY <2>0, ConcatProperties, Zenon
  <2> TAKE k \in 1 .. Len(Q[t])
  <2>2. /\ Len(V[t]) + k \in 1 .. Len(V[t]) + Len(Q[t])
        /\ ~(Len(V[t]) + k <= Len(V[t]))
        /\ (Len(V[t]) + k) - Len(V[t]) = k
    <3>1. Len(V[t]) \in Nat /\ Len(Q[t]) \in Nat
      BY <1>1
    <3> QED BY <3>1, Shift
  <2>3. (V[t] \o Q[t])[Len(V[t]) + k] = Q[t][k]
    BY <2>1, <2>2
  <2> QED BY <1>1, <2>1, <2>2, <2>3, Zenon
<1>3. r = s /\ Len(V[r]) + i = Len(V[s]) + j
  <2>1. /\ Len(V[r]) + i \in 1 .. Len(I[r]) /\ I[r][Len(V[r]) + i] = Q[r][i]
        /\ Len(V[s]) + j \in 1 .. Len(I[s]) /\ I[s][Len(V[s]) + j] = Q[s][j]
    BY <1>2, Zenon
  <2>2. /\ IsTask(I[r][Len(V[r]) + i]) /\ IsTask(I[s][Len(V[s]) + j])
        /\ I[r][Len(V[r]) + i].id = I[s][Len(V[s]) + j].id
    BY <2>1, Zenon
  <2>3. TasksDistinct(n, I)
    BY DEF Consistent
  <2>4. \A x \in 1 .. Len(I[r]), y \in 1 .. Len(I[s]) :
          IsTask(I[r][x]) /\ IsTask(I[s][y]) /\ I[r][x].id = I[s][y].id => r = s /\ x = y
    BY <2>3, Zenon DEF TasksDistinct
  <2> DEFINE x == Len(V[r]) + i
             y == Len(V[s]) + j
  <2>5. /\ x \in 1 .. Len(I[r]) /\ y \in 1 .. Len(I[s])
        /\ IsTask(I[r][x]) /\ IsTask(I[s][y]) /\ I[r][x].id = I[s][y].id
    BY <2>1, <2>2
  <2> HIDE DEF x, y
  <2>6. r = s /\ x = y
    BY <2>4, <2>5, Zenon
  <2> QED BY <2>6 DEF x, y
<1>4. Len(V[r]) \in Nat
  BY <1>1
<1> QED BY <1>3, <1>4

\* What the loop passed is complete, so none of it is awaited by a callback.
LEMMA PassedIsDone ==
  ASSUME NEW n, NEW T, NEW Q, NEW I, NEW V, NEW C,
         Consistent(n, T, Q, I, V, C),
         NEW r \in Rings, NEW i \in 1 .. Cut(Q[r], T), IsTask(Q[r][i])
  PROVE  i \in 1 .. Len(Q[r]) /\ Q[r][i].id \notin C
<1>1. Q[r] \in Seq(TimelineItem)
  BY DEF Consistent, Typed
<1>2. Cut(Q[r], T) \in 0 .. Len(Q[r]) /\ Len(Q[r]) \in Nat /\ ~Incomplete(Q[r][i], T)
  BY <1>1, CutStops, LenProperties
<1>3. i \in 1 .. Len(Q[r])
  BY <1>2
<1>4. T[Q[r][i].id].mHasCompleted /\ Q[r][i].id \in DOMAIN T
  BY <1>2, <1>3 DEF Incomplete, Consistent, QueuedInMap
<1> QED BY <1>3, <1>4 DEF Consistent, CallbacksLive

\* item was in the queue of r, after the items a poll of P passes.
KeptFrom(Q, T, P, r, item) ==
  \E k \in 1 .. Len(Q[r]) : item = Q[r][k] /\ (r \in P => k > Cut(Q[r], T))

LEMMA PollKeeps ==
  ASSUME NEW n, NEW T, NEW Q, NEW I, NEW V, NEW C, NEW P \in SUBSET Rings,
         Consistent(n, T, Q, I, V, C)
  PROVE  Consistent(n, TasksAfter(Q, T, P), QueuesAfter(Q, T, P), I,
                    VisitedAfter(Q, T, V, P), C)
<1> DEFINE T2 == TasksAfter(Q, T, P)
           Q2 == QueuesAfter(Q, T, P)
           V2 == VisitedAfter(Q, T, V, P)
<1>1. \A r \in Rings :
        /\ Q[r] \in Seq(TimelineItem) /\ V[r] \in Seq(TimelineItem)
        /\ I[r] = V[r] \o Q[r]
        /\ Len(Q[r]) \in Nat /\ Len(V[r]) \in Nat
        /\ Cut(Q[r], T) \in 0 .. Len(Q[r])
  BY LenProperties, CutStops DEF Consistent, Typed, Split
<1>2. \A r \in P : Q2[r] = Kept(Q[r], T) /\ V2[r] = V[r] \o Passed(Q[r], T)
  BY DEF QueuesAfter, VisitedAfter
<1>3. \A r \in Rings \ P : Q2[r] = Q[r] /\ V2[r] = V[r]
  BY DEF QueuesAfter, VisitedAfter
<1>4. /\ DOMAIN T2 = DOMAIN T \ Erased(Q, T, P)
      /\ \A id \in DOMAIN T2 : T2[id] = T[id]
  BY DEF TasksAfter
<1> HIDE DEF T2, Q2, V2
<1>5. Typed(n, T2, Q2, I, V2, C)
  <2>1. \A r \in Rings : Q2[r] \in Seq(TimelineItem) /\ V2[r] \in Seq(TimelineItem)
    <3> TAKE r \in Rings
    <3>1. CASE r \in P
      <4>1. Q[r] \in Seq(TimelineItem) /\ V[r] \in Seq(TimelineItem)
        BY <1>1
      <4>2. Q2[r] = Kept(Q[r], T) /\ V2[r] = V[r] \o Passed(Q[r], T)
        BY <3>1, <1>2
      <4>3. Kept(Q[r], T) \in Seq(TimelineItem)
        BY <4>1, PassedKept, ZenonT(30)
      <4>4. V[r] \o Passed(Q[r], T) \in Seq(TimelineItem)
        BY <4>1, VisitedGrows, Zenon
      <4> QED BY <4>2, <4>3, <4>4, Zenon
    <3>2. CASE r \notin P
      BY <3>2, <1>1, <1>3
    <3> QED BY <3>1, <3>2
  <2>2. Q2 \in [Rings -> Seq(TimelineItem)] /\ V2 \in [Rings -> Seq(TimelineItem)]
    BY <2>1 DEF QueuesAfter, VisitedAfter, Q2, V2
  <2> QED BY <2>2, <1>4 DEF Typed, Consistent
<1>6. Split(Q2, I, V2)
  <2> SUFFICES ASSUME NEW r \in Rings PROVE I[r] = V2[r] \o Q2[r]
    BY DEF Split
  <2>1. CASE r \in P
    <3>1. Q[r] \in Seq(TimelineItem) /\ V[r] \in Seq(TimelineItem) /\ I[r] = V[r] \o Q[r]
      BY <1>1
    <3>2. Q2[r] = Kept(Q[r], T) /\ V2[r] = V[r] \o Passed(Q[r], T)
      BY <2>1, <1>2
    <3>3. V[r] \o Q[r] = (V[r] \o Passed(Q[r], T)) \o Kept(Q[r], T)
      BY <3>1, VisitedGrows, Zenon
    <3> QED BY <3>1, <3>2, <3>3, Zenon
  <2>2. CASE r \notin P
    BY <2>2, <1>1, <1>3
  <2> QED BY <2>1, <2>2
<1>7. VisitedDone(V2, C)
  <2> SUFFICES ASSUME NEW r \in Rings, NEW i \in 1 .. Len(V2[r]), IsTask(V2[r][i])
               PROVE  V2[r][i].id \notin C
    BY DEF VisitedDone
  <2>1. CASE r \notin P
    BY <2>1, <1>3 DEF Consistent, VisitedDone
  <2>2. CASE r \in P
    <3>1. Q[r] \in Seq(TimelineItem) /\ V[r] \in Seq(TimelineItem) /\ Len(V[r]) \in Nat
      BY <1>1
    <3>a. V2[r] = V[r] \o Passed(Q[r], T)
      BY <2>2, <1>2
    <3>b. Grown(V[r], V2[r], Q[r], Cut(Q[r], T))
      BY <3>a, <3>1, VisitedGrows, Zenon
    <3>2. /\ Len(V2[r]) = Len(V[r]) + Cut(Q[r], T)
          /\ \A k \in 1 .. Len(V[r]) : V2[r][k] = V[r][k]
          /\ \A k \in 1 .. Len(V[r]) + Cut(Q[r], T) :
               k > Len(V[r]) => /\ k - Len(V[r]) \in 1 .. Cut(Q[r], T)
                                /\ V2[r][k] = Q[r][k - Len(V[r])]
      BY <3>b, Zenon DEF Grown
    <3>3. CASE i <= Len(V[r])
      <4>1. i \in 1 .. Len(V[r]) /\ V2[r][i] = V[r][i]
        BY <3>1, <3>2, <3>3
      <4> QED BY <4>1 DEF Consistent, VisitedDone
    <3>4. CASE i > Len(V[r])
      <4>1. i - Len(V[r]) \in 1 .. Cut(Q[r], T) /\ V2[r][i] = Q[r][i - Len(V[r])]
        BY <3>2, <3>4
      <4>2. IsTask(Q[r][i - Len(V[r])])
        BY <4>1
      <4> QED BY <4>1, <4>2, PassedIsDone
    <3>5. i <= Len(V[r]) \/ i > Len(V[r])
      BY <3>1, <3>2, <1>1
    <3> QED BY <3>3, <3>4, <3>5
  <2> QED BY <2>1, <2>2
\* Where the items of a polled queue were before.
<1>8. \A r \in Rings : \A i \in 1 .. Len(Q2[r]) : KeptFrom(Q, T, P, r, Q2[r][i])
  <2> TAKE r \in Rings
  <2> TAKE i \in 1 .. Len(Q2[r])
  <2>1. CASE r \notin P
    BY <2>1, <1>3 DEF KeptFrom
  <2>2. CASE r \in P
    <3>1. Q[r] \in Seq(TimelineItem) /\ Q2[r] = Kept(Q[r], T)
      BY <2>2, <1>1, <1>2
    <3>2. /\ Len(Q2[r]) = Len(Q[r]) - Cut(Q[r], T)
          /\ \A j \in 1 .. Len(Q[r]) - Cut(Q[r], T) : Q2[r][j] = Q[r][j + Cut(Q[r], T)]
      BY <3>1, PassedKept, ZenonT(30)
    <3>3. i \in 1 .. Len(Q[r]) - Cut(Q[r], T)
      BY <3>2
    <3>4. Len(Q[r]) \in Nat /\ Cut(Q[r], T) \in 0 .. Len(Q[r])
      BY <1>1
    <3>5. /\ i + Cut(Q[r], T) \in 1 .. Len(Q[r])
          /\ i + Cut(Q[r], T) > Cut(Q[r], T)
      BY <3>3, <3>4, ShiftBack
    <3> QED BY <3>2, <3>3, <3>5, Zenon DEF KeptFrom
  <2> QED BY <2>1, <2>2
\* What poll_locked erased from the map, it passed in a polled queue.
<1>9. \A id \in Erased(Q, T, P) : \E r \in P : \E i \in 1 .. Cut(Q[r], T) :
        i \in 1 .. Len(Q[r]) /\ Q[r][i] = Task(id)
  <2> TAKE id \in Erased(Q, T, P)
  <2>1. PICK r \in P : Task(id) \in Items(Passed(Q[r], T))
    BY DEF Erased
  <2>2. Q[r] \in Seq(TimelineItem) /\ Cut(Q[r], T) \in 0 .. Len(Q[r]) /\ Len(Q[r]) \in Nat
    BY <1>1
  <2>3. PICK i \in 1 .. Len(Passed(Q[r], T)) : Passed(Q[r], T)[i] = Task(id)
    BY <2>1 DEF Items
  <2>a. /\ Len(Passed(Q[r], T)) = Cut(Q[r], T)
        /\ \A j \in 1 .. Cut(Q[r], T) : Passed(Q[r], T)[j] = Q[r][j]
    BY <2>2, PassedKept, ZenonT(30)
  <2>4. i \in 1 .. Cut(Q[r], T) /\ Q[r][i] = Task(id)
    BY <2>a, <2>3
  <2>5. i \in 1 .. Len(Q[r])
    BY <2>2, <2>4
  <2> QED BY <2>4, <2>5
<1>10. QueuedInMap(T2, Q2)
  <2> SUFFICES ASSUME NEW r \in Rings, NEW i \in 1 .. Len(Q2[r]), IsTask(Q2[r][i])
               PROVE  Q2[r][i].id \in DOMAIN T2 /\ T2[Q2[r][i].id].mRing = r
    BY DEF QueuedInMap
  <2>1. PICK k \in 1 .. Len(Q[r]) : Q2[r][i] = Q[r][k] /\ (r \in P => k > Cut(Q[r], T))
    BY <1>8, Zenon DEF KeptFrom
  <2> DEFINE id == Q[r][k].id
  <2>2. id \in DOMAIN T /\ T[id].mRing = r
    BY <2>1 DEF Consistent, QueuedInMap
  <2>3. ASSUME id \in Erased(Q, T, P) PROVE FALSE
    <3>1. PICK s \in P : \E j \in 1 .. Cut(Q[s], T) :
            j \in 1 .. Len(Q[s]) /\ Q[s][j] = Task(id)
      BY <2>3, <1>9
    <3>2. PICK j \in 1 .. Cut(Q[s], T) : j \in 1 .. Len(Q[s]) /\ Q[s][j] = Task(id)
      BY <3>1
    <3>3. IsTask(Q[s][j]) /\ Q[s][j].id = Q[r][k].id /\ IsTask(Q[r][k])
      BY <3>2, <2>1 DEF Task, IsTask
    <3>4. s = r /\ j = k
      BY <3>2, <3>3, QueueDistinct
    <3>5. Len(Q[r]) \in Nat /\ Cut(Q[r], T) \in 0 .. Len(Q[r])
      BY <1>1, Zenon
    <3>6. r \in P /\ k \in 1 .. Cut(Q[r], T)
      BY <3>4
    <3> QED BY <2>1, <3>5, <3>6, NotBeyond
  <2> QED BY <2>1, <2>2, <2>3, <1>4
<1>11. MapInQueues(T2, Q2)
  <2> SUFFICES ASSUME NEW id \in DOMAIN T2
               PROVE  \E i \in 1 .. Len(Q2[T[id].mRing]) : Q2[T[id].mRing][i] = Task(id)
    BY <1>4 DEF MapInQueues
  <2> DEFINE r == T[id].mRing
  <2>1. id \in DOMAIN T /\ id \notin Erased(Q, T, P) /\ r \in Rings
    BY <1>4 DEF Consistent, Typed, TaskRecord
  <2>2. PICK k \in 1 .. Len(Q[r]) : Q[r][k] = Task(id)
    BY <2>1 DEF Consistent, MapInQueues
  <2> HIDE DEF r
  <2>3. CASE r \notin P
    BY <2>1, <2>2, <2>3, <1>3 DEF r
  <2>4. CASE r \in P
    <3>1. /\ Q[r] \in Seq(TimelineItem) /\ Q2[r] = Kept(Q[r], T)
          /\ Len(Q[r]) \in Nat /\ Cut(Q[r], T) \in 0 .. Len(Q[r])
      BY <2>4, <2>1, <1>1, <1>2
    <3>2. /\ Len(Q2[r]) = Len(Q[r]) - Cut(Q[r], T)
          /\ \A j \in 1 .. Len(Q[r]) - Cut(Q[r], T) : Q2[r][j] = Q[r][j + Cut(Q[r], T)]
          /\ Len(Passed(Q[r], T)) = Cut(Q[r], T)
          /\ \A j \in 1 .. Cut(Q[r], T) : Passed(Q[r], T)[j] = Q[r][j]
      BY <3>1, PassedKept, ZenonT(30)
    <3>3. k \notin 1 .. Cut(Q[r], T)
      <4> SUFFICES ASSUME k \in 1 .. Cut(Q[r], T) PROVE FALSE
        OBVIOUS
      <4>1. Task(id) \in Items(Passed(Q[r], T))
        BY <2>2, <3>2, Zenon DEF Items
      <4> QED BY <4>1, <2>1, <2>4 DEF Erased
    <3>4. /\ k - Cut(Q[r], T) \in 1 .. Len(Q[r]) - Cut(Q[r], T)
          /\ (k - Cut(Q[r], T)) + Cut(Q[r], T) = k
      BY <3>1, <3>3, ShiftDown
    <3>5. Q2[r][k - Cut(Q[r], T)] = Task(id)
      BY <3>2, <3>4, <2>2
    <3> QED BY <3>2, <3>4, <3>5, Zenon DEF r
  <2> QED BY <2>3, <2>4
<1>12. CallbacksLive(T2, C)
  <2>1. \A id \in C : id \notin Erased(Q, T, P)
    <3> SUFFICES ASSUME NEW id \in C, id \in Erased(Q, T, P) PROVE FALSE
      OBVIOUS
    <3>1. PICK s \in P : \E j \in 1 .. Cut(Q[s], T) : Q[s][j] = Task(id)
      BY <1>9
    <3>2. PICK j \in 1 .. Cut(Q[s], T) : Q[s][j] = Task(id)
      BY <3>1
    <3>3. IsTask(Q[s][j]) /\ Q[s][j].id = id
      BY <3>2 DEF Task, IsTask
    <3> QED BY <3>3, PassedIsDone
  <2> QED BY <2>1, <1>4 DEF CallbacksLive, Consistent
<1>13. TasksDistinct(n, I)
  BY DEF Consistent
<1> QED BY <1>5, <1>6, <1>7, <1>10, <1>11, <1>12, <1>13 DEF Consistent, T2, Q2, V2

-----------------------------------------------------------------------------
(***************************************************************************)
(* Appending an item to one ring.                                          *)
(***************************************************************************)
AppendTo(Q, r, x) == [Q EXCEPT ![r] = Append(@, x)]

\* The items of A are those of Q at the same places, and x at the end of r.
Extends(A, Q, r, x) ==
  /\ \A s \in Rings : \A i \in 1 .. Len(Q[s]) : i \in 1 .. Len(A[s]) /\ A[s][i] = Q[s][i]
  /\ \A s \in Rings : \A i \in 1 .. Len(A[s]) :
       \/ i \in 1 .. Len(Q[s]) /\ A[s][i] = Q[s][i]
       \/ s = r /\ i = Len(Q[r]) + 1 /\ A[s][i] = x
  /\ Len(Q[r]) + 1 \in 1 .. Len(A[r]) /\ A[r][Len(Q[r]) + 1] = x

LEMMA AppendExtends ==
  ASSUME NEW Q \in [Rings -> Seq(TimelineItem)], NEW r \in Rings,
         NEW x \in TimelineItem
  PROVE  /\ AppendTo(Q, r, x) \in [Rings -> Seq(TimelineItem)]
         /\ AppendTo(Q, r, x)[r] = Append(Q[r], x)
         /\ \A s \in Rings \ {r} : AppendTo(Q, r, x)[s] = Q[s]
         /\ Extends(AppendTo(Q, r, x), Q, r, x)
<1> DEFINE A == AppendTo(Q, r, x)
<1>1. /\ A[r] = Append(Q[r], x)
      /\ \A s \in Rings \ {r} : A[s] = Q[s]
      /\ DOMAIN A = Rings
      /\ A = [s \in Rings |-> A[s]]
  BY Zenon DEF AppendTo
<1>2. /\ Append(Q[r], x) \in Seq(TimelineItem)
      /\ Len(Append(Q[r], x)) = Len(Q[r]) + 1
      /\ \A i \in 1 .. Len(Q[r]) : Append(Q[r], x)[i] = Q[r][i]
      /\ Append(Q[r], x)[Len(Q[r]) + 1] = x
  BY AppendProperties
<1> HIDE DEF A
<1>3. A \in [Rings -> Seq(TimelineItem)]
  <2>1. \A s \in Rings : A[s] \in Seq(TimelineItem)
    BY <1>1, <1>2, Zenon
  <2> QED BY <1>1, <2>1, Zenon
<1>4. \A s \in Rings : Len(Q[s]) \in Nat
  BY LenProperties
<1>5. \A s \in Rings : \A i \in 1 .. Len(Q[s]) : i \in 1 .. Len(A[s]) /\ A[s][i] = Q[s][i]
  <2> TAKE s \in Rings
  <2> TAKE i \in 1 .. Len(Q[s])
  <2>1. CASE s = r
    <3>1. A[s] = Append(Q[r], x) /\ i \in 1 .. Len(Q[r]) /\ Len(Q[r]) \in Nat
      BY <2>1, <1>1, <1>4
    <3> QED BY <2>1, <3>1, <1>2, OneMore, Zenon
  <2>2. CASE s # r
    BY <2>2, <1>1, Zenon
  <2> QED BY <2>1, <2>2
<1>6. \A s \in Rings : \A i \in 1 .. Len(A[s]) :
        \/ i \in 1 .. Len(Q[s]) /\ A[s][i] = Q[s][i]
        \/ s = r /\ i = Len(Q[r]) + 1 /\ A[s][i] = x
  <2> TAKE s \in Rings
  <2> TAKE i \in 1 .. Len(A[s])
  <2>1. CASE s = r
    <3>1. A[s] = Append(Q[r], x) /\ i \in 1 .. Len(Q[r]) + 1 /\ Len(Q[r]) \in Nat
      BY <2>1, <1>1, <1>2, <1>4
    <3>2. i \in 1 .. Len(Q[r]) \/ i = Len(Q[r]) + 1
      BY <3>1, OneMore
    <3> QED BY <2>1, <3>1, <3>2, <1>2, Zenon
  <2>2. CASE s # r
    BY <2>2, <1>1, Zenon
  <2> QED BY <2>1, <2>2
<1>7. Len(Q[r]) + 1 \in 1 .. Len(A[r]) /\ A[r][Len(Q[r]) + 1] = x
  BY <1>1, <1>2, <1>4, OneMore, Zenon
<1> QED BY <1>1, <1>3, <1>5, <1>6, <1>7, Zenon DEF A, Extends

LEMMA StillThere ==
  ASSUME NEW A, NEW Q, NEW r, NEW x, Extends(A, Q, r, x),
         NEW s \in Rings, NEW i \in 1 .. Len(Q[s])
  PROVE  i \in 1 .. Len(A[s]) /\ A[s][i] = Q[s][i]
BY Zenon DEF Extends

LEMMA OldOrNew ==
  ASSUME NEW A, NEW Q, NEW r, NEW x, Extends(A, Q, r, x),
         NEW s \in Rings, NEW i \in 1 .. Len(A[s])
  PROVE  \/ i \in 1 .. Len(Q[s]) /\ A[s][i] = Q[s][i]
         \/ s = r /\ i = Len(Q[r]) + 1 /\ A[s][i] = x
BY Zenon DEF Extends

LEMMA OldTask ==
  ASSUME NEW A, NEW Q, NEW r, NEW x, Extends(A, Q, r, x), ~IsTask(x),
         NEW s \in Rings, NEW i \in 1 .. Len(A[s]), IsTask(A[s][i])
  PROVE  i \in 1 .. Len(Q[s]) /\ A[s][i] = Q[s][i] /\ IsTask(Q[s][i])
<1>1. CASE i \in 1 .. Len(Q[s]) /\ A[s][i] = Q[s][i]
  BY <1>1
<1>2. CASE A[s][i] = x
  BY <1>2
<1> QED BY <1>1, <1>2, OldOrNew

LEMMA DistinctIds ==
  ASSUME NEW n, NEW I, TasksDistinct(n, I),
         NEW r \in Rings, NEW i \in 1 .. Len(I[r]), IsTask(I[r][i])
  PROVE  I[r][i].id \in 0 .. n - 1
BY Zenon DEF TasksDistinct

LEMMA DistinctPlaces ==
  ASSUME NEW n, NEW I, TasksDistinct(n, I),
         NEW r \in Rings, NEW i \in 1 .. Len(I[r]), IsTask(I[r][i]),
         NEW s \in Rings, NEW j \in 1 .. Len(I[s]), IsTask(I[s][j]),
         I[r][i].id = I[s][j].id
  PROVE  r = s /\ i = j
BY Zenon DEF TasksDistinct

LEMMA ItemsAssociative ==
  ASSUME NEW s \in Seq(TimelineItem), NEW t \in Seq(TimelineItem),
         NEW u \in Seq(TimelineItem)
  PROVE  (s \o t) \o u = s \o (t \o u)
BY ConcatAssociative

\* Appending the same item to the history and to the queue of a ring.
LEMMA AppendKeepsSplit ==
  ASSUME NEW Q \in [Rings -> Seq(TimelineItem)],
         NEW I \in [Rings -> Seq(TimelineItem)],
         NEW V \in [Rings -> Seq(TimelineItem)],
         NEW r \in Rings, NEW x \in TimelineItem, Split(Q, I, V)
  PROVE  Split(AppendTo(Q, r, x), AppendTo(I, r, x), V)
<1> SUFFICES ASSUME NEW s \in Rings
             PROVE  AppendTo(I, r, x)[s] = V[s] \o AppendTo(Q, r, x)[s]
  BY Zenon DEF Split
<1>1. I[s] = V[s] \o Q[s]
  BY Zenon DEF Split
<1>2. CASE s # r
  <2>1. AppendTo(I, r, x)[s] = I[s] /\ AppendTo(Q, r, x)[s] = Q[s]
    BY <1>2 DEF AppendTo
  <2> QED BY <1>1, <2>1, Zenon
<1>3. CASE s = r
  <2>1. AppendTo(I, r, x)[r] = Append(I[r], x) /\ AppendTo(Q, r, x)[r] = Append(Q[r], x)
    BY AppendExtends, Zenon
  <2>2. Q[r] \in Seq(TimelineItem) /\ V[r] \in Seq(TimelineItem) /\ I[r] \in Seq(TimelineItem)
    OBVIOUS
  <2>3. /\ Append(I[r], x) = I[r] \o <<x>>
        /\ Append(Q[r], x) = Q[r] \o <<x>>
    BY <2>2, AppendIsConcat, Zenon
  <2>4. <<x>> \in Seq(TimelineItem)
    OBVIOUS
  <2>5. (V[r] \o Q[r]) \o <<x>> = V[r] \o (Q[r] \o <<x>>)
    BY <2>2, <2>4, ItemsAssociative, Zenon
  <2> QED BY <1>1, <1>3, <2>1, <2>3, <2>5, Zenon
<1> QED BY <1>2, <1>3

LEMMA HistoryOfVisited ==
  ASSUME NEW Q \in [Rings -> Seq(TimelineItem)],
         NEW I \in [Rings -> Seq(TimelineItem)],
         NEW V \in [Rings -> Seq(TimelineItem)],
         Split(Q, I, V), NEW r \in Rings, NEW i \in 1 .. Len(V[r])
  PROVE  i \in 1 .. Len(I[r]) /\ I[r][i] = V[r][i]
<1>1. Q[r] \in Seq(TimelineItem) /\ V[r] \in Seq(TimelineItem) /\ I[r] = V[r] \o Q[r]
  BY DEF Split
<1>2. /\ Len(V[r] \o Q[r]) = Len(V[r]) + Len(Q[r])
      /\ \A k \in 1 .. Len(V[r]) + Len(Q[r]) :
           (V[r] \o Q[r])[k] = IF k <= Len(V[r]) THEN V[r][k] ELSE Q[r][k - Len(V[r])]
  BY <1>1, ConcatProperties, Zenon
<1>3. Len(V[r]) \in Nat /\ Len(Q[r]) \in Nat
  BY <1>1, LenProperties, Zenon
<1>4. i \in 1 .. Len(V[r]) + Len(Q[r]) /\ i <= Len(V[r])
  BY <1>3, InPrefix
<1> QED BY <1>1, <1>2, <1>4

LEMMA FenceKeeps ==
  ASSUME NEW n, NEW T, NEW Q, NEW I, NEW V, NEW C,
         Consistent(n, T, Q, I, V, C),
         NEW r \in Rings, NEW f \in Fences
  PROVE  Consistent(n, T, AppendTo(Q, r, Fence(f)), AppendTo(I, r, Fence(f)), V, C)
<1> DEFINE x == Fence(f)
           Q2 == AppendTo(Q, r, x)
           I2 == AppendTo(I, r, x)
<1>1. x \in TimelineItem /\ ~IsTask(x)
  BY DEF TimelineItem, Fence, IsTask
<1>2. /\ Q \in [Rings -> Seq(TimelineItem)]
      /\ I \in [Rings -> Seq(TimelineItem)]
      /\ V \in [Rings -> Seq(TimelineItem)]
  BY DEF Consistent, Typed
<1> HIDE DEF x, Q2, I2
<1>3. /\ Q2 \in [Rings -> Seq(TimelineItem)] /\ I2 \in [Rings -> Seq(TimelineItem)]
      /\ Extends(Q2, Q, r, x) /\ Extends(I2, I, r, x)
  BY <1>1, <1>2, AppendExtends, Zenon DEF Q2, I2
<1>q. Extends(Q2, Q, r, x)
  BY <1>3
<1>i. Extends(I2, I, r, x)
  BY <1>3
<1>4. Typed(n, T, Q2, I2, V, C)
  BY <1>3 DEF Typed, Consistent
<1>5. TasksDistinct(n, I2)
  <2>0. TasksDistinct(n, I)
    BY DEF Consistent
  <2>1. ASSUME NEW s \in Rings, NEW i \in 1 .. Len(I2[s]), IsTask(I2[s][i])
        PROVE  /\ i \in 1 .. Len(I[s]) /\ I2[s][i] = I[s][i] /\ IsTask(I[s][i])
               /\ I2[s][i].id \in 0 .. n - 1
    <3>1. i \in 1 .. Len(I[s]) /\ I2[s][i] = I[s][i] /\ IsTask(I[s][i])
      BY <1>1, <1>i, <2>1, OldTask, Zenon
    <3>2. I[s][i].id \in 0 .. n - 1
      BY <2>0, <3>1, DistinctIds, Zenon
    <3> QED BY <3>1, <3>2
  <2>2. ASSUME NEW s \in Rings, NEW t \in Rings,
               NEW i \in 1 .. Len(I2[s]), NEW j \in 1 .. Len(I2[t]),
               IsTask(I2[s][i]), IsTask(I2[t][j]), I2[s][i].id = I2[t][j].id
        PROVE  s = t /\ i = j
    <3>1. i \in 1 .. Len(I[s]) /\ I2[s][i] = I[s][i] /\ IsTask(I[s][i])
      BY <2>1, <2>2
    <3>2. j \in 1 .. Len(I[t]) /\ I2[t][j] = I[t][j] /\ IsTask(I[t][j])
      BY <2>1, <2>2
    <3>3. I[s][i].id = I[t][j].id
      BY <2>2, <3>1, <3>2
    <3> QED BY <2>0, <3>1, <3>2, <3>3, DistinctPlaces, Zenon
  <2>3. \A s \in Rings : \A i \in 1 .. Len(I2[s]) :
          IsTask(I2[s][i]) => I2[s][i].id \in 0 .. n - 1
    BY <2>1
  <2> QED BY <2>3, <2>2, Zenon DEF TasksDistinct
<1>6. Split(Q2, I2, V)
  BY <1>1, <1>2, AppendKeepsSplit, Zenon DEF Consistent, Q2, I2
<1>7. QueuedInMap(T, Q2)
  <2> SUFFICES ASSUME NEW s \in Rings, NEW i \in 1 .. Len(Q2[s]), IsTask(Q2[s][i])
               PROVE  Q2[s][i].id \in DOMAIN T /\ T[Q2[s][i].id].mRing = s
    BY Zenon DEF QueuedInMap
  <2>1. i \in 1 .. Len(Q[s]) /\ Q2[s][i] = Q[s][i] /\ IsTask(Q[s][i])
    BY <1>1, <1>q, OldTask, Zenon
  <2>2. Q[s][i].id \in DOMAIN T /\ T[Q[s][i].id].mRing = s
    BY <2>1, Zenon DEF Consistent, QueuedInMap
  <2> QED BY <2>1, <2>2
<1>8. MapInQueues(T, Q2)
  <2> SUFFICES ASSUME NEW id \in DOMAIN T
               PROVE  \E i \in 1 .. Len(Q2[T[id].mRing]) : Q2[T[id].mRing][i] = Task(id)
    BY DEF MapInQueues
  <2>1. T[id].mRing \in Rings
    BY DEF Consistent, Typed, TaskRecord
  <2>2. PICK i \in 1 .. Len(Q[T[id].mRing]) : Q[T[id].mRing][i] = Task(id)
    BY DEF Consistent, MapInQueues
  <2>3. i \in 1 .. Len(Q2[T[id].mRing]) /\ Q2[T[id].mRing][i] = Q[T[id].mRing][i]
    BY <1>q, <2>1, StillThere
  <2> QED BY <2>2, <2>3
<1> QED BY <1>4, <1>5, <1>6, <1>7, <1>8 DEF Consistent, x, Q2, I2

LEMMA TaskKeeps ==
  ASSUME NEW n, NEW T, NEW Q, NEW I, NEW V, NEW C,
         Consistent(n, T, Q, I, V, C), n < MaxTasks,
         NEW r \in Rings
  PROVE  Consistent(n + 1,
                    WithTask(T, n, r),
                    AppendTo(Q, r, Task(n)), AppendTo(I, r, Task(n)), V,
                    C \cup {n})
<1> DEFINE x == Task(n)
           T2 == WithTask(T, n, r)
           Q2 == AppendTo(Q, r, x)
           I2 == AppendTo(I, r, x)
<1>0. n \in Nat /\ n + 1 \in 0 .. MaxTasks /\ n \in TaskIds /\ n \notin 0 .. n - 1
      /\ n \in 0 .. (n + 1) - 1 /\ 0 .. n - 1 \subseteq 0 .. (n + 1) - 1
  BY MaxTasksAssumption DEF Consistent, Typed, TaskIds
<1>1. x \in TimelineItem /\ IsTask(x) /\ x.id = n
  BY <1>0 DEF TimelineItem, Task, IsTask
<1>2. /\ Q \in [Rings -> Seq(TimelineItem)]
      /\ I \in [Rings -> Seq(TimelineItem)]
      /\ V \in [Rings -> Seq(TimelineItem)]
      /\ DOMAIN T \subseteq 0 .. n - 1
      /\ C \subseteq 0 .. n - 1
  BY DEF Consistent, Typed
<1>3. /\ DOMAIN T2 = DOMAIN T \cup {n}
      /\ T2[n] = [mRing |-> r, mHasCompleted |-> FALSE]
      /\ \A id \in DOMAIN T : id # n /\ T2[id] = T[id]
  <2>1. n \notin DOMAIN T
    BY <1>0, <1>2
  <2> QED BY <2>1 DEF WithTask
<1> HIDE DEF x, Q2, I2, T2
<1>4. /\ Q2 \in [Rings -> Seq(TimelineItem)] /\ I2 \in [Rings -> Seq(TimelineItem)]
      /\ Extends(Q2, Q, r, x) /\ Extends(I2, I, r, x)
  BY <1>1, <1>2, AppendExtends, Zenon DEF Q2, I2
<1>q. Extends(Q2, Q, r, x)
  BY <1>4
<1>i. Extends(I2, I, r, x)
  BY <1>4
<1>5. Typed(n + 1, T2, Q2, I2, V, C \cup {n})
  <2>1. DOMAIN T2 \subseteq 0 .. (n + 1) - 1 /\ C \cup {n} \subseteq 0 .. (n + 1) - 1
    BY <1>0, <1>2, <1>3
  <2>2. \A id \in DOMAIN T2 : T2[id] \in TaskRecord
    <3>1. \A id \in DOMAIN T : T[id] \in TaskRecord
      BY DEF Typed, Consistent
    <3>2. [mRing |-> r, mHasCompleted |-> FALSE] \in TaskRecord
      BY DEF TaskRecord
    <3> QED BY <1>3, <3>1, <3>2
  <2> QED BY <1>0, <1>2, <1>4, <2>1, <2>2 DEF Typed
<1>6. TasksDistinct(n + 1, I2)
  <2>0. TasksDistinct(n, I)
    BY DEF Consistent
  <2>1. ASSUME NEW s \in Rings, NEW i \in 1 .. Len(I2[s]), IsTask(I2[s][i])
        PROVE  \/ /\ i \in 1 .. Len(I[s]) /\ I2[s][i] = I[s][i] /\ IsTask(I[s][i])
                  /\ I2[s][i].id \in 0 .. n - 1
               \/ s = r /\ i = Len(I[r]) + 1 /\ I2[s][i].id = n
    <3>1. CASE i \in 1 .. Len(I[s]) /\ I2[s][i] = I[s][i]
      <4>1. IsTask(I[s][i])
        BY <2>1, <3>1
      <4>2. I[s][i].id \in 0 .. n - 1
        BY <2>0, <3>1, <4>1, DistinctIds, Zenon
      <4> QED BY <3>1, <4>1, <4>2
    <3>2. CASE s = r /\ i = Len(I[r]) + 1 /\ I2[s][i] = x
      BY <3>2, <1>1
    <3>3. (i \in 1 .. Len(I[s]) /\ I2[s][i] = I[s][i]) \/ (s = r /\ i = Len(I[r]) + 1 /\ I2[s][i] = x)
      BY <1>i, OldOrNew
    <3> QED BY <3>1, <3>2, <3>3
  <2>2. ASSUME NEW s \in Rings, NEW i \in 1 .. Len(I2[s]), IsTask(I2[s][i])
        PROVE  I2[s][i].id \in 0 .. (n + 1) - 1
    BY <1>0, <2>1, <2>2
  <2>3. ASSUME NEW s \in Rings, NEW t \in Rings,
               NEW i \in 1 .. Len(I2[s]), NEW j \in 1 .. Len(I2[t]),
               IsTask(I2[s][i]), IsTask(I2[t][j]), I2[s][i].id = I2[t][j].id
        PROVE  s = t /\ i = j
    <3>1. CASE I2[s][i].id = n
      <4>1. I2[s][i].id \notin 0 .. n - 1 /\ I2[t][j].id \notin 0 .. n - 1
        BY <1>0, <2>3, <3>1
      <4>2. s = r /\ i = Len(I[r]) + 1 /\ t = r /\ j = Len(I[r]) + 1
        BY <2>1, <2>3, <4>1, Zenon
      <4> QED BY <4>2
    <3>2. CASE I2[s][i].id # n
      <4>1. i \in 1 .. Len(I[s]) /\ I2[s][i] = I[s][i] /\ IsTask(I[s][i])
        BY <2>1, <2>3, <3>2
      <4>2. j \in 1 .. Len(I[t]) /\ I2[t][j] = I[t][j] /\ IsTask(I[t][j])
        BY <2>1, <2>3, <3>2
      <4>3. I[s][i].id = I[t][j].id
        BY <2>3, <4>1, <4>2
      <4> QED BY <2>0, <4>1, <4>2, <4>3, DistinctPlaces, Zenon
    <3> QED BY <3>1, <3>2
  <2> QED BY <2>2, <2>3, Zenon DEF TasksDistinct
<1>7. Split(Q2, I2, V)
  BY <1>1, <1>2, AppendKeepsSplit, Zenon DEF Consistent, Q2, I2
<1>8. VisitedDone(V, C \cup {n})
  <2> SUFFICES ASSUME NEW s \in Rings, NEW i \in 1 .. Len(V[s]), IsTask(V[s][i])
               PROVE  V[s][i].id \notin C \cup {n}
    BY Zenon DEF VisitedDone
  <2>1. V[s][i].id \notin C
    BY Zenon DEF Consistent, VisitedDone
  <2>2. i \in 1 .. Len(I[s]) /\ I[s][i] = V[s][i]
    BY <1>2, HistoryOfVisited, Zenon DEF Consistent
  <2>3. IsTask(I[s][i]) /\ TasksDistinct(n, I)
    BY <2>2 DEF Consistent
  <2>4. I[s][i].id \in 0 .. n - 1
    BY <2>2, <2>3, DistinctIds, Zenon
  <2> QED BY <1>0, <2>1, <2>2, <2>4
<1>9. QueuedInMap(T2, Q2)
  <2> SUFFICES ASSUME NEW s \in Rings, NEW i \in 1 .. Len(Q2[s]), IsTask(Q2[s][i])
               PROVE  Q2[s][i].id \in DOMAIN T2 /\ T2[Q2[s][i].id].mRing = s
    BY Zenon DEF QueuedInMap
  <2>1. CASE i \in 1 .. Len(Q[s]) /\ Q2[s][i] = Q[s][i]
    <3>1. Q[s][i].id \in DOMAIN T /\ T[Q[s][i].id].mRing = s
      BY <2>1, Zenon DEF Consistent, QueuedInMap
    <3> QED BY <2>1, <3>1, <1>3
  <2>2. CASE s = r /\ Q2[s][i] = x
    BY <2>2, <1>1, <1>3
  <2>3. \/ i \in 1 .. Len(Q[s]) /\ Q2[s][i] = Q[s][i]
        \/ s = r /\ Q2[s][i] = x
    BY <1>q, OldOrNew
  <2> QED BY <2>1, <2>2, <2>3, Zenon
<1>10. MapInQueues(T2, Q2)
  <2> SUFFICES ASSUME NEW id \in DOMAIN T2
               PROVE  \E i \in 1 .. Len(Q2[T2[id].mRing]) : Q2[T2[id].mRing][i] = Task(id)
    BY Zenon DEF MapInQueues
  <2>1. CASE id = n
    <3>1. T2[id].mRing = r
      BY <2>1, <1>3
    <3> QED BY <2>1, <3>1, <1>4, Zenon DEF Extends, x
  <2>2. CASE id \in DOMAIN T
    <3>1. T2[id] = T[id] /\ T[id].mRing \in Rings
      BY <2>2, <1>3 DEF Consistent, Typed, TaskRecord
    <3>2. PICK i \in 1 .. Len(Q[T[id].mRing]) : Q[T[id].mRing][i] = Task(id)
      BY <2>2 DEF Consistent, MapInQueues
    <3>3. i \in 1 .. Len(Q2[T[id].mRing]) /\ Q2[T[id].mRing][i] = Q[T[id].mRing][i]
      BY <3>1, <1>q, StillThere
    <3>4. Q2[T[id].mRing][i] = Task(id) /\ T2[id].mRing = T[id].mRing
      BY <3>1, <3>2, <3>3
    <3> QED BY <3>3, <3>4
  <2> QED BY <2>1, <2>2, <1>3, Zenon
<1>11. CallbacksLive(T2, C \cup {n})
  BY <1>2, <1>3 DEF CallbacksLive, Consistent
<1> QED BY <1>5, <1>6, <1>7, <1>8, <1>9, <1>10, <1>11 DEF Consistent, x, Q2, I2, T2

\* mHasCompleted is set and the callback is used up, before polling.
LEMMA CompletionKeeps ==
  ASSUME NEW n, NEW T, NEW Q, NEW I, NEW V, NEW C,
         Consistent(n, T, Q, I, V, C), NEW id \in C
  PROVE  Consistent(n, WithCompleted(T, id), Q, I, V, C \ {id})
<1> DEFINE T2 == WithCompleted(T, id)
<1>1. id \in DOMAIN T /\ \A t \in DOMAIN T : T[t] \in TaskRecord
  BY DEF Consistent, Typed, CallbacksLive
<1>2. /\ DOMAIN T2 = DOMAIN T
      /\ \A t \in DOMAIN T : T2[t] \in TaskRecord /\ T2[t].mRing = T[t].mRing
      /\ T2[id].mHasCompleted = TRUE
      /\ \A t \in DOMAIN T \ {id} : T2[t] = T[t]
  BY <1>1 DEF TaskRecord, WithCompleted
<1> HIDE DEF T2
<1>3. Typed(n, T2, Q, I, V, C \ {id})
  BY <1>2 DEF Typed, Consistent
<1>4. VisitedDone(V, C \ {id})
  BY DEF Consistent, VisitedDone
<1>5. QueuedInMap(T2, Q)
  BY <1>2, Zenon DEF Consistent, QueuedInMap
<1>6. MapInQueues(T2, Q)
  BY <1>2, Zenon DEF Consistent, MapInQueues
<1>7. CallbacksLive(T2, C \ {id})
  <2>1. /\ C \subseteq DOMAIN T
        /\ \A t \in DOMAIN T : T[t].mHasCompleted <=> t \notin C
    BY DEF Consistent, CallbacksLive
  <2> QED BY <1>2, <2>1, Zenon DEF CallbacksLive
<1> QED BY <1>3, <1>4, <1>5, <1>6, <1>7 DEF Consistent, T2

-----------------------------------------------------------------------------
(***************************************************************************)
(* The invariant.                                                          *)
(***************************************************************************)
LEMMA InitIInv == Init => IInv
<1> SUFFICES ASSUME Init PROVE IInv
  OBVIOUS
<1>1. Typed(mNextId, mTaskIdToTask, mTimelineQueues, issued, visited, callbacks)
  BY MaxTasksAssumption DEF Init, Typed
<1>2. \A r \in Rings : issued[r] = <<>> /\ mTimelineQueues[r] = <<>> /\ visited[r] = <<>>
  BY DEF Init
<1>3. \A r \in Rings : 1 .. Len(issued[r]) = {} /\ 1 .. Len(mTimelineQueues[r]) = {}
                         /\ 1 .. Len(visited[r]) = {}
  <2>1. 1 .. Len(<<>>) = {}
    OBVIOUS
  <2> QED BY <1>2, <2>1, Zenon
<1>4. DOMAIN mTaskIdToTask = {} /\ callbacks = {}
  BY DEF Init
<1>5. TasksDistinct(mNextId, issued)
  BY <1>3, Zenon DEF TasksDistinct
<1>6. Split(mTimelineQueues, issued, visited)
  <2>0. <<>> \in Seq(TimelineItem)
    OBVIOUS
  <2>1. <<>> \o <<>> = <<>>
    BY <2>0, ConcatEmptySeq, Zenon
  <2> QED BY <1>2, <2>1, Zenon DEF Split
<1>7. VisitedDone(visited, callbacks) /\ QueuedInMap(mTaskIdToTask, mTimelineQueues)
  BY <1>3, Zenon DEF VisitedDone, QueuedInMap
<1>8. MapInQueues(mTaskIdToTask, mTimelineQueues) /\ CallbacksLive(mTaskIdToTask, callbacks)
  BY <1>4 DEF MapInQueues, CallbacksLive
<1> QED BY <1>1, <1>5, <1>6, <1>7, <1>8 DEF IInv, Consistent, Init

\* With the invariant, a callback always finds its task.
LEMMA CallbackCanComplete ==
  ASSUME IInv, NEW id \in callbacks
  PROVE  CanComplete(id) /\ mTaskIdToTask[id].mRing \in Rings
<1>1. /\ CallbacksLive(mTaskIdToTask, callbacks)
      /\ \A t \in DOMAIN mTaskIdToTask : mTaskIdToTask[t] \in TaskRecord
  BY DEF IInv, Consistent, Typed
<1>2. id \in DOMAIN mTaskIdToTask /\ ~mTaskIdToTask[id].mHasCompleted
  BY <1>1 DEF CallbacksLive
<1> QED BY <1>1, <1>2 DEF CanComplete, TaskRecord

LEMMA NextIInv == IInv /\ [Next]_vars => IInv'
<1> SUFFICES ASSUME IInv, [Next]_vars PROVE IInv'
  OBVIOUS
<1>0. Consistent(mNextId, mTaskIdToTask, mTimelineQueues, issued, visited, callbacks)
  BY DEF IInv
<1>1. ASSUME NEW r \in Rings, enqueueTask(r) PROVE IInv'
  <2>1. Consistent(mNextId + 1, WithTask(mTaskIdToTask, mNextId, r),
                   AppendTo(mTimelineQueues, r, Task(mNextId)),
                   AppendTo(issued, r, Task(mNextId)), visited,
                   callbacks \cup {mNextId})
    BY <1>0, <1>1, TaskKeeps DEF enqueueTask
  <2> QED BY <1>1, <2>1 DEF enqueueTask, IInv, AppendTo
<1>2. ASSUME NEW r \in Rings, NEW f \in Fences, enqueueFence(r, f) PROVE IInv'
  <2> DEFINE Q == AppendTo(mTimelineQueues, r, Fence(f))
             I == AppendTo(issued, r, Fence(f))
             P == IF mWithAsyncCallback THEN {r} ELSE {}
  <2>1. Consistent(mNextId, mTaskIdToTask, Q, I, visited, callbacks)
    BY <1>0, FenceKeeps
  <2>2. /\ P \in SUBSET Rings
        /\ poll_locked(Q, mTaskIdToTask, P) /\ issued' = I
        /\ mNextId' = mNextId /\ callbacks' = callbacks /\ aborted' = aborted
    BY <1>2 DEF enqueueFence, AppendTo
  <2> HIDE DEF Q, I, P
  <2>3. Consistent(mNextId, TasksAfter(Q, mTaskIdToTask, P),
                   QueuesAfter(Q, mTaskIdToTask, P), I,
                   VisitedAfter(Q, mTaskIdToTask, visited, P), callbacks)
    BY <2>1, <2>2, PollKeeps
  <2> QED BY <2>2, <2>3 DEF poll_locked, IInv, QueuesAfter, VisitedAfter, TasksAfter
<1>3. ASSUME NEW id \in TaskIds, notifyTaskCompletion(id) PROVE IInv'
  <2> DEFINE T == WithCompleted(mTaskIdToTask, id)
             C == callbacks \ {id}
             P == IF mWithAsyncCallback THEN {mTaskIdToTask[id].mRing} ELSE {}
  <2>1. id \in callbacks /\ CanComplete(id) /\ mTaskIdToTask[id].mRing \in Rings
    BY <1>3, CallbackCanComplete DEF notifyTaskCompletion
  <2>2. Consistent(mNextId, T, mTimelineQueues, issued, visited, C)
    BY <1>0, <2>1, CompletionKeeps
  <2>3. /\ P \in SUBSET Rings
        /\ poll_locked(mTimelineQueues, T, P) /\ issued' = issued
        /\ mNextId' = mNextId /\ callbacks' = C /\ aborted' = FALSE
    BY <1>3, <2>1 DEF notifyTaskCompletion
  <2> HIDE DEF T, C, P
  <2>4. Consistent(mNextId, TasksAfter(mTimelineQueues, T, P),
                   QueuesAfter(mTimelineQueues, T, P), issued,
                   VisitedAfter(mTimelineQueues, T, visited, P), C)
    BY <2>2, <2>3, PollKeeps
  <2> QED BY <2>3, <2>4 DEF poll_locked, IInv, QueuesAfter, VisitedAfter, TasksAfter
<1>4. ASSUME poll PROVE IInv'
  <2>1. Consistent(mNextId, TasksAfter(mTimelineQueues, mTaskIdToTask, Rings),
                   QueuesAfter(mTimelineQueues, mTaskIdToTask, Rings), issued,
                   VisitedAfter(mTimelineQueues, mTaskIdToTask, visited, Rings),
                   callbacks)
    BY <1>0, PollKeeps
  <2> QED BY <1>4, <2>1 DEF poll, poll_locked, IInv, QueuesAfter, VisitedAfter, TasksAfter
<1>5. ASSUME NEW id \in TaskIds, loseCallback(id) PROVE IInv'
  BY <1>5 DEF loseCallback, IInv
<1>6. CASE UNCHANGED vars
  BY <1>6 DEF vars, IInv
<1> QED BY <1>1, <1>2, <1>3, <1>4, <1>5, <1>6 DEF Next

\* A timeline keeps the mode it was constructed with.
LEMMA ModeFixed == [Next]_vars => mWithAsyncCallback' = mWithAsyncCallback
BY DEF Next, vars, enqueueTask, enqueueFence, notifyTaskCompletion, loseCallback, poll

\* Only a callback that was registered and has not run can be lost.
LEMMA LostRegistered ==
  IInv /\ lost \subseteq callbacks /\ [Next]_vars => (lost \subseteq callbacks)'
BY DEF Next, vars, enqueueTask, enqueueFence, notifyTaskCompletion, loseCallback, poll

LEMMA AlwaysIInv == Spec => []IInv
BY InitIInv, NextIInv, PTL DEF Spec

-----------------------------------------------------------------------------
(***************************************************************************)
(* The results.                                                            *)
(***************************************************************************)

\* Ids, queues and map entries have the types the C++ declarations give them,
\* and no id is used before mNextId reaches it.
THEOREM TypeCorrect == Spec => []TypeOK
<1> DEFINE Mode == mWithAsyncCallback \in BOOLEAN /\ lost \subseteq callbacks
<1>1. Init => Mode
  BY DEF Init
<1>2. IInv /\ Mode /\ [Next]_vars => Mode'
  BY ModeFixed, LostRegistered
<1>3. IInv /\ Mode => TypeOK
  BY DEF IInv, Consistent, Typed, TypeOK, TaskRecord
<1> QED BY <1>1, <1>2, <1>3, AlwaysIInv, PTL DEF Spec

\* notifyTaskCompletion never reaches GFXSTREAM_ABORT: the id of an
\* outstanding callback is in mTaskIdToTask and not complete.
THEOREM CompletionNeverAborts == Spec => []NeverAborts
<1>1. IInv => NeverAborts
  BY DEF IInv, NeverAborts
<1> QED BY <1>1, AlwaysIInv, PTL

\* poll_locked visits each enqueued item once, in the order of its ring.
THEOREM InOrderOnce == Spec => []VisitedInOrderOnce
<1>1. IInv => VisitedInOrderOnce
  BY DEF IInv, Consistent, Split, VisitedInOrderOnce
<1> QED BY <1>1, AlwaysIInv, PTL

LEMMA IInvFenceAfterTasks == IInv => FenceAfterTasks
<1> SUFFICES ASSUME IInv, NEW r \in Rings, NEW i \in 1 .. Len(visited[r]),
                    IsTask(visited[r][i])
             PROVE  visited[r][i].id \in Completed
  BY DEF FenceAfterTasks
<1>1. visited[r][i].id \notin callbacks
  BY DEF IInv, Consistent, VisitedDone
<1>2. i \in 1 .. Len(issued[r]) /\ issued[r][i] = visited[r][i]
  BY HistoryOfVisited DEF IInv, Consistent, Typed
<1>3. issued[r][i].id \in 0 .. mNextId - 1
  BY <1>2, DistinctIds DEF IInv, Consistent
<1> QED BY <1>1, <1>2, <1>3 DEF Completed

\* A fence callback runs only after every earlier task of its ring completed.
THEOREM FencesWait == Spec => []FenceAfterTasks
BY IInvFenceAfterTasks, AlwaysIInv, PTL

\* mTaskIdToTask has exactly the tasks owned by a queue.
THEOREM MapIsExact == Spec => []MapMatchesQueues
<1>1. IInv => MapMatchesQueues
  <2> SUFFICES ASSUME IInv, NEW id \in TaskIds
               PROVE  id \in DOMAIN mTaskIdToTask
                        <=> \E r \in Rings : Task(id) \in Items(mTimelineQueues[r])
    BY DEF MapMatchesQueues
  <2>1. ASSUME id \in DOMAIN mTaskIdToTask
        PROVE  \E r \in Rings : Task(id) \in Items(mTimelineQueues[r])
    <3>1. mTaskIdToTask[id].mRing \in Rings
      BY <2>1 DEF IInv, Consistent, Typed, TaskRecord
    <3>2. Task(id) \in Items(mTimelineQueues[mTaskIdToTask[id].mRing])
      BY <2>1 DEF IInv, Consistent, MapInQueues, Items
    <3> QED BY <3>1, <3>2
  <2>2. ASSUME NEW r \in Rings, Task(id) \in Items(mTimelineQueues[r])
        PROVE  id \in DOMAIN mTaskIdToTask
    <3>1. PICK i \in 1 .. Len(mTimelineQueues[r]) : mTimelineQueues[r][i] = Task(id)
      BY <2>2 DEF Items
    <3>2. IsTask(Task(id)) /\ Task(id).id = id
      BY DEF IsTask, Task
    <3> QED BY <3>1, <3>2 DEF IInv, Consistent, QueuedInMap
  <2> QED BY <2>1, <2>2
<1> QED BY <1>1, AlwaysIInv, PTL

-----------------------------------------------------------------------------
(***************************************************************************)
(* With asynchronous callbacks, a non-empty queue starts with a running    *)
(* task.  Only the head matters: polling a ring leaves the task at which   *)
(* the loop broke, and the other operations change no other head.          *)
(***************************************************************************)
HeadRuns(Q, C, r) == Q[r] # <<>> => IsTask(Q[r][1]) /\ Q[r][1].id \in C

AllHeadsRun(Q, C) == mWithAsyncCallback => \A r \in Rings : HeadRuns(Q, C, r)

HeadsInv == AllHeadsRun(mTimelineQueues, callbacks)

LEMMA PolledHeadRuns ==
  ASSUME NEW n, NEW T, NEW Q, NEW I, NEW V, NEW C, Consistent(n, T, Q, I, V, C),
         NEW P \in SUBSET Rings, NEW r \in P
  PROVE  HeadRuns(QueuesAfter(Q, T, P), C, r)
<1> DEFINE q == Q[r]  c == Cut(q, T)  k == Kept(q, T)
<1>1. q \in Seq(TimelineItem) /\ r \in Rings
  BY DEF Consistent, Typed
<1>2. QueuesAfter(Q, T, P)[r] = k
  BY <1>1 DEF QueuesAfter
<1>3. c \in 0 .. Len(q) /\ Len(q) \in Nat
  BY <1>1, CutStops, LenProperties
<1>4. c < Len(q) => Incomplete(q[c + 1], T)
  BY <1>1, CutStops
<1>5. Len(k) = Len(q) - c /\ \A i \in 1 .. Len(q) - c : k[i] = q[c + i]
  BY <1>1, PassedKept
<1>6. ASSUME k # <<>> PROVE IsTask(k[1]) /\ k[1].id \in C
  <2>1. k \in Seq(TimelineItem)
    BY <1>1, PassedKept
  <2>2. Len(k) # 0 /\ Len(k) \in Nat
    BY <2>1, <1>6, EmptySeq, LenProperties
  <2>3. c < Len(q) /\ k[1] = q[c + 1] /\ c + 1 \in 1 .. Len(q)
    BY <1>3, <1>5, <2>2
  <2>4. IsTask(q[c + 1]) /\ ~T[q[c + 1].id].mHasCompleted
    BY <1>4, <2>3 DEF Incomplete
  <2>5. q[c + 1].id \in DOMAIN T
    BY <1>1, <2>3, <2>4 DEF Consistent, QueuedInMap
  <2>6. q[c + 1].id \in C
    BY <2>4, <2>5 DEF Consistent, CallbacksLive
  <2> QED BY <2>3, <2>4, <2>6
<1> QED BY <1>2, <1>6, Zenon DEF HeadRuns

\* Appending keeps a head; an empty ring gets the appended item as its head.
LEMMA HeadAfterAppend ==
  ASSUME NEW Q \in [Rings -> Seq(TimelineItem)], NEW r \in Rings,
         NEW x \in TimelineItem, NEW C, NEW D, C \subseteq D,
         NEW s \in Rings, HeadRuns(Q, C, s),
         s = r => IsTask(x) /\ x.id \in D
  PROVE  HeadRuns(AppendTo(Q, r, x), D, s)
<1>1. CASE s # r
  <2>1. AppendTo(Q, r, x)[s] = Q[s]
    BY <1>1 DEF AppendTo
  <2> QED BY <2>1 DEF HeadRuns
<1>2. CASE s = r
  <2>1. AppendTo(Q, r, x)[s] = Append(Q[s], x) /\ Q[s] \in Seq(TimelineItem)
    BY <1>2 DEF AppendTo
  <2>2. CASE Q[s] = <<>>
    <3>1. Append(Q[s], x)[1] = x
      BY <2>2
    <3> QED BY <1>2, <2>1, <3>1 DEF HeadRuns
  <2>3. CASE Q[s] # <<>>
    <3>1. Append(Q[s], x)[1] = Q[s][1]
      BY <2>1, <2>3
    <3> QED BY <2>1, <2>3, <3>1 DEF HeadRuns
  <2> QED BY <2>2, <2>3
<1> QED BY <1>1, <1>2

LEMMA NextHeads == IInv /\ HeadsInv /\ [Next]_vars => HeadsInv'
<1> SUFFICES ASSUME IInv, HeadsInv, [Next]_vars, mWithAsyncCallback, NEW s \in Rings
             PROVE  HeadRuns(mTimelineQueues', callbacks', s)
  BY ModeFixed, Zenon DEF HeadsInv, AllHeadsRun
<1>0. /\ Consistent(mNextId, mTaskIdToTask, mTimelineQueues, issued, visited, callbacks)
      /\ mTimelineQueues \in [Rings -> Seq(TimelineItem)]
      /\ HeadRuns(mTimelineQueues, callbacks, s)
  BY DEF IInv, Consistent, Typed, HeadsInv, AllHeadsRun
<1>1. ASSUME NEW r \in Rings, enqueueTask(r)
      PROVE  HeadRuns(mTimelineQueues', callbacks', s)
  <2>1. /\ mTimelineQueues' = AppendTo(mTimelineQueues, r, Task(mNextId))
        /\ callbacks' = callbacks \cup {mNextId} /\ mNextId < MaxTasks
    BY <1>1 DEF enqueueTask, AppendTo
  <2>2. mNextId \in TaskIds
    BY <2>1, <1>0, MaxTasksAssumption DEF Consistent, Typed, TaskIds
  <2>3. Task(mNextId) \in TimelineItem /\ IsTask(Task(mNextId)) /\ Task(mNextId).id = mNextId
    BY <2>2 DEF TimelineItem, Task, IsTask
  <2> QED BY <1>0, <2>1, <2>3, HeadAfterAppend
<1>2. ASSUME NEW r \in Rings, NEW f \in Fences, enqueueFence(r, f)
      PROVE  HeadRuns(mTimelineQueues', callbacks', s)
  <2> DEFINE Q == AppendTo(mTimelineQueues, r, Fence(f))
  <2>1. /\ mTimelineQueues' = QueuesAfter(Q, mTaskIdToTask, {r})
        /\ callbacks' = callbacks
    BY <1>2 DEF enqueueFence, poll_locked, AppendTo, QueuesAfter
  <2>2. CASE s = r
    <3>1. Consistent(mNextId, mTaskIdToTask, Q, AppendTo(issued, r, Fence(f)),
                     visited, callbacks)
      BY <1>0, FenceKeeps
    <3> HIDE DEF Q
    <3> QED BY <2>1, <2>2, <3>1, PolledHeadRuns
  <2>3. CASE s # r
    <3>1. mTimelineQueues'[s] = mTimelineQueues[s]
      BY <2>1, <2>3 DEF QueuesAfter, AppendTo
    <3> QED BY <1>0, <2>1, <3>1 DEF HeadRuns
  <2> QED BY <2>2, <2>3
<1>3. ASSUME NEW id \in TaskIds, notifyTaskCompletion(id)
      PROVE  HeadRuns(mTimelineQueues', callbacks', s)
  <2> DEFINE T == WithCompleted(mTaskIdToTask, id)
             r == mTaskIdToTask[id].mRing
             C == callbacks \ {id}
  <2>1. id \in callbacks /\ CanComplete(id) /\ r \in Rings
    BY <1>3, CallbackCanComplete DEF notifyTaskCompletion
  <2>2. /\ mTimelineQueues' = QueuesAfter(mTimelineQueues, T, {r})
        /\ callbacks' = C
    BY <1>3, <2>1 DEF notifyTaskCompletion, poll_locked, QueuesAfter
  <2>3. CASE s = r
    <3>1. Consistent(mNextId, T, mTimelineQueues, issued, visited, C)
      BY <1>0, <2>1, CompletionKeeps
    <3> HIDE DEF T, C
    <3> QED BY <2>1, <2>2, <2>3, <3>1, PolledHeadRuns
  <2>4. CASE s # r
    <3>1. mTimelineQueues'[s] = mTimelineQueues[s]
      BY <2>2, <2>4 DEF QueuesAfter
    <3>2. ASSUME mTimelineQueues[s] # <<>>
          PROVE  mTimelineQueues[s][1].id # id
      <4>1. mTimelineQueues[s] \in Seq(TimelineItem)
        BY <1>0
      <4>2. 1 \in 1 .. Len(mTimelineQueues[s])
        BY <3>2, <4>1
      <4>3. IsTask(mTimelineQueues[s][1])
        BY <1>0, <3>2 DEF HeadRuns
      <4>4. mTaskIdToTask[mTimelineQueues[s][1].id].mRing = s
        BY <1>0, <4>2, <4>3 DEF Consistent, QueuedInMap
      <4> QED BY <2>4, <4>4
    <3> QED BY <1>0, <2>2, <3>1, <3>2 DEF HeadRuns
  <2> QED BY <2>3, <2>4
<1>4. ~poll
  BY DEF poll
<1>5. ASSUME NEW id \in TaskIds, loseCallback(id)
      PROVE  HeadRuns(mTimelineQueues', callbacks', s)
  BY <1>0, <1>5 DEF loseCallback
<1>6. CASE UNCHANGED vars
  BY <1>0, <1>6 DEF vars
<1> QED BY <1>1, <1>2, <1>3, <1>4, <1>5, <1>6 DEF Next

\* With asynchronous callbacks no signalable fence is left in a queue when the
\* lock is released, although nobody polls.
THEOREM NothingLeft == Spec => []NothingSignalableLeft
<1>1. Init => HeadsInv
  BY DEF Init, HeadsInv, AllHeadsRun, HeadRuns
<1>2. Spec => []HeadsInv
  BY <1>1, NextHeads, AlwaysIInv, PTL DEF Spec
<1>3. HeadsInv => NothingSignalableLeft
  BY DEF HeadsInv, AllHeadsRun, HeadRuns, NothingSignalableLeft
<1> QED BY <1>2, <1>3, PTL

-----------------------------------------------------------------------------
(***************************************************************************)
(* Refinement of FenceTimeline.  passed and completed are state functions; *)
(* what has to be shown of a step is that both only grow and that the      *)
(* prefix that was passed holds no running task.                           *)
(***************************************************************************)
LEMMA CompletedGrows ==
  IInv /\ [Next]_vars => Completed \subseteq Completed' /\ Completed' \subseteq TaskIds
<1> SUFFICES ASSUME IInv, [Next]_vars
             PROVE  Completed \subseteq Completed' /\ Completed' \subseteq TaskIds
  OBVIOUS
<1>0. mNextId \in 0 .. MaxTasks /\ callbacks \subseteq 0 .. mNextId - 1
  BY DEF IInv, Consistent, Typed
<1>1. ASSUME NEW r \in Rings, enqueueTask(r)
      PROVE  Completed \subseteq Completed' /\ Completed' \subseteq TaskIds
  BY <1>0, <1>1, MaxTasksAssumption DEF enqueueTask, Completed, TaskIds
<1>2. ASSUME NEW r \in Rings, NEW f \in Fences, enqueueFence(r, f)
      PROVE  Completed \subseteq Completed' /\ Completed' \subseteq TaskIds
  BY <1>0, <1>2, MaxTasksAssumption DEF enqueueFence, Completed, TaskIds
<1>3. ASSUME NEW id \in TaskIds, notifyTaskCompletion(id)
      PROVE  Completed \subseteq Completed' /\ Completed' \subseteq TaskIds
  BY <1>0, <1>3, MaxTasksAssumption DEF notifyTaskCompletion, Completed, TaskIds
<1>4. CASE poll
  BY <1>0, <1>4, MaxTasksAssumption DEF poll, Completed, TaskIds
<1>5. ASSUME NEW id \in TaskIds, loseCallback(id)
      PROVE  Completed \subseteq Completed' /\ Completed' \subseteq TaskIds
  BY <1>0, <1>5, MaxTasksAssumption DEF loseCallback, Completed, TaskIds
<1>6. CASE UNCHANGED vars
  BY <1>0, <1>6, MaxTasksAssumption DEF vars, Completed, TaskIds
<1> QED BY <1>1, <1>2, <1>3, <1>4, <1>5, <1>6 DEF Next

\* poll_locked only appends to what was visited.
LEMMA VisitedAfterGrows ==
  ASSUME NEW n, NEW T, NEW Q, NEW I, NEW V, NEW C, Consistent(n, T, Q, I, V, C),
         NEW P \in SUBSET Rings, NEW r \in Rings
  PROVE  Len(V[r]) \in Nat /\ Len(V[r]) <= Len(VisitedAfter(Q, T, V, P)[r])
<1>1. V[r] \in Seq(TimelineItem) /\ Q[r] \in Seq(TimelineItem)
  BY DEF Consistent, Typed
<1>2. Len(V[r]) \in Nat
  BY <1>1, LenProperties
<1>3. Passed(Q[r], T) \in Seq(TimelineItem)
  BY <1>1, PassedKept
<1>4. Len(V[r] \o Passed(Q[r], T)) = Len(V[r]) + Len(Passed(Q[r], T))
      /\ Len(Passed(Q[r], T)) \in Nat
  BY <1>1, <1>3, ConcatProperties, LenProperties
<1>5. CASE r \in P
  <2>1. VisitedAfter(Q, T, V, P)[r] = V[r] \o Passed(Q[r], T)
    BY <1>5 DEF VisitedAfter
  <2>2. Len(V[r]) <= Len(V[r]) + Len(Passed(Q[r], T))
    BY <1>2, <1>4, SumBounds, Zenon
  <2> QED BY <1>2, <1>4, <2>1, <2>2, Zenon
<1>6. CASE r \notin P
  <2>1. VisitedAfter(Q, T, V, P)[r] = V[r]
    BY <1>6 DEF VisitedAfter
  <2> QED BY <1>2, <2>1
<1> QED BY <1>5, <1>6

LEMMA PassedGrows ==
  IInv /\ [Next]_vars =>
    \A r \in Rings : Len(visited[r]) \in Nat /\ Len(visited[r]) <= Len(visited'[r])
<1> SUFFICES ASSUME IInv, [Next]_vars, NEW s \in Rings
             PROVE  Len(visited[s]) \in Nat /\ Len(visited[s]) <= Len(visited'[s])
  OBVIOUS
<1>0. /\ Consistent(mNextId, mTaskIdToTask, mTimelineQueues, issued, visited, callbacks)
      /\ Len(visited[s]) \in Nat
  BY LenProperties DEF IInv, Consistent, Typed
<1>1. ASSUME NEW r \in Rings, enqueueTask(r) PROVE Len(visited[s]) <= Len(visited'[s])
  BY <1>0, <1>1 DEF enqueueTask
<1>2. ASSUME NEW r \in Rings, NEW f \in Fences, enqueueFence(r, f)
      PROVE  Len(visited[s]) <= Len(visited'[s])
  <2> DEFINE Q == AppendTo(mTimelineQueues, r, Fence(f))
             P == IF mWithAsyncCallback THEN {r} ELSE {}
  <2>1. Consistent(mNextId, mTaskIdToTask, Q, AppendTo(issued, r, Fence(f)),
                   visited, callbacks)
    BY <1>0, FenceKeeps
  <2>2. P \in SUBSET Rings /\ visited' = VisitedAfter(Q, mTaskIdToTask, visited, P)
    BY <1>2 DEF enqueueFence, poll_locked, VisitedAfter, AppendTo
  <2> HIDE DEF Q, P
  <2> QED BY <2>1, <2>2, VisitedAfterGrows
<1>3. ASSUME NEW id \in TaskIds, notifyTaskCompletion(id)
      PROVE  Len(visited[s]) <= Len(visited'[s])
  <2> DEFINE T == WithCompleted(mTaskIdToTask, id)
             P == IF mWithAsyncCallback THEN {mTaskIdToTask[id].mRing} ELSE {}
  <2>1. id \in callbacks /\ CanComplete(id) /\ mTaskIdToTask[id].mRing \in Rings
    BY <1>3, CallbackCanComplete DEF notifyTaskCompletion
  <2>2. Consistent(mNextId, T, mTimelineQueues, issued, visited, callbacks \ {id})
    BY <1>0, <2>1, CompletionKeeps
  <2>3. P \in SUBSET Rings /\ visited' = VisitedAfter(mTimelineQueues, T, visited, P)
    BY <1>3, <2>1 DEF notifyTaskCompletion, poll_locked, VisitedAfter
  <2> HIDE DEF T, P
  <2> QED BY <2>2, <2>3, VisitedAfterGrows
<1>4. CASE poll
  <2>1. visited' = VisitedAfter(mTimelineQueues, mTaskIdToTask, visited, Rings)
    BY <1>4 DEF poll, poll_locked, VisitedAfter
  <2> QED BY <1>0, <2>1, VisitedAfterGrows
<1>5. ASSUME NEW id \in TaskIds, loseCallback(id)
      PROVE  Len(visited[s]) <= Len(visited'[s])
  BY <1>0, <1>5 DEF loseCallback
<1>6. CASE UNCHANGED vars
  BY <1>0, <1>6 DEF vars
<1> QED BY <1>0, <1>1, <1>2, <1>3, <1>4, <1>5, <1>6 DEF Next

LEMMA SubmitsOne ==
  IInv /\ [Next]_vars =>
    \/ \E r \in Rings, item \in TimelineItem : Timeline!Submit(r, item)
    \/ UNCHANGED issued
<1> SUFFICES ASSUME IInv, [Next]_vars
             PROVE  \/ \E r \in Rings, item \in TimelineItem : Timeline!Submit(r, item)
                    \/ UNCHANGED issued
  OBVIOUS
<1>1. ASSUME NEW r \in Rings, enqueueTask(r)
      PROVE  \E item \in TimelineItem : Timeline!Submit(r, item)
  <2>1. mNextId \in TaskIds
    BY <1>1, MaxTasksAssumption DEF enqueueTask, IInv, Consistent, Typed, TaskIds
  <2>2. Task(mNextId) \in TimelineItem
    BY <2>1 DEF TimelineItem
  <2> QED BY <1>1, <2>2 DEF enqueueTask, Timeline!Submit
<1>2. ASSUME NEW r \in Rings, NEW f \in Fences, enqueueFence(r, f)
      PROVE  \E item \in TimelineItem : Timeline!Submit(r, item)
  <2>1. Fence(f) \in TimelineItem
    BY DEF TimelineItem
  <2> QED BY <1>2, <2>1 DEF enqueueFence, Timeline!Submit
<1>3. ASSUME NEW id \in TaskIds, notifyTaskCompletion(id) PROVE UNCHANGED issued
  BY <1>3 DEF notifyTaskCompletion
<1>4. CASE poll
  BY <1>4 DEF poll
<1>5. ASSUME NEW id \in TaskIds, loseCallback(id) PROVE UNCHANGED issued
  BY <1>5 DEF loseCallback
<1>6. CASE UNCHANGED vars
  BY <1>6 DEF vars
<1> QED BY <1>1, <1>2, <1>3, <1>4, <1>5, <1>6 DEF Next

ProgressDone ==
  \A r \in Rings :
    /\ Len(issued[r]) \in Nat
    /\ Len(visited[r]) \in 0 .. Len(issued[r])
    /\ \A i \in 1 .. Len(visited[r]) :
         IsTask(issued[r][i]) => issued[r][i].id \in Completed

LEMMA IInvProgressDone == IInv => ProgressDone
<1> SUFFICES ASSUME IInv, NEW r \in Rings
             PROVE  /\ Len(issued[r]) \in Nat
                    /\ Len(visited[r]) \in 0 .. Len(issued[r])
                    /\ \A i \in 1 .. Len(visited[r]) :
                         IsTask(issued[r][i]) => issued[r][i].id \in Completed
  BY DEF ProgressDone
<1>1. /\ issued[r] = visited[r] \o mTimelineQueues[r]
      /\ visited[r] \in Seq(TimelineItem) /\ mTimelineQueues[r] \in Seq(TimelineItem)
  BY DEF IInv, Consistent, Typed, Split
<1>2. /\ Len(issued[r]) = Len(visited[r]) + Len(mTimelineQueues[r])
      /\ Len(visited[r]) \in Nat /\ Len(mTimelineQueues[r]) \in Nat
  BY <1>1, ConcatProperties, LenProperties
<1>3. ASSUME NEW i \in 1 .. Len(visited[r]), IsTask(issued[r][i])
      PROVE  issued[r][i].id \in Completed
  <2>1. issued[r][i] = visited[r][i]
    BY HistoryOfVisited DEF IInv, Consistent, Typed
  <2> QED BY <1>3, <2>1, IInvFenceAfterTasks DEF FenceAfterTasks
<1>4. Len(issued[r]) \in Nat /\ Len(visited[r]) \in 0 .. Len(issued[r])
  <2>1. /\ Len(visited[r]) + Len(mTimelineQueues[r]) \in Nat
        /\ Len(visited[r]) \in 0 .. Len(visited[r]) + Len(mTimelineQueues[r])
    BY <1>2, SumBounds, Zenon
  <2> QED BY <1>2, <2>1, Zenon
<1> QED BY <1>3, <1>4

\* The host's timelines implement the abstract promise of a fence.
THEOREM RefinesTimeline == Spec => ImplementsTimeline
<1>1. Init => Timeline!Init
  <2> SUFFICES ASSUME Init PROVE Timeline!Init
    OBVIOUS
  <2>1. Completed = {}
    BY DEF Init, Completed
  <2>2. [r \in Rings |-> Len(visited[r])] = [r \in Rings |-> 0]
    BY DEF Init
  <2> QED BY <2>1, <2>2 DEF Init, Timeline!Init
<1>2. IInv /\ ProgressDone' /\ [Next]_vars => [Timeline!Next]_Timeline!vars
  <2> SUFFICES ASSUME IInv, ProgressDone', [Next]_vars PROVE Timeline!Next
    OBVIOUS
  <2>0. ProgressDone'
    OBVIOUS
  <2>1. Timeline!Item = TimelineItem
    BY DEF Timeline!Item, TimelineItem, Timeline!Task, Timeline!Fence, Task, Fence
  <2>2. \/ \E r \in Rings, item \in Timeline!Item : Timeline!Submit(r, item)
        \/ UNCHANGED issued
    BY <2>1, SubmitsOne
  <2>3. Timeline!Complete
    BY CompletedGrows DEF Timeline!Complete
  <2>4. ASSUME NEW r \in Rings
        PROVE  /\ Len(visited'[r]) \in Len(visited[r]) .. Len(issued'[r])
               /\ \A i \in 1 .. Len(visited'[r]) :
                    IsTask(issued'[r][i]) => issued'[r][i].id \in Completed'
    <3>1. Len(visited[r]) \in Nat /\ Len(visited[r]) <= Len(visited'[r])
      BY PassedGrows
    <3>2. /\ Len(issued'[r]) \in Nat /\ Len(visited'[r]) \in 0 .. Len(issued'[r])
          /\ \A i \in 1 .. Len(visited'[r]) :
               IsTask(issued'[r][i]) => issued'[r][i].id \in Completed'
      BY <2>0 DEF ProgressDone
    <3> QED BY <3>1, <3>2
  <2>5. Timeline!Advance
    BY <2>4 DEF Timeline!Advance, Timeline!IsTask, IsTask
  <2> QED BY <2>2, <2>3, <2>5 DEF Timeline!Next
<1>3. IInv => ProgressDone
  BY IInvProgressDone
<1> QED BY <1>1, <1>2, <1>3, AlwaysIInv, PTL DEF Spec, ImplementsTimeline, Timeline!Spec

=============================================================================
