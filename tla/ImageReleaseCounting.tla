------------------------ MODULE ImageReleaseCounting ------------------------
(***************************************************************************)
(* What the counters of a timeline count.  A present is in one place until *)
(* its timeline counts it: on the guest's stream, or with the one task     *)
(* that waits for it.  A request is counted once it was decoded, and the   *)
(* calls of an image that lives are no more than either.  So the fence of  *)
(* the n-th export of an image waits for n finished presents.              *)
(***************************************************************************)
EXTENDS ImageReleaseProofs

-----------------------------------------------------------------------------
(***************************************************************************)
(* The exports of an image: each goes with one present.                    *)
(***************************************************************************)
PresentsOf(i)   == {e \in Exported : ImageOf(e) = i}
PresentCount(i) == Cardinality(PresentsOf(i))
DecodedOf(i)    == {e \in Handed : ImageOf(e) = i}
CalledOf(i)     == {e \in DecodedOf(i) : called[e] > 0}

(***************************************************************************)
(* Where a present is before it is counted.                                *)
(***************************************************************************)
Streamed(k, i, n) == /\ k \in 1 .. Len(guest.stream)
                     /\ guest.stream[k].op = "present"
                     /\ guest.stream[k].image = i /\ guest.stream[k].nth = n
InStream(i, n)    == \E k \in Nat : Streamed(k, i, n)

Flight(at, by, t) == [at |-> at, by |-> by, task |-> t]
Flights ==
  {Flight("tasks", 0, t) : t \in {t \in tasks : t.op = "wait"}}
    \cup {Flight("worker", w, worker[w].task) : w \in {w \in Workers : worker[w].pc \in Returns}}
    \cup {Flight("rt", 0, s.task) : s \in {s \in {rt} : s.pc \in Returns}}
Flies(x, i, n) == x \in Flights /\ x.task.image = i /\ x.task.nth = n
Flying(i, n)   == \E x \in Flights : Flies(x, i, n)

Counted(i) == {n \in 1 .. PresentCount(i) : ~InStream(i, n) /\ ~Flying(i, n)}

-----------------------------------------------------------------------------
(***************************************************************************)
(* The invariant.                                                          *)
(***************************************************************************)
StreamInv(i) ==
  /\ \A k, n \in Nat : Streamed(k, i, n) => Created(pool[i]) < n /\ n <= PresentCount(i)
  /\ \A j, k, m, n \in Nat : Streamed(j, i, m) /\ Streamed(k, i, n) /\ j < k => m < n

FlightsInv(i) ==
  \A n \in Nat : Flying(i, n) =>
    n \in 1 .. PresentCount(i) /\ \A k, m \in Nat : Streamed(k, i, m) => n < m

FlightsUnique(i) == \A x, y, n : Flies(x, i, n) /\ Flies(y, i, n) => x = y

FencesCreated(i) ==
  /\ NumberedPool(pool[i])
  /\ Created(pool[i]) <= PresentCount(i)
  /\ 0 \notin ToSet(pool[i].available) \cup pool[i].used

PresentsInv(i) ==
  /\ StreamInv(i) /\ FlightsInv(i) /\ FlightsUnique(i) /\ FencesCreated(i)
  /\ timeline[i].presents <= Cardinality(Counted(i))

Unregistered(e) == \/ \E t \in tasks : InTasks(t, e)
                   \/ \E w \in Workers : AtWorker(w, e)
Registered(i)   == {e \in DecodedOf(i) : ~Unregistered(e)}

RequestsInv(i) ==
  /\ \A t \in tasks : t.op = "register" /\ t.image = i => t.export \in DecodedOf(i)
  /\ \A w \in Workers : worker[w].pc \in Registers /\ worker[w].task.image = i
                          => worker[w].task.export \in DecodedOf(i)
  /\ \A r \in timeline[i].pending : r.export \in DecodedOf(i)
                                    /\ r.count < timeline[i].requests
  /\ timeline[i].requests <= Cardinality(Registered(i))

(* The guest has not destroyed the image, nor has anyone its timeline.     *)
Alive(i) ==
  /\ i \in mImageInfo
  /\ \A k \in 1 .. Len(guest.stream) : guest.stream[k] # DestroyCall(i)
  /\ ~(rt.pc = "teardown" /\ rt.task.image = i)
  /\ \A w \in Workers : ~(worker[w].pc = "teardown" /\ worker[w].task.image = i)

CallsCounted(i) ==
  /\ Cardinality(CalledOf(i)) <= timeline[i].presents
  /\ Cardinality(CalledOf(i)) <= timeline[i].requests
  /\ \A r \in timeline[i].pending : timeline[i].presents <= r.count
  /\ \A r, s \in timeline[i].pending : r.count = s.count => r = s

CallsInv(i) ==
  /\ i \notin guest.destroyed => Alive(i) /\ CallsCounted(i)
  /\ i \in guest.destroyed \ guest.gaveUp => PresentsOf(i) = CalledOf(i)

(* A task that waits, and one whose wait is over.                          *)
Waited(t) == \/ t \in tasks /\ t.op = "wait"
             \/ \E w \in Workers : worker[w].pc = "wait" /\ worker[w].task = t
             \/ rt.pc = "wait" /\ rt.task = t
Over(t)   == \/ \E w \in Workers : worker[w].pc \in {"return", "signal"} /\ worker[w].task = t
             \/ rt.pc \in {"return", "signal"} /\ rt.task = t

FinishedInv(i) ==
  late[i] = {} =>
    /\ Counted(i) \subseteq gpu.finished[i]
    /\ \A t \in WaitTasks : Over(t) /\ t.image = i => t.nth \in gpu.finished[i]
    /\ \A t \in WaitTasks : Waited(t) /\ t.image = i =>
         /\ t.fence \in gpu.signaled[i] => t.nth \in gpu.finished[i]
         /\ \A q \in Queues, k \in Nat :
              Submitted(q, k, i, t.fence) => gpu.queue[q][k].nth = t.nth

(* What was submitted, finished or given up is a present of the image.     *)
RangeInv(i) ==
  /\ gpu.finished[i] \subseteq 1 .. PresentCount(i)
  /\ late[i] \subseteq 1 .. PresentCount(i)
  /\ \A q \in Queues, k \in Nat :
       k \in 1 .. Len(gpu.queue[q]) /\ gpu.queue[q][k].image = i
         => gpu.queue[q][k].nth \in 1 .. PresentCount(i)

ReadyInv(i) ==
  late[i] = {} /\ i \notin guest.gaveUp
    => Cardinality(CalledOf(i)) <= Cardinality(gpu.finished[i])

WithinBound == Len(guest.exports) <= MaxPresents /\ native \subseteq Images /\ mImageInfo \subseteq Images

CInv ==
  /\ WithinBound
  /\ \A i \in Images : /\ PresentsInv(i) /\ RequestsInv(i) /\ CallsInv(i)
                       /\ FinishedInv(i) /\ RangeInv(i) /\ ReadyInv(i)

-----------------------------------------------------------------------------
(***************************************************************************)
(* Lemmas about the exports of an image.                                   *)
(***************************************************************************)
LEMMA UpTo ==
  ASSUME NEW n \in Nat
  PROVE  IsFiniteSet(1 .. n) /\ Cardinality(1 .. n) = n
<1>1. /\ IsFiniteSet(1 .. n)
      /\ Cardinality(1 .. n) = IF 1 > n THEN 0 ELSE n - 1 + 1
  BY FS_Interval
<1>2. (IF 1 > n THEN 0 ELSE n - 1 + 1) = n BY SMT
<1> QED BY <1>1, <1>2

Sized(i) ==
  /\ IsFiniteSet(PresentsOf(i)) /\ PresentCount(i) \in Nat
  /\ PresentCount(i) <= Len(guest.exports)
  /\ IsFiniteSet(DecodedOf(i)) /\ Cardinality(DecodedOf(i)) \in Nat
  /\ DecodedOf(i) \subseteq PresentsOf(i)
  /\ Cardinality(DecodedOf(i)) <= PresentCount(i)
  /\ IsFiniteSet(CalledOf(i)) /\ Cardinality(CalledOf(i)) \in Nat
  /\ CalledOf(i) \subseteq DecodedOf(i)
  /\ IsFiniteSet(Registered(i)) /\ Cardinality(Registered(i)) \in Nat
  /\ Cardinality(Registered(i)) <= Cardinality(DecodedOf(i))
  /\ IsFiniteSet(Counted(i)) /\ Cardinality(Counted(i)) \in Nat
  /\ Cardinality(Counted(i)) <= PresentCount(i)

LEMMA Sizes == ASSUME Typed, NEW i PROVE Sized(i)
<1>1. /\ Len(guest.exports) \in Nat /\ guest.decoded \in Nat
      /\ guest.decoded <= Len(guest.exports)
  BY DEF Typed, Guests
<1>2. /\ IsFiniteSet(1 .. Len(guest.exports))
      /\ Cardinality(1 .. Len(guest.exports)) = Len(guest.exports)
  BY <1>1, UpTo
<1>3. PresentsOf(i) \subseteq 1 .. Len(guest.exports) BY DEF PresentsOf, Exported
<1>4. /\ IsFiniteSet(PresentsOf(i)) /\ PresentCount(i) \in Nat
      /\ PresentCount(i) <= Len(guest.exports)
  BY <1>2, <1>3, FS_Subset, FS_CardinalityType DEF PresentCount
<1>5. DecodedOf(i) \subseteq PresentsOf(i)
  BY <1>1 DEF DecodedOf, PresentsOf, Handed, Exported
<1>6. /\ IsFiniteSet(DecodedOf(i)) /\ Cardinality(DecodedOf(i)) \in Nat
      /\ Cardinality(DecodedOf(i)) <= PresentCount(i)
  BY <1>4, <1>5, FS_Subset, FS_CardinalityType DEF PresentCount
<1>7. CalledOf(i) \subseteq DecodedOf(i) /\ Registered(i) \subseteq DecodedOf(i)
  BY DEF CalledOf, Registered
<1>8. /\ IsFiniteSet(CalledOf(i)) /\ Cardinality(CalledOf(i)) \in Nat
      /\ IsFiniteSet(Registered(i)) /\ Cardinality(Registered(i)) \in Nat
      /\ Cardinality(Registered(i)) <= Cardinality(DecodedOf(i))
  BY <1>6, <1>7, FS_Subset, FS_CardinalityType
<1>9. /\ IsFiniteSet(1 .. PresentCount(i))
      /\ Cardinality(1 .. PresentCount(i)) = PresentCount(i)
  BY <1>4, UpTo
<1>10. Counted(i) \subseteq 1 .. PresentCount(i) BY DEF Counted
<1>11. /\ IsFiniteSet(Counted(i)) /\ Cardinality(Counted(i)) \in Nat
       /\ Cardinality(Counted(i)) <= PresentCount(i)
  BY <1>9, <1>10, FS_Subset, FS_CardinalityType
<1> QED BY <1>4, <1>5, <1>6, <1>7, <1>8, <1>11 DEF Sized

LEMMA AllSized == Typed => \A i : Sized(i)
BY Sizes

LEMMA AllSizedNext == Typed' => (\A i : Sized(i))'
BY AllSized, PTL

LEMMA SizesNext == ASSUME Typed', NEW i PROVE Sized(i)'
BY AllSizedNext

(* A present adds one export to its image.                                 *)
LEMMA PresentGrows ==
  ASSUME Typed, NEW i \in Images, NEW q \in Queues, Present(i, q)
  PROVE  /\ Len(guest'.exports) = Len(guest.exports) + 1
         /\ PresentCount(i)' = PresentCount(i) + 1
         /\ \A j \in Images : PresentCount(j) <= PresentCount(j)'
         /\ \A j \in Images : j # i => PresentsOf(j)' = PresentsOf(j)
         /\ \A j \in Images : j # i => PresentCount(j)' = PresentCount(j)
         /\ \A j \in Images : DecodedOf(j)' = DecodedOf(j)
<1>1. PICK n \in Nat, d \in Nat : n = Len(guest.exports) /\ d = guest.decoded /\ d <= n
  BY DEF Typed, Guests
<1>2. guest.exports \in Seq(Images) BY DEF Typed, Guests
<1>3. /\ guest'.exports = Append(guest.exports, i) /\ guest'.decoded = guest.decoded
  BY DEF Present, Typed, Guests
<1>4. /\ Len(guest'.exports) = n + 1 /\ guest'.exports[n + 1] = i
      /\ \A e \in 1 .. n : guest'.exports[e] = guest.exports[e]
  BY <1>1, <1>2, <1>3
<1>5. \A e : e \in 1 .. n + 1 <=> e \in 1 .. n \/ e = n + 1 BY <1>1
<1>6. n + 1 \notin 1 .. n BY <1>1
<1>7. PresentsOf(i)' = PresentsOf(i) \cup {n + 1}
  BY <1>1, <1>4, <1>5 DEF PresentsOf, Exported, ImageOf
<1>8. n + 1 \notin PresentsOf(i) BY <1>1, <1>6 DEF PresentsOf, Exported
<1>9. PresentCount(i)' = PresentCount(i) + 1
  <2>1. IsFiniteSet(PresentsOf(i)) BY Sizes DEF Sized
  <2> QED BY <1>7, <1>8, <2>1, FS_AddElement DEF PresentCount
<1>10. ASSUME NEW j \in Images, j # i PROVE PresentsOf(j)' = PresentsOf(j)
  BY <1>1, <1>4, <1>5, <1>10 DEF PresentsOf, Exported, ImageOf
<1>11. ASSUME NEW j \in Images, j # i PROVE PresentCount(j)' = PresentCount(j)
  BY <1>10, <1>11 DEF PresentCount
<1>12. ASSUME NEW j \in Images PROVE DecodedOf(j)' = DecodedOf(j)
  <2>1. 1 .. d \subseteq 1 .. n BY <1>1
  <2> QED BY <1>1, <1>3, <1>4, <2>1 DEF DecodedOf, Handed, ImageOf
<1>13. ASSUME NEW j \in Images PROVE PresentCount(j) <= PresentCount(j)'
  <2>1. PICK c \in Nat : c = PresentCount(j) BY Sizes DEF Sized
  <2>2. CASE j = i BY <1>9, <2>1, <2>2
  <2>3. CASE j # i BY <1>11, <2>1, <2>3
  <2> QED BY <2>2, <2>3
<1> QED BY <1>1, <1>4, <1>9, <1>10, <1>11, <1>12, <1>13

LEMMA SamePresents ==
  ASSUME guest'.exports = guest.exports
  PROVE  /\ \A i : PresentsOf(i)' = PresentsOf(i) /\ PresentCount(i)' = PresentCount(i)
         /\ guest'.decoded = guest.decoded => \A i : DecodedOf(i)' = DecodedOf(i)
BY DEF PresentsOf, PresentCount, Exported, ImageOf, DecodedOf, Handed

-----------------------------------------------------------------------------
(***************************************************************************)
(* Lemmas about the places of a present.                                   *)
(***************************************************************************)
LEMMA StreamKept ==
  ASSUME guest'.stream = guest.stream
  PROVE  /\ \A k, i, n : Streamed(k, i, n)' <=> Streamed(k, i, n)
         /\ \A i, n : InStream(i, n)' <=> InStream(i, n)
BY DEF Streamed, InStream

LEMMA StreamAppended ==
  ASSUME Typed, NEW c, NEW m \in Nat, m = Len(guest.stream),
         guest'.stream = Append(guest.stream, c)
  PROVE  /\ \A k \in Nat : k # m + 1
              => \A i, n : Streamed(k, i, n)' <=> Streamed(k, i, n)
         /\ \A i, n : ~Streamed(m + 1, i, n)
         /\ \A i, n : Streamed(m + 1, i, n)'
              <=> c.op = "present" /\ c.image = i /\ c.nth = n
         /\ \A k, i, n : Streamed(k, i, n) => k \in 1 .. m
<1>1. guest.stream \in Seq(Calls) BY DEF Typed, Guests
<1>2. /\ Len(guest'.stream) = m + 1 /\ guest'.stream[m + 1] = c
      /\ \A k \in 1 .. m : guest'.stream[k] = guest.stream[k]
  BY <1>1
<1>3. /\ m + 1 \in 1 .. m + 1 /\ m + 1 \notin 1 .. m
      /\ \A k \in Nat : k # m + 1 => (k \in 1 .. m + 1 <=> k \in 1 .. m) OBVIOUS
<1>4. ASSUME NEW k \in Nat, k # m + 1, NEW i, NEW n
      PROVE  Streamed(k, i, n)' <=> Streamed(k, i, n)
  BY <1>2, <1>3, <1>4 DEF Streamed
<1>5. \A i, n : ~Streamed(m + 1, i, n) BY <1>3 DEF Streamed
<1>6. \A i, n : Streamed(m + 1, i, n)' <=> c.op = "present" /\ c.image = i /\ c.nth = n
  BY <1>2, <1>3 DEF Streamed
<1>7. \A k, i, n : Streamed(k, i, n) => k \in 1 .. m BY DEF Streamed
<1>8. \A k \in Nat : k # m + 1 => \A i, n : Streamed(k, i, n)' <=> Streamed(k, i, n)
  BY <1>4
<1> QED BY <1>5, <1>6, <1>7, <1>8, Zenon

LEMMA StreamTaken ==
  ASSUME Typed, guest.stream # <<>>, guest'.stream = Tail(guest.stream)
  PROVE  /\ NextCall \in Calls /\ NextCall = guest.stream[1]
         /\ \A k \in Nat \ {0} : \A i, n : Streamed(k, i, n)' <=> Streamed(k + 1, i, n)
         /\ \A i, n : ~Streamed(0, i, n) /\ ~Streamed(0, i, n)'
         /\ \A i, n : Streamed(1, i, n) <=> /\ NextCall.op = "present"
                                            /\ NextCall.image = i /\ NextCall.nth = n
<1>1. guest.stream \in Seq(Calls) BY DEF Typed, Guests
<1>2. PICK m \in Nat \ {0} : m = Len(guest.stream) BY <1>1
<1>3. /\ NextCall = guest.stream[1] /\ NextCall \in Calls
      /\ Len(guest'.stream) = m - 1
      /\ \A k \in 1 .. m - 1 : guest'.stream[k] = guest.stream[k + 1]
  BY <1>1, <1>2 DEF NextCall
<1>4. /\ \A k \in Nat \ {0} : k \in 1 .. m - 1 <=> k + 1 \in 1 .. m
      /\ 1 \in 1 .. m /\ 0 \notin 1 .. m /\ 0 \notin 1 .. m - 1
  BY <1>2
<1>5. ASSUME NEW k \in Nat \ {0}, NEW i, NEW n
      PROVE  Streamed(k, i, n)' <=> Streamed(k + 1, i, n)
  BY <1>2, <1>3, <1>4 DEF Streamed
<1>6. \A i, n : ~Streamed(0, i, n) /\ ~Streamed(0, i, n)'
  BY <1>2, <1>3, <1>4 DEF Streamed
<1>7. \A i, n : Streamed(1, i, n) <=> /\ NextCall.op = "present"
                                      /\ NextCall.image = i /\ NextCall.nth = n
  BY <1>2, <1>3, <1>4 DEF Streamed
<1> QED BY <1>3, <1>5, <1>6, <1>7

LEMMA IsFlight ==
  ASSUME NEW x
  PROVE  x \in Flights <=>
           \/ \E t \in tasks : t.op = "wait" /\ x = Flight("tasks", 0, t)
           \/ \E w \in Workers : worker[w].pc \in Returns
                                 /\ x = Flight("worker", w, worker[w].task)
           \/ rt.pc \in Returns /\ x = Flight("rt", 0, rt.task)
<1> DEFINE A == {Flight("tasks", 0, t) : t \in {t \in tasks : t.op = "wait"}}
           B == {Flight("worker", w, worker[w].task) :
                   w \in {w \in Workers : worker[w].pc \in Returns}}
           C == {Flight("rt", 0, s.task) : s \in {s \in {rt} : s.pc \in Returns}}
<1>1. Flights = A \cup B \cup C BY DEF Flights
<1>2. x \in A <=> \E t \in tasks : t.op = "wait" /\ x = Flight("tasks", 0, t) OBVIOUS
<1>3. x \in B <=> \E w \in Workers : worker[w].pc \in Returns
                                     /\ x = Flight("worker", w, worker[w].task)
  OBVIOUS
<1>4. x \in C <=> rt.pc \in Returns /\ x = Flight("rt", 0, rt.task) OBVIOUS
<1> HIDE DEF A, B, C
<1> QED BY <1>1, <1>2, <1>3, <1>4

LEMMA IsFlightNext ==
  ASSUME NEW x
  PROVE  x \in Flights' <=>
           \/ \E t \in tasks' : t.op = "wait" /\ x = Flight("tasks", 0, t)
           \/ \E w \in Workers : worker'[w].pc \in Returns
                                 /\ x = Flight("worker", w, worker'[w].task)
           \/ rt'.pc \in Returns /\ x = Flight("rt", 0, rt'.task)
<1> DEFINE A == {Flight("tasks", 0, t) : t \in {t \in tasks : t.op = "wait"}}
           B == {Flight("worker", w, worker[w].task) :
                   w \in {w \in Workers : worker[w].pc \in Returns}}
           C == {Flight("rt", 0, s.task) : s \in {s \in {rt} : s.pc \in Returns}}
<1>1. Flights' = A' \cup B' \cup C' BY DEF Flights, Flight
<1>2. x \in A' <=> \E t \in tasks' : t.op = "wait" /\ x = Flight("tasks", 0, t) BY DEF Flight
<1>3. x \in B' <=> \E w \in Workers : worker'[w].pc \in Returns
                                     /\ x = Flight("worker", w, worker'[w].task)
  BY DEF Flight
<1>4. x \in C' <=> rt'.pc \in Returns /\ x = Flight("rt", 0, rt'.task) BY DEF Flight
<1> HIDE DEF A, B, C
<1> QED BY <1>1, <1>2, <1>3, <1>4

LEMMA FlightParts ==
  ASSUME NEW a, NEW b, NEW t
  PROVE  Flight(a, b, t).at = a /\ Flight(a, b, t).by = b /\ Flight(a, b, t).task = t
BY DEF Flight

LEMMA FlightTyped ==
  ASSUME Typed, NEW x \in Flights
  PROVE  x.task \in WaitTasks /\ x.task.image \in Images /\ x.task.nth \in Nat
<1>1. x.task \in WaitTasks
  <2>1. CASE \E t \in tasks : t.op = "wait" /\ x = Flight("tasks", 0, t)
    BY <2>1, FlightParts DEF Typed, RegisterTasks
  <2>2. CASE \E w \in Workers : worker[w].pc \in Returns
                                 /\ x = Flight("worker", w, worker[w].task)
    BY <2>2, FlightParts, WorkerTask
  <2>3. CASE rt.pc \in Returns /\ x = Flight("rt", 0, rt.task)
    BY <2>3, FlightParts, ThreadTask
  <2> QED BY <2>1, <2>2, <2>3, IsFlight
<1> QED BY <1>1 DEF WaitTasks

(* Steps that neither submit, begin nor end a wait.                        *)
LEMMA FlightsKept ==
  ASSUME \A t : t.op = "wait" => (t \in tasks' <=> t \in tasks),
         \A w \in Workers : \/ worker'[w] = worker[w]
                            \/ worker[w].pc \notin Returns /\ worker'[w].pc \notin Returns
                            \/ /\ worker[w].pc \in Returns /\ worker'[w].pc \in Returns
                               /\ worker'[w].task = worker[w].task,
         \/ rt' = rt
         \/ rt.pc \notin Returns /\ rt'.pc \notin Returns
         \/ rt.pc \in Returns /\ rt'.pc \in Returns /\ rt'.task = rt.task
  PROVE  Flights' = Flights
<1>1. ASSUME NEW x PROVE x \in Flights' <=> x \in Flights
  <2>1. (\E t \in tasks' : t.op = "wait" /\ x = Flight("tasks", 0, t))
          <=> \E t \in tasks : t.op = "wait" /\ x = Flight("tasks", 0, t)
    OBVIOUS
  <2>2. (\E w \in Workers : /\ worker'[w].pc \in Returns
                            /\ x = Flight("worker", w, worker'[w].task))
          <=> \E w \in Workers : /\ worker[w].pc \in Returns
                                 /\ x = Flight("worker", w, worker[w].task)
    OBVIOUS
  <2>3. rt'.pc \in Returns /\ x = Flight("rt", 0, rt'.task)
          <=> rt.pc \in Returns /\ x = Flight("rt", 0, rt.task)
    OBVIOUS
  <2> QED BY <2>1, <2>2, <2>3, IsFlight, IsFlightNext
<1> QED BY <1>1

LEMMA FlightsAdded ==
  ASSUME Typed, rt.pc = "idle", worker' = worker, NEW t \in WaitTasks,
         \/ tasks' = tasks \cup {t} /\ rt' = rt
         \/ tasks' = tasks /\ rt' = At("wait", t)
  PROVE  \E x : x.task = t /\ Flights' = Flights \cup {x}
<1>1. t.op = "wait" BY DEF WaitTasks
<1>2. rt.pc \notin Returns BY DEF Returns
<1>3. CASE tasks' = tasks \cup {t} /\ rt' = rt
  <2>1. ASSUME NEW x PROVE x \in Flights' <=> x \in Flights \/ x = Flight("tasks", 0, t)
    <3>1. (\E u \in tasks' : u.op = "wait" /\ x = Flight("tasks", 0, u))
            <=> \/ \E u \in tasks : u.op = "wait" /\ x = Flight("tasks", 0, u)
                \/ x = Flight("tasks", 0, t)
      BY <1>1, <1>3
    <3> QED BY <1>3, <3>1, IsFlight, IsFlightNext
  <2>2. Flights' = Flights \cup {Flight("tasks", 0, t)} BY <2>1
  <2> QED BY <2>2, FlightParts
<1>4. CASE tasks' = tasks /\ rt' = At("wait", t)
  <2>1. rt'.pc \in Returns /\ rt'.task = t BY <1>4 DEF At, Returns
  <2>2. ASSUME NEW x PROVE x \in Flights' <=> x \in Flights \/ x = Flight("rt", 0, t)
    BY <1>2, <1>4, <2>1, IsFlight, IsFlightNext
  <2>3. Flights' = Flights \cup {Flight("rt", 0, t)} BY <2>2
  <2> QED BY <2>3, FlightParts
<1> QED BY <1>3, <1>4

LEMMA FlightsBegun ==
  ASSUME Typed, NEW w \in Workers, NEW t \in tasks, t.op = "wait", doSyncThreadCmd(w, t)
  PROVE  \E x, y : /\ x \in Flights /\ x.task = t /\ y.task = t
                   /\ Flights' = (Flights \ {x}) \cup {y}
<1> DEFINE X == Flight("tasks", 0, t)  Y == Flight("worker", w, t)
<1>1. /\ worker[w] = Idle /\ tasks' = tasks \ {t} /\ rt' = rt
      /\ worker' = [worker EXCEPT ![w] = At("wait", t)]
  BY DEF doSyncThreadCmd
<1>2. /\ worker'[w].pc = "wait" /\ worker'[w].task = t
      /\ \A v \in Workers \ {w} : worker'[v] = worker[v]
  BY <1>1 DEF Typed, At
<1>3. worker[w].pc \notin Returns /\ "wait" \in Returns BY <1>1 DEF Idle, Returns
<1>4. /\ X.task = t /\ Y.task = t /\ X # Y
      /\ \A v, u : Flight("worker", v, u) # X
      /\ \A u : Flight("rt", 0, u) # X
      /\ \A u : Flight("tasks", 0, u) = X <=> u = t
  BY DEF Flight
<1> HIDE DEF X, Y
<1>5. ASSUME NEW x PROVE x \in Flights' <=> x \in (Flights \ {X}) \cup {Y}
  <2>1. (\E u \in tasks' : u.op = "wait" /\ x = Flight("tasks", 0, u))
          <=> x # X /\ \E u \in tasks : u.op = "wait" /\ x = Flight("tasks", 0, u)
    BY <1>1, <1>4
  <2>2. (\E v \in Workers : /\ worker'[v].pc \in Returns
                            /\ x = Flight("worker", v, worker'[v].task))
          <=> \/ x = Y
              \/ \E v \in Workers : /\ worker[v].pc \in Returns
                                    /\ x = Flight("worker", v, worker[v].task)
    BY <1>2, <1>3 DEF Y
  <2>3. x = X => /\ ~(rt.pc \in Returns /\ x = Flight("rt", 0, rt.task))
                 /\ ~\E v \in Workers : /\ worker[v].pc \in Returns
                                        /\ x = Flight("worker", v, worker[v].task)
    BY <1>4
  <2> QED BY <1>1, <2>1, <2>2, <2>3, IsFlight, IsFlightNext
<1>6. X \in Flights BY <1>4, IsFlight DEF X
<1>7. Flights' = (Flights \ {X}) \cup {Y} BY <1>5
<1> QED BY <1>4, <1>6, <1>7

LEMMA FlightsLanded ==
  ASSUME Typed, NEW w \in Workers, worker[w].pc \in Returns, worker'[w].pc \notin Returns,
         \A v \in Workers \ {w} : worker'[v] = worker[v], tasks' = tasks, rt' = rt
  PROVE  \E x \in Flights : x.task = worker[w].task /\ Flights' = Flights \ {x}
<1> DEFINE X == Flight("worker", w, worker[w].task)
<1>1. /\ X.task = worker[w].task
      /\ \A v, u : Flight("worker", v, u) = X <=> v = w /\ u = worker[w].task
      /\ \A u : Flight("rt", 0, u) # X
      /\ \A u : Flight("tasks", 0, u) # X
  BY DEF Flight
<1>2. X \in Flights BY IsFlight
<1> HIDE DEF X
<1>3. ASSUME NEW x PROVE x \in Flights' <=> x \in Flights /\ x # X
  <2>1. (\E v \in Workers : /\ worker'[v].pc \in Returns
                            /\ x = Flight("worker", v, worker'[v].task))
          <=> x # X /\ \E v \in Workers : /\ worker[v].pc \in Returns
                                          /\ x = Flight("worker", v, worker[v].task)
    BY <1>1 DEF X
  <2>2. (\E u \in tasks : u.op = "wait" /\ x = Flight("tasks", 0, u)) => x # X BY <1>1
  <2>3. rt.pc \in Returns /\ x = Flight("rt", 0, rt.task) => x # X BY <1>1
  <2> QED BY <2>1, <2>2, <2>3, IsFlight, IsFlightNext
<1>4. Flights' = Flights \ {X} BY <1>3
<1> QED BY <1>1, <1>2, <1>4

LEMMA FlightsLandedHere ==
  ASSUME Typed, rt.pc \in Returns, rt'.pc \notin Returns, tasks' = tasks, worker' = worker
  PROVE  \E x \in Flights : x.task = rt.task /\ Flights' = Flights \ {x}
<1> DEFINE X == Flight("rt", 0, rt.task)
<1>1. /\ X.task = rt.task
      /\ \A v, u : Flight("worker", v, u) # X
      /\ \A u : Flight("tasks", 0, u) # X
  BY DEF Flight
<1>2. X \in Flights BY IsFlight
<1>3. ASSUME NEW x PROVE x \in Flights' <=> x \in Flights /\ x # X
  <2>1. (\E v \in Workers : /\ worker[v].pc \in Returns
                            /\ x = Flight("worker", v, worker[v].task)) => x # X
    BY <1>1
  <2>2. (\E u \in tasks : u.op = "wait" /\ x = Flight("tasks", 0, u)) => x # X BY <1>1
  <2> QED BY <2>1, <2>2, IsFlight, IsFlightNext
<1>4. Flights' = Flights \ {X} BY <1>3
<1> QED BY <1>1, <1>2, <1>4

-----------------------------------------------------------------------------
(***************************************************************************)
(* Presents are counted as they leave their places.                        *)
(***************************************************************************)
LEMMA CreatedTyped ==
  ASSUME Typed, NEW i \in Images
  PROVE  /\ pool[i] \in Pools /\ IsFiniteSet(pool[i].used) /\ Created(pool[i]) \in Nat
         /\ timeline[i].presents \in Nat
BY NextFenceTyped DEF Typed, Timelines

(* Nothing enters a place.                                                 *)
LEMMA PresentsFrame ==
  ASSUME Typed, Typed', NEW i \in Images, PresentsInv(i),
         PresentCount(i)' = PresentCount(i),
         NEW s \in {0, 1}, \A k, n \in Nat : Streamed(k, i, n)' => Streamed(k + s, i, n),
         \A n \in Nat : Flying(i, n)' => Flying(i, n), FlightsUnique(i)',
         FencesCreated(i)', Created(pool'[i]) <= Created(pool[i]),
         timeline'[i].presents = timeline[i].presents
  PROVE  PresentsInv(i)'
<1>1. PICK c \in Nat, d \in Nat, m \in Nat :
        /\ c = Created(pool[i]) /\ d = Created(pool'[i]) /\ d <= c
        /\ m = PresentCount(i) /\ m = PresentCount(i)'
  <2>1. Created(pool[i]) \in Nat /\ Created(pool'[i]) \in Nat BY CreatedTyped, NextFenceTyped DEF Typed
  <2> QED BY <2>1, Sizes DEF Sized
<1>2. StreamInv(i)'
  <2>1. ASSUME NEW k \in Nat, NEW n \in Nat, Streamed(k, i, n)' PROVE d < n /\ n <= m
    <3>1. Streamed(k + s, i, n) /\ k + s \in Nat BY <2>1
    <3>2. c < n /\ n <= m BY <1>1, <3>1 DEF PresentsInv, StreamInv
    <3> QED BY <1>1, <3>2
  <2>2. ASSUME NEW k \in Nat, NEW n \in Nat, NEW l \in Nat, NEW o \in Nat,
               Streamed(l, i, o)', Streamed(k, i, n)', l < k
        PROVE  o < n
    <3>1. Streamed(k + s, i, n) /\ k + s \in Nat /\ Streamed(l + s, i, o) /\ l + s \in Nat
      BY <2>2
    <3>2. l + s < k + s BY <2>2
    <3> QED BY <3>1, <3>2 DEF PresentsInv, StreamInv
  <2> QED BY <1>1, <2>1, <2>2 DEF StreamInv
<1>3. FlightsInv(i)'
  <2> SUFFICES ASSUME NEW n \in Nat, Flying(i, n)'
               PROVE  n \in 1 .. m /\ \A k, o \in Nat : Streamed(k, i, o)' => n < o
    BY <1>1 DEF FlightsInv
  <2>1. Flying(i, n) OBVIOUS
  <2>2. n \in 1 .. m BY <1>1, <2>1 DEF PresentsInv, FlightsInv
  <2>3. ASSUME NEW k \in Nat, NEW o \in Nat, Streamed(k, i, o)' PROVE n < o
    <3>1. Streamed(k + s, i, o) /\ k + s \in Nat BY <2>3
    <3> QED BY <2>1, <3>1 DEF PresentsInv, FlightsInv
  <2> QED BY <2>2, <2>3
<1>4. Counted(i) \subseteq Counted(i)'
  <2> SUFFICES ASSUME NEW n \in 1 .. m, ~InStream(i, n), ~Flying(i, n)
               PROVE  ~InStream(i, n)' /\ ~Flying(i, n)'
    BY <1>1 DEF Counted
  <2>1. n \in Nat BY <1>1
  <2>2. ASSUME InStream(i, n)' PROVE FALSE
    <3>1. PICK k \in Nat : Streamed(k, i, n)' BY <2>2 DEF InStream
    <3>2. k + s \in Nat /\ Streamed(k + s, i, n) BY <2>1, <3>1
    <3> QED BY <3>2 DEF InStream
  <2> QED BY <2>1, <2>2
<1>5. Cardinality(Counted(i)) <= Cardinality(Counted(i)')
  <2>1. IsFiniteSet(Counted(i)') BY SizesNext DEF Sized
  <2> QED BY <1>4, <2>1, FS_Subset
<1>6. timeline'[i].presents <= Cardinality(Counted(i)')
  <2>1. PICK a \in Nat, b \in Nat, p \in Nat :
          /\ a = Cardinality(Counted(i)) /\ b = Cardinality(Counted(i)')
          /\ p = timeline[i].presents
    BY Sizes, SizesNext, CreatedTyped DEF Sized
  <2> QED BY <1>5, <2>1 DEF PresentsInv
<1> QED BY <1>2, <1>3, <1>6 DEF PresentsInv

(* A present that its timeline counts has left its last place.             *)
LEMMA PresentsSignaled ==
  ASSUME Typed, Typed', NEW i \in Images, PresentsInv(i), guest' = guest, pool' = pool,
         NEW x \in Flights, x.task.image = i, Flights' = Flights \ {x},
         timeline'[i].presents = timeline[i].presents + 1
  PROVE  PresentsInv(i)'
<1>0. \A k, n : Streamed(k, i, n)' <=> Streamed(k, i, n) BY StreamKept
<1>1. PresentCount(i)' = PresentCount(i) BY SamePresents
<1>2. \A y, n : Flies(y, i, n)' => Flies(y, i, n) BY DEF Flies
<1>3. \A n : Flying(i, n)' => Flying(i, n) BY <1>2 DEF Flying, Flies
<1>4. StreamInv(i)' BY <1>0, <1>1 DEF PresentsInv, StreamInv
<1>5. FlightsInv(i)' BY <1>0, <1>1, <1>3 DEF PresentsInv, FlightsInv
<1>6. FlightsUnique(i)' BY <1>2 DEF PresentsInv, FlightsUnique
<1>7. FencesCreated(i)' BY <1>1 DEF PresentsInv, FencesCreated, NumberedPool, Created
<1>8. timeline'[i].presents <= Cardinality(Counted(i)')
  <2>1. PICK n \in Nat : n = x.task.nth BY FlightTyped
  <2>2. Flies(x, i, n) BY <2>1 DEF Flies
  <2>3. Flying(i, n) BY <2>2 DEF Flying
  <2>4. ~Flying(i, n)'
    <3>1. \A y : Flies(y, i, n)' => y = x BY <1>2, <2>2 DEF PresentsInv, FlightsUnique
    <3>2. ~Flies(x, i, n)' BY DEF Flies
    <3> QED BY <3>1, <3>2 DEF Flying
  <2>5. n \in 1 .. PresentCount(i) BY <2>3 DEF PresentsInv, FlightsInv
  <2>6. ~InStream(i, n)
    <3> SUFFICES ASSUME NEW k \in Nat, Streamed(k, i, n) PROVE FALSE BY DEF InStream
    <3>1. n < n BY <2>3 DEF PresentsInv, FlightsInv
    <3> QED BY <3>1
  <2>7. \A m : InStream(i, m)' <=> InStream(i, m) BY StreamKept
  <2>8. n \notin Counted(i) /\ n \in Counted(i)'
    BY <1>1, <2>3, <2>4, <2>5, <2>6, <2>7 DEF Counted
  <2>9. Counted(i) \cup {n} \subseteq Counted(i)' BY <1>1, <1>3, <2>7, <2>8 DEF Counted
  <2>10. /\ IsFiniteSet(Counted(i)) /\ IsFiniteSet(Counted(i)')
         /\ IsFiniteSet(Counted(i) \cup {n})
         /\ Cardinality(Counted(i) \cup {n}) = Cardinality(Counted(i)) + 1
    BY <2>8, Sizes, SizesNext, FS_AddElement DEF Sized
  <2>11. Cardinality(Counted(i) \cup {n}) <= Cardinality(Counted(i)')
    BY <2>9, <2>10, FS_Subset
  <2>12. PICK a \in Nat, b \in Nat, p \in Nat :
          /\ a = Cardinality(Counted(i)) /\ b = Cardinality(Counted(i)')
          /\ p = timeline[i].presents
    BY Sizes, SizesNext, CreatedTyped DEF Sized
  <2> QED BY <2>10, <2>11, <2>12 DEF PresentsInv
<1> QED BY <1>4, <1>5, <1>6, <1>7, <1>8 DEF PresentsInv

(* A present of the guest is the last on its stream.                       *)
LEMMA PresentsMade ==
  ASSUME Typed, Typed', NEW i \in Images, NEW q \in Queues, Present(i, q), PresentsInv(i)
  PROVE  PresentsInv(i)' /\ Counted(i)' = Counted(i)
<1>1. PICK m \in Nat, c \in Nat : m = PresentCount(i) /\ c = Created(pool[i])
  BY Sizes, CreatedTyped DEF Sized
<1>2. PresentCount(i)' = m + 1 BY <1>1, PresentGrows
<1>3. PICK l \in Nat : l = Len(guest.stream) BY DEF Typed, Guests
<1>4. /\ guest'.stream = Append(guest.stream, PresentCall(i, q, 1 + m))
      /\ UNCHANGED <<pool, timeline, tasks, worker, rt>>
  BY <1>1 DEF Present, Typed, Guests, PresentCount, PresentsOf
<1>5. /\ \A k \in Nat : k # l + 1 => \A j, n : Streamed(k, j, n)' <=> Streamed(k, j, n)
      /\ \A n : Streamed(l + 1, i, n)' <=> n = 1 + m
      /\ \A k, j, n : Streamed(k, j, n) => k \in 1 .. l
  <2> DEFINE p == PresentCall(i, q, 1 + m)
  <2>1. p.op = "present" /\ p.image = i /\ p.nth = 1 + m BY DEF PresentCall
  <2> HIDE DEF p
  <2>2. /\ \A k \in Nat : k # l + 1 => \A j, n : Streamed(k, j, n)' <=> Streamed(k, j, n)
        /\ \A j, n : Streamed(l + 1, j, n)' <=> p.op = "present" /\ p.image = j /\ p.nth = n
        /\ \A k, j, n : Streamed(k, j, n) => k \in 1 .. l
    BY <1>3, <1>4, StreamAppended DEF p
  <2> QED BY <2>1, <2>2
<1>6. Flights' = Flights BY <1>4, FlightsKept
<1>7. \A y, n : Flies(y, i, n)' <=> Flies(y, i, n) BY <1>6 DEF Flies
<1>8. \A n : Flying(i, n)' <=> Flying(i, n) BY <1>6, <1>7 DEF Flying, Flies
<1>9. c <= m BY <1>1 DEF PresentsInv, FencesCreated
<1>10. StreamInv(i)'
  <2>1. ASSUME NEW k \in Nat, NEW n \in Nat, Streamed(k, i, n)' PROVE c < n /\ n <= m + 1
    <3>1. CASE k = l + 1 BY <2>1, <3>1, <1>5, <1>9
    <3>2. CASE k # l + 1
      <4>1. Streamed(k, i, n) BY <2>1, <3>2, <1>5
      <4>2. c < n /\ n <= m BY <4>1, <1>1 DEF PresentsInv, StreamInv
      <4> QED BY <4>2
    <3> QED BY <3>1, <3>2
  <2>2. ASSUME NEW k \in Nat, NEW n \in Nat, NEW j \in Nat, NEW o \in Nat,
               Streamed(j, i, o)', Streamed(k, i, n)', j < k
        PROVE  o < n
    <3>1. CASE k # l + 1 /\ j # l + 1
      <4>1. Streamed(k, i, n) /\ Streamed(j, i, o) BY <2>2, <3>1, <1>5
      <4> QED BY <2>2, <4>1 DEF PresentsInv, StreamInv
    <3>2. CASE j = l + 1
      <4>1. Streamed(k, i, n) BY <2>2, <3>2, <1>5
      <4>2. k <= l BY <4>1, <1>5
      <4> QED BY <2>2, <3>2, <4>2
    <3>3. CASE k = l + 1 /\ j # l + 1
      <4>1. n = 1 + m /\ Streamed(j, i, o) BY <2>2, <3>3, <1>5
      <4>2. o <= m BY <4>1, <1>1 DEF PresentsInv, StreamInv
      <4> QED BY <4>1, <4>2
    <3> QED BY <3>1, <3>2, <3>3
  <2> QED BY <1>1, <1>2, <1>4, <2>1, <2>2 DEF StreamInv
<1>11. FlightsInv(i)'
  <2> SUFFICES ASSUME NEW n \in Nat, Flying(i, n)'
               PROVE  n \in 1 .. m + 1 /\ \A k, o \in Nat : Streamed(k, i, o)' => n < o
    BY <1>2 DEF FlightsInv
  <2>1. Flying(i, n) BY <1>8
  <2>2. n \in 1 .. m BY <1>1, <2>1 DEF PresentsInv, FlightsInv
  <2>3. ASSUME NEW k \in Nat, NEW o \in Nat, Streamed(k, i, o)' PROVE n < o
    <3>1. CASE k = l + 1 BY <2>2, <2>3, <3>1, <1>5
    <3>2. CASE k # l + 1
      <4>1. Streamed(k, i, o) BY <2>3, <3>2, <1>5
      <4> QED BY <2>1, <4>1 DEF PresentsInv, FlightsInv
    <3> QED BY <3>1, <3>2
  <2> QED BY <2>2, <2>3
<1>12. FlightsUnique(i)' BY <1>7 DEF PresentsInv, FlightsUnique
<1>13. FencesCreated(i)'
  <2>1. Created(pool[i]) <= m + 1 BY <1>1, <1>9
  <2> QED BY <1>2, <1>4, <2>1 DEF PresentsInv, FencesCreated, NumberedPool, Created
<1>14. Counted(i)' = Counted(i)
  <2>1. ASSUME NEW n \in 1 .. m PROVE InStream(i, n)' <=> InStream(i, n)
    <3>1. ~Streamed(l + 1, i, n)' /\ ~Streamed(l + 1, i, n)
      <4>1. n # 1 + m /\ l + 1 \notin 1 .. l BY <1>3
      <4> QED BY <4>1, <1>5
    <3> QED BY <3>1, <1>5 DEF InStream
  <2>2. InStream(i, m + 1)'
    <3>1. Streamed(l + 1, i, m + 1)' BY <1>5, <1>1
    <3>2. l + 1 \in Nat OBVIOUS
    <3> QED BY <3>1, <3>2 DEF InStream
  <2>3. 1 .. m + 1 = 1 .. m \cup {m + 1} BY <1>1
  <2> QED BY <1>1, <1>2, <1>8, <2>1, <2>2, <2>3 DEF Counted
<1>15. timeline'[i].presents <= Cardinality(Counted(i)')
  BY <1>4, <1>14 DEF PresentsInv
<1> QED BY <1>10, <1>11, <1>12, <1>13, <1>14, <1>15 DEF PresentsInv

LEMMA GetCreated ==
  ASSUME NEW p \in Pools, IsFiniteSet(p.used), NumberedPool(p),
         0 \notin ToSet(p.available) \cup p.used, NEW q,
         q = [available |-> WithoutNext(p), used |-> p.used \cup {NextFence(p)}]
  PROVE  /\ NumberedPool(q) /\ Created(q) \in Nat /\ Created(q) <= Created(p) + 1
         /\ 0 \notin ToSet(q.available) \cup q.used
<1> DEFINE f == NextFence(p)  a == p.available  b == q.available  u == p.used
<1>1. /\ NumberedPool(q) /\ ToSet(b) \subseteq ToSet(a) /\ f \in Nat /\ f \notin u
      /\ b = WithoutNext(p) /\ q.used = u \cup {f}
  BY GetNumbered
<1>2. PICK c \in Nat, m \in Nat :
        /\ c = Cardinality(u) /\ m = Len(a) /\ a \in Seq(Nat)
        /\ Created(p) = c + m /\ Created(p) \in Nat /\ b \in Seq(Nat)
  BY NextFenceTyped DEF Pools, Created
<1>3. IsFiniteSet(q.used) /\ Cardinality(q.used) = c + 1 BY <1>1, <1>2, FS_AddElement
<1> HIDE DEF f, a, b, u
<1>4. CASE a = <<>>
  <2>1. f = c + m + 1 /\ b = <<>> BY <1>1, <1>2, <1>4 DEF f, a, b, NextFence, WithoutNext
  <2>2. Len(b) = 0 /\ f # 0 BY <2>1
  <2>3. Created(q) = c + 1 BY <1>3, <2>2 DEF b, Created
  <2>4. c + 1 <= c + m + 1 BY <1>2
  <2> QED BY <1>1, <1>2, <2>2, <2>3, <2>4 DEF a, b, u
<1>5. CASE a # <<>>
  <2>1. f = Last(a) /\ b = Front(a) BY <1>1, <1>5 DEF f, a, b, NextFence, WithoutNext
  <2>2. m > 0 /\ f = a[m] /\ Len(b) = m - 1 BY <1>2, <1>5, <2>1, LastFront
  <2>3. f \in ToSet(a) BY <1>2, <2>2 DEF ToSet
  <2>4. Created(q) = c + 1 + (m - 1) BY <1>3, <2>2 DEF b, Created
  <2>5. c + 1 + (m - 1) \in Nat /\ c + 1 + (m - 1) <= c + m + 1
    <3>1. m > 0 BY <2>2
    <3> QED BY <3>1
  <2> QED BY <1>1, <1>2, <2>3, <2>4, <2>5 DEF a, b, u
<1> QED BY <1>4, <1>5

LEMMA ReturnCreated ==
  ASSUME Typed, NEW i \in Images, NEW j \in Images, NEW f \in Nat, returnFence(j, f),
         FencesCreated(i), PresentCount(i)' = PresentCount(i)
  PROVE  FencesCreated(i)' /\ Created(pool'[i]) <= Created(pool[i])
<1>1. PICK c \in Nat : c = Created(pool[i]) BY CreatedTyped
<1>2. CASE i # j
  <2>1. pool'[i] = pool[i] BY <1>2 DEF returnFence, Typed
  <2> QED BY <1>1, <2>1 DEF FencesCreated, NumberedPool, Created
<1>3. CASE i = j
  <2>1. /\ f \in pool[i].used
        /\ pool'[i] = [available |-> Append(pool[i].available, f), used |-> pool[i].used \ {f}]
    BY <1>3 DEF returnFence, Typed
  <2> DEFINE p == pool[i]  q == pool'[i]
  <2>2. p \in Pools /\ IsFiniteSet(p.used) /\ NumberedPool(p) BY CreatedTyped DEF FencesCreated
  <2>3. ToSet(q.available) = ToSet(p.available) \cup {f} /\ NumberedPool(q)
    BY <2>1, <2>2, ReturnNumbered
  <2>4. Created(q) = Created(p)
    <3>1. PICK d \in Nat, m \in Nat :
            /\ d = Cardinality(p.used) /\ m = Len(p.available) /\ p.available \in Seq(Nat)
            /\ Created(p) = d + m
      BY <2>2, NextFenceTyped DEF Pools, Created
    <3>2. Cardinality(p.used \ {f}) = d - 1 BY <2>1, <2>2, <3>1, FS_RemoveElement
    <3>3. Len(Append(p.available, f)) = m + 1 BY <3>1
    <3>4. Created(q) = d - 1 + (m + 1) BY <2>1, <3>2, <3>3 DEF Created
    <3>5. d - 1 + (m + 1) = d + m OBVIOUS
    <3> QED BY <3>1, <3>4, <3>5
  <2>5. q.used \subseteq p.used /\ f # 0 BY <2>1 DEF FencesCreated
  <2>6. 0 \notin ToSet(q.available) \cup q.used BY <2>3, <2>5 DEF FencesCreated
  <2>7. NumberedPool(pool[i])' BY <2>3 DEF NumberedPool, Created
  <2>8. Created(pool[i])' = Created(pool[i]) BY <2>4 DEF Created
  <2> QED BY <1>1, <2>4, <2>6, <2>7, <2>8 DEF FencesCreated
<1> QED BY <1>2, <1>3

(* A present is submitted: the first of its image on the stream.           *)
LEMMA Submission ==
  ASSUME Typed, syncImageToColorBuffer
  PROVE  \E i, t, x :
           /\ i \in Images /\ t \in WaitTasks
           /\ i = NextCall.image /\ t = WaitTask(i, NextCall.nth, NextFence(pool[i]))
           /\ x.task = t /\ Flights' = Flights \cup {x}
           /\ NextCall.op = "present" /\ NextCall.nth \in Nat
<1>1. /\ rt.pc = "idle" /\ guest.stream # <<>> /\ NextCall.op = "present"
      /\ worker' = worker
  BY DEF syncImageToColorBuffer, mLockFree
<1>2. NextCall \in Calls BY <1>1, StreamTyped
<1>3. NextCall \in PresentCalls BY <1>1, <1>2 DEF Calls, PresentCalls, DestroyCalls
<1>4. NextCall.image \in Images /\ NextCall.nth \in Nat BY <1>3 DEF PresentCalls
<1>5. PICK i, n, f : /\ i \in Images /\ i = NextCall.image
                     /\ n \in Nat /\ n = NextCall.nth /\ f = NextFence(pool[i])
  BY <1>4
<1>6. f \in Nat BY <1>5, CreatedTyped, NextFenceTyped
<1>7. PICK t : t = WaitTask(i, n, f) OBVIOUS
<1>8. t \in WaitTasks BY <1>5, <1>6, <1>7 DEF WaitTask, WaitTasks
<1>9. \/ tasks' = tasks \cup {t} /\ rt' = rt
      \/ tasks' = tasks /\ rt' = At("wait", t)
  BY <1>5, <1>7 DEF syncImageToColorBuffer
<1>10. PICK x : x.task = t /\ Flights' = Flights \cup {x} BY <1>1, <1>8, <1>9, FlightsAdded
<1> QED BY <1>1, <1>4, <1>5, <1>7, <1>8, <1>10

LEMMA PresentsSubmitted ==
  ASSUME Typed, Typed', syncImageToColorBuffer, NEW i \in Images, PresentsInv(i)
  PROVE  PresentsInv(i)' /\ Counted(i)' = Counted(i)
<1>1. PICK j, t, x :
        /\ j \in Images /\ t \in WaitTasks
        /\ j = NextCall.image /\ t = WaitTask(j, NextCall.nth, NextFence(pool[j]))
        /\ x.task = t /\ Flights' = Flights \cup {x}
        /\ NextCall.op = "present" /\ NextCall.nth \in Nat
  BY Submission
<1>2. PICK o \in Nat : o = NextCall.nth BY <1>1
<1>3. t.image = j /\ t.nth = o BY <1>1, <1>2 DEF WaitTask
<1>4. /\ guest.stream # <<>> /\ guest'.stream = Tail(guest.stream)
      /\ guest'.exports = guest.exports /\ timeline' = timeline
  BY DEF syncImageToColorBuffer, Typed, Guests
<1>5. \A y, n : Flies(y, i, n)' <=> Flies(y, i, n) \/ (y = x /\ i = j /\ n = o)
  BY <1>1, <1>3 DEF Flies
<1>6. \A n : Flying(i, n)' <=> Flying(i, n) \/ (i = j /\ n = o)
  BY <1>1, <1>5 DEF Flying, Flies
<1>7. /\ \A k \in Nat \ {0} : \A n : Streamed(k, i, n)' <=> Streamed(k + 1, i, n)
      /\ \A n : ~Streamed(0, i, n) /\ ~Streamed(0, i, n)'
      /\ \A n : Streamed(1, i, n) <=> i = j /\ n = o
  BY <1>1, <1>2, <1>4, StreamTaken
<1>8. PresentCount(i)' = PresentCount(i) BY <1>4, SamePresents
<1>9. getFenceFromPool(j) BY <1>1 DEF syncImageToColorBuffer
<1>10. \A k, n \in Nat : Streamed(k, i, n)' => Streamed(k + 1, i, n)
  BY <1>7
<1>11. \A n : InStream(i, n)' \/ (i = j /\ n = o) <=> InStream(i, n)
  <2>1. ASSUME NEW n, InStream(i, n)' PROVE InStream(i, n)
    <3>1. PICK k \in Nat : Streamed(k, i, n)' BY <2>1 DEF InStream
    <3>2. k \in Nat \ {0} /\ k + 1 \in Nat BY <1>7, <3>1
    <3>3. Streamed(k + 1, i, n) BY <1>7, <3>1, <3>2
    <3> QED BY <3>2, <3>3 DEF InStream
  <2>2. ASSUME NEW n, i = j, n = o PROVE InStream(i, n)
    <3>1. Streamed(1, i, n) BY <1>7, <2>2
    <3> QED BY <3>1 DEF InStream
  <2>3. ASSUME NEW n, InStream(i, n), ~(i = j /\ n = o) PROVE InStream(i, n)'
    <3>1. PICK k \in Nat : Streamed(k, i, n) BY <2>3 DEF InStream
    <3>2. k # 0 /\ k # 1 BY <1>7, <2>3, <3>1
    <3>3. PICK l \in Nat \ {0} : l + 1 = k
      <4>1. k - 1 \in Nat \ {0} /\ k - 1 + 1 = k BY <3>2
      <4> QED BY <4>1
    <3>4. Streamed(l, i, n)' BY <1>7, <3>1, <3>3
    <3> QED BY <3>4 DEF InStream
  <2> QED BY <2>1, <2>2, <2>3
<1>12. Counted(i)' = Counted(i) BY <1>6, <1>8, <1>11 DEF Counted
<1>13. CASE i # j
  <2>1. pool'[i] = pool[i] BY <1>9, <1>13 DEF getFenceFromPool, Typed
  <2>2. FlightsUnique(i)' BY <1>5, <1>13 DEF PresentsInv, FlightsUnique
  <2>3. FencesCreated(i)' BY <1>8, <2>1 DEF PresentsInv, FencesCreated, NumberedPool, Created
  <2>4. Created(pool'[i]) <= Created(pool[i])
    <3>1. PICK c \in Nat : c = Created(pool[i]) BY CreatedTyped
    <3> QED BY <2>1, <3>1
  <2>5. PresentsInv(i)'
    BY <1>4, <1>6, <1>8, <1>10, <1>13, <2>2, <2>3, <2>4, PresentsFrame
  <2> QED BY <1>12, <2>5
<1>14. CASE i = j
  <2> DEFINE p == pool[i]  q == pool'[i]
  <2>1. q = [available |-> WithoutNext(p), used |-> p.used \cup {NextFence(p)}]
    BY <1>9, <1>14 DEF getFenceFromPool, Typed
  <2>2. /\ NumberedPool(q) /\ Created(q) \in Nat /\ Created(q) <= Created(p) + 1
        /\ 0 \notin ToSet(q.available) \cup q.used
    <3>1. /\ p \in Pools /\ IsFiniteSet(p.used) /\ NumberedPool(p)
          /\ 0 \notin ToSet(p.available) \cup p.used
      BY CreatedTyped DEF PresentsInv, FencesCreated
    <3> HIDE DEF p, q
    <3> QED BY <2>1, <3>1, GetCreated
  <2>3. PICK c \in Nat, d \in Nat, m \in Nat :
          c = Created(p) /\ d = Created(q) /\ m = PresentCount(i) /\ d <= c + 1
    BY <2>2, CreatedTyped, Sizes DEF Sized
  <2> HIDE DEF p, q
  <2>4. c < o /\ o <= m
    <3>1. Streamed(1, i, o) BY <1>7, <1>14
    <3> QED BY <2>3, <3>1 DEF p, PresentsInv, StreamInv
  <2>5. ASSUME NEW k \in Nat, NEW n \in Nat, Streamed(k, i, n)' PROVE o < n /\ n <= m
    <3>1. k \in Nat \ {0} /\ k + 1 \in Nat /\ Streamed(k + 1, i, n) BY <2>5, <1>7
    <3>2. Streamed(1, i, o) /\ 1 < k + 1 BY <1>7, <1>14, <3>1
    <3>3. o < n BY <3>1, <3>2 DEF PresentsInv, StreamInv
    <3>4. n <= m BY <2>3, <3>1 DEF PresentsInv, StreamInv
    <3> QED BY <3>3, <3>4
  <2>6. StreamInv(i)'
    <3>1. ASSUME NEW k \in Nat, NEW n \in Nat, Streamed(k, i, n)' PROVE d < n /\ n <= m
      <4>1. o < n /\ n <= m BY <2>5, <3>1
      <4> QED BY <2>3, <2>4, <4>1
    <3>2. ASSUME NEW k \in Nat, NEW n \in Nat, NEW l \in Nat, NEW r \in Nat,
                 Streamed(l, i, r)', Streamed(k, i, n)', l < k
          PROVE  r < n
      <4>1. /\ Streamed(k + 1, i, n) /\ k + 1 \in Nat
            /\ Streamed(l + 1, i, r) /\ l + 1 \in Nat /\ l + 1 < k + 1
        BY <3>2, <1>10
      <4> QED BY <4>1 DEF PresentsInv, StreamInv
    <3> QED BY <1>8, <2>3, <3>1, <3>2 DEF q, StreamInv
  <2>7. FlightsInv(i)'
    <3> SUFFICES ASSUME NEW n \in Nat, Flying(i, n)'
                 PROVE  n \in 1 .. m /\ \A k, r \in Nat : Streamed(k, i, r)' => n < r
      BY <1>8, <2>3 DEF FlightsInv
    <3>1. CASE n = o BY <2>3, <2>4, <2>5, <3>1
    <3>2. CASE Flying(i, n)
      <4>1. n \in 1 .. m BY <2>3, <3>2 DEF PresentsInv, FlightsInv
      <4>2. ASSUME NEW k \in Nat, NEW r \in Nat, Streamed(k, i, r)' PROVE n < r
        <5>1. k + 1 \in Nat /\ Streamed(k + 1, i, r) BY <4>2, <1>10
        <5> QED BY <3>2, <5>1 DEF PresentsInv, FlightsInv
      <4> QED BY <4>1, <4>2
    <3> QED BY <1>6, <3>1, <3>2
  <2>8. ~Flying(i, o)
    <3> SUFFICES ASSUME Flying(i, o) PROVE FALSE OBVIOUS
    <3>1. Streamed(1, i, o) BY <1>7, <1>14
    <3>2. o < o BY <3>1 DEF PresentsInv, FlightsInv
    <3> QED BY <3>2
  <2>9. FlightsUnique(i)'
    <3>1. \A y : ~Flies(y, i, o) BY <2>8 DEF Flying, Flies
    <3> QED BY <1>5, <3>1 DEF PresentsInv, FlightsUnique
  <2>10. FencesCreated(i)'
    <3>1. d <= m BY <2>3, <2>4
    <3>2. Created(pool[i])' <= PresentCount(i)' BY <1>8, <2>3, <3>1 DEF q, Created
    <3>3. NumberedPool(pool[i])' BY <2>2 DEF q, NumberedPool, Created
    <3> QED BY <2>2, <3>2, <3>3 DEF q, FencesCreated
  <2>11. timeline'[i].presents <= Cardinality(Counted(i)') BY <1>4, <1>12 DEF PresentsInv
  <2> QED BY <1>12, <2>6, <2>7, <2>9, <2>10, <2>11 DEF PresentsInv
<1> QED BY <1>13, <1>14

(* A worker that begins a wait takes the present over.                     *)
LEMMA PresentsBegun ==
  ASSUME Typed, Typed', NEW w \in Workers, NEW u \in tasks, doSyncThreadCmd(w, u),
         NEW i \in Images, FlightsUnique(i)
  PROVE  FlightsUnique(i)' /\ \A n : Flying(i, n)' <=> Flying(i, n)
<1>1. CASE u.op = "wait"
  <2>1. PICK x, y : /\ x \in Flights /\ x.task = u /\ y.task = u
                    /\ Flights' = (Flights \ {x}) \cup {y}
    BY <1>1, FlightsBegun
  <2>2. \A z, n : Flies(z, i, n)' <=> \/ z # x /\ Flies(z, i, n)
                                      \/ z = y /\ u.image = i /\ u.nth = n
    BY <2>1 DEF Flies
  <2>3. \A n : Flies(x, i, n) <=> u.image = i /\ u.nth = n BY <2>1 DEF Flies
  <2>4. FlightsUnique(i)' BY <2>2, <2>3 DEF FlightsUnique
  <2>5. \A z, n : (Flies(z, i, n) => z \in Flights) /\ (Flies(z, i, n)' => z \in Flights')
    BY DEF Flies
  <2>6. \A n : Flying(i, n)' <=> Flying(i, n) BY <2>2, <2>3, <2>5 DEF Flying
  <2> QED BY <2>4, <2>6
<1>2. CASE u.op # "wait"
  <2>1. /\ \A t : t.op = "wait" => (t \in tasks' <=> t \in tasks)
        /\ rt' = rt /\ \A v \in Workers \ {w} : worker'[v] = worker[v]
        /\ worker[w].pc \notin Returns /\ worker'[w].pc \notin Returns
    BY <1>2 DEF doSyncThreadCmd, Typed, At, Idle, Returns
  <2>2. Flights' = Flights BY <2>1, FlightsKept
  <2> QED BY <2>2 DEF FlightsUnique, Flying, Flies
<1> QED BY <1>1, <1>2

(* What the methods of the timeline leave behind.                          *)
LEMMA PollFields ==
  ASSUME Typed, NEW i \in Images, NEW tl \in Timelines, PollLocked(i, tl)
  PROVE  /\ timeline'[i].presents = tl.presents /\ timeline'[i].requests = tl.requests
         /\ timeline'[i].pending = tl.pending \ Ready(tl)
         /\ \A j \in Images \ {i} : timeline'[j] = timeline[j]
BY DEF Typed, PollLocked, Polled, Timelines

LEMMA SignalFields ==
  ASSUME Typed, NEW i \in Images, signalNextPresentAndPoll(i)
  PROVE  /\ timeline'[i].presents = timeline[i].presents + 1
         /\ timeline'[i].requests = timeline[i].requests
         /\ timeline'[i].pending =
              {r \in timeline[i].pending : ~(r.count < timeline[i].presents + 1)}
         /\ \A j \in Images \ {i} : timeline'[j] = timeline[j]
         /\ Call({r.export : r \in {r \in timeline[i].pending :
                                      r.count < timeline[i].presents + 1}})
<1> DEFINE tl == timeline[i]  u == [tl EXCEPT !.presents = @ + 1]
<1>1. tl \in Timelines BY DEF Typed
<1>2. PollLocked(i, u) BY DEF signalNextPresentAndPoll
<1> HIDE DEF tl
<1>3. /\ u \in Timelines /\ u.pending = tl.pending /\ u.presents = tl.presents + 1
      /\ u.requests = tl.requests
  BY <1>1 DEF Timelines
<1> HIDE DEF u
<1>4. Ready(u) = {r \in tl.pending : r.count < tl.presents + 1} BY <1>3 DEF Ready
<1>5. /\ timeline'[i].presents = u.presents /\ timeline'[i].requests = u.requests
      /\ timeline'[i].pending = u.pending \ Ready(u)
      /\ \A j \in Images \ {i} : timeline'[j] = timeline[j]
  BY <1>2, <1>3, PollFields
<1>6. timeline'[i].pending = {r \in tl.pending : ~(r.count < tl.presents + 1)}
  BY <1>3, <1>4, <1>5
<1>7. Call({r.export : r \in {r \in tl.pending : r.count < tl.presents + 1}})
  BY <1>2, <1>4 DEF PollLocked
<1> QED BY <1>3, <1>5, <1>6, <1>7 DEF tl

LEMMA RegisterFields ==
  ASSUME Typed, NEW i \in Images, NEW e \in Nat, registerCallbackForNextPresentAndPoll(i, e),
         NEW p, p = timeline[i].pending
                      \cup {[count |-> timeline[i].requests, export |-> e]}
  PROVE  /\ timeline'[i].presents = timeline[i].presents
         /\ timeline'[i].requests = timeline[i].requests + 1
         /\ timeline'[i].pending = {r \in p : ~(r.count < timeline[i].presents)}
         /\ \A j \in Images \ {i} : timeline'[j] = timeline[j]
         /\ Call({r.export : r \in {r \in p : r.count < timeline[i].presents}})
<1> DEFINE tl == timeline[i]
           u == [tl EXCEPT !.requests = @ + 1, !.pending = p]
<1>1. tl \in Timelines BY DEF Typed
<1>2. p \in SUBSET [count : Nat, export : Nat] BY <1>1 DEF Timelines
<1>3. PollLocked(i, u)
  <2>1. u = [timeline[i] EXCEPT
               !.requests = @ + 1,
               !.pending = @ \cup {[count |-> timeline[i].requests, export |-> e]}]
    BY <1>1 DEF Timelines
  <2> QED BY <2>1 DEF registerCallbackForNextPresentAndPoll
<1> HIDE DEF tl
<1>4. tl.requests + 1 \in Nat BY <1>1 DEF Timelines
<1>5. /\ u \in Timelines /\ u.pending = p /\ u.presents = tl.presents
      /\ u.requests = tl.requests + 1
  BY <1>1, <1>2, <1>4 DEF Timelines
<1> HIDE DEF u
<1>6. Ready(u) = {r \in p : r.count < tl.presents} BY <1>5 DEF Ready
<1>7. /\ timeline'[i].presents = u.presents /\ timeline'[i].requests = u.requests
      /\ timeline'[i].pending = u.pending \ Ready(u)
      /\ \A j \in Images \ {i} : timeline'[j] = timeline[j]
  BY <1>3, <1>5, PollFields
<1>8. timeline'[i].pending = {r \in p : ~(r.count < tl.presents)} BY <1>5, <1>6, <1>7
<1>9. Call({r.export : r \in {r \in p : r.count < tl.presents}})
  BY <1>3, <1>6 DEF PollLocked
<1> QED BY <1>5, <1>7, <1>8, <1>9 DEF tl

LEMMA DestroyFields ==
  ASSUME Typed, NEW i \in Images, destroyTimeline(i)
  PROVE  /\ timeline'[i].presents = timeline[i].presents
         /\ timeline'[i].requests = timeline[i].requests
         /\ timeline'[i].pending = {}
         /\ \A j \in Images \ {i} : timeline'[j] = timeline[j]
         /\ Call({r.export : r \in timeline[i].pending})
BY DEF destroyTimeline, Typed, Timelines

-----------------------------------------------------------------------------
(***************************************************************************)
(* The steps, as the presents see them.                                    *)
(***************************************************************************)
Signals == renderThreadSignal \/ \E w \in Workers : workerSignal(w)
Begins  == \E w \in Workers : \E t \in tasks : doSyncThreadCmd(w, t)
Registrations == \E w \in Workers : registerQsriCallback(w)
Teardowns == renderThreadTeardown \/ \E w \in Workers : workerTeardown(w)
ReturnsFence == renderThreadReturn \/ \E w \in Workers : workerReturn(w)

LEMMA SignalEffect ==
  ASSUME Typed, Signals
  PROVE  \E x \in Flights :
           /\ x.task \in WaitTasks /\ Over(x.task) /\ Flights' = Flights \ {x}
           /\ signalNextPresentAndPoll(x.task.image)
           /\ UNCHANGED <<native, guest, mImageInfo, pool, gpu, tasks, late>>
<1>1. CASE renderThreadSignal
  <2>1. /\ rt.pc = "signal" /\ rt' = Idle /\ signalNextPresentAndPoll(rt.task.image)
        /\ UNCHANGED <<native, guest, mImageInfo, pool, gpu, tasks, worker, late>>
    BY <1>1 DEF renderThreadSignal
  <2>2. rt.pc \in Returns /\ rt'.pc \notin Returns BY <2>1 DEF Returns, Idle
  <2>3. rt.task \in WaitTasks /\ Over(rt.task) BY <2>1, <2>2, ThreadTask DEF Over
  <2>4. PICK x \in Flights : x.task = rt.task /\ Flights' = Flights \ {x}
    BY <2>1, <2>2, FlightsLandedHere
  <2> QED BY <2>1, <2>3, <2>4
<1>2. ASSUME NEW w \in Workers, workerSignal(w)
      PROVE  \E x \in Flights :
               /\ x.task \in WaitTasks /\ Over(x.task) /\ Flights' = Flights \ {x}
               /\ signalNextPresentAndPoll(x.task.image)
               /\ UNCHANGED <<native, guest, mImageInfo, pool, gpu, tasks, late>>
  <2>1. /\ worker[w].pc = "signal" /\ LetGo(w)
        /\ signalNextPresentAndPoll(worker[w].task.image)
        /\ UNCHANGED <<native, guest, mImageInfo, pool, gpu, rt, tasks, late>>
    BY <1>2 DEF workerSignal
  <2>2. /\ worker[w].pc \in Returns /\ worker'[w].pc \notin Returns
        /\ \A v \in Workers \ {w} : worker'[v] = worker[v]
    BY <2>1 DEF LetGo, Typed, At, Idle, Returns
  <2>3. worker[w].task \in WaitTasks /\ Over(worker[w].task)
    BY <2>1, <2>2, WorkerTask DEF Over
  <2>4. PICK x \in Flights : x.task = worker[w].task /\ Flights' = Flights \ {x}
    BY <2>1, <2>2, FlightsLanded
  <2> QED BY <2>1, <2>3, <2>4
<1> QED BY <1>1, <1>2 DEF Signals

(* The flights of all other steps stay.                                    *)
LEMMA FlightsStay ==
  ASSUME Typed, [Next]_vars, ~syncImageToColorBuffer, ~Begins, ~Signals
  PROVE  Flights' = Flights
<1>1. ASSUME UNCHANGED <<tasks, worker>>,
             \/ rt' = rt
             \/ rt.pc \notin Returns /\ rt'.pc \notin Returns
             \/ rt.pc \in Returns /\ rt'.pc \in Returns /\ rt'.task = rt.task
      PROVE  Flights' = Flights
  BY <1>1, FlightsKept
<1>2. ASSUME UNCHANGED <<tasks, rt>>, NEW w \in Workers,
             \A v \in Workers \ {w} : worker'[v] = worker[v],
             \/ worker[w].pc \notin Returns /\ worker'[w].pc \notin Returns
             \/ /\ worker[w].pc \in Returns /\ worker'[w].pc \in Returns
                /\ worker'[w].task = worker[w].task
      PROVE  Flights' = Flights
  BY <1>2, FlightsKept
<1>3. ASSUME UNCHANGED <<tasks, worker, rt>> PROVE Flights' = Flights BY <1>1, <1>3
<1>4. \A i \in Images : (\E q \in Queues : Present(i, q)) \/ DestroyImage(i)
        => UNCHANGED <<tasks, worker, rt>>
  BY DEF Present, DestroyImage
<1>5. CASE destroyImageLocked
  <2>1. /\ UNCHANGED <<tasks, worker>> /\ rt.pc = "idle" /\ rt'.pc \in {"idle", "teardown"}
    BY <1>5 DEF destroyImageLocked, mLockFree, Idle, At
  <2>2. rt.pc \notin Returns /\ rt'.pc \notin Returns BY <2>1 DEF Returns
  <2> QED BY <1>1, <2>1, <2>2
<1>6. CASE renderThreadWait
  BY <1>1, <1>6 DEF renderThreadWait, At, Returns
<1>7. CASE renderThreadReturn
  BY <1>1, <1>7 DEF renderThreadReturn, At, Returns
<1>8. CASE renderThreadTeardown
  BY <1>1, <1>8 DEF renderThreadTeardown, Idle, Returns
<1>9. CASE triggerWaitVkQsriWithCompletionCallback
  <2>1. \A t : t.op = "wait" => (t \in tasks' <=> t \in tasks)
    BY <1>9 DEF triggerWaitVkQsriWithCompletionCallback, RegisterTask
  <2>2. UNCHANGED <<worker, rt>> BY <1>9 DEF triggerWaitVkQsriWithCompletionCallback
  <2> QED BY <2>1, <2>2, FlightsKept
<1>10. ASSUME NEW w \in Workers, Worker(w) PROVE Flights' = Flights
  <2>1. CASE registerUnknownImage(w)
    BY <1>2, <2>1 DEF registerUnknownImage, Typed, Idle, Returns
  <2>2. CASE registerLookup(w)
    <3>1. worker[w] \in [pc : Registers, task : RegisterTasks]
      BY <2>2 DEF registerLookup, Typed, Pooled, Returns, Registers, Idle
    <3>2. worker'[w].pc = "register" /\ \A v \in Workers \ {w} : worker'[v] = worker[v]
      BY <2>2, <3>1 DEF registerLookup, Typed
    <3> QED BY <1>2, <2>2, <3>2 DEF registerLookup, Returns
  <2>3. CASE registerQsriCallback(w)
    <3>1. worker'[w].pc \notin Returns /\ \A v \in Workers \ {w} : worker'[v] = worker[v]
      BY <2>3 DEF registerQsriCallback, LetGo, Typed, At, Idle, Returns
    <3> QED BY <1>2, <2>3, <3>1 DEF registerQsriCallback, Returns
  <2>4. CASE waitForQsriFenceTask(w)
    <3>1. worker[w] \in [pc : Returns, task : WaitTasks]
      BY <2>4 DEF waitForQsriFenceTask, Typed, Pooled, Returns, Registers, Idle
    <3>2. /\ worker'[w].pc = "return" /\ worker'[w].task = worker[w].task
          /\ \A v \in Workers \ {w} : worker'[v] = worker[v]
      BY <2>4, <3>1 DEF waitForQsriFenceTask, Typed
    <3> QED BY <1>2, <2>4, <3>2 DEF waitForQsriFenceTask, Returns
  <2>5. CASE workerReturn(w)
    <3>1. worker[w] \in [pc : Returns, task : WaitTasks]
      BY <2>5 DEF workerReturn, Typed, Pooled, Returns, Registers, Idle
    <3>2. /\ worker'[w].pc = "signal" /\ worker'[w].task = worker[w].task
          /\ \A v \in Workers \ {w} : worker'[v] = worker[v]
      BY <2>5, <3>1 DEF workerReturn, Typed
    <3> QED BY <1>2, <2>5, <3>2 DEF workerReturn, Returns
  <2>6. CASE workerTeardown(w)
    BY <1>2, <2>6 DEF workerTeardown, Typed, Idle, Returns
  <2> QED BY <1>10, <2>1, <2>2, <2>3, <2>4, <2>5, <2>6 DEF Worker, Signals
<1>11. \A q \in Queues : Finish(q) => UNCHANGED <<tasks, worker, rt>> BY DEF Finish
<1>12. UNCHANGED vars => UNCHANGED <<tasks, worker, rt>> BY DEF vars
<1> QED
  BY <1>3, <1>4, <1>5, <1>6, <1>7, <1>8, <1>9, <1>10, <1>11, <1>12
  DEF Next, RenderThread, Begins, Signals

(* Who changes a timeline, and who the stream and the exports.             *)
LEMMA OtherFrames ==
  ASSUME Typed, [Next]_vars
  PROVE  /\ Signals \/ Registrations \/ Teardowns \/ timeline' = timeline
         /\ syncImageToColorBuffer \/ ReturnsFence \/ pool' = pool
         /\ \/ \E i \in Images, q \in Queues : Present(i, q)
            \/ guest'.exports = guest.exports
         /\ \/ triggerWaitVkQsriWithCompletionCallback
            \/ guest'.decoded = guest.decoded
         /\ \/ syncImageToColorBuffer \/ destroyImageLocked
            \/ \E i \in Images, q \in Queues : Present(i, q)
            \/ \E i \in Images : DestroyImage(i)
            \/ guest'.stream = guest.stream
<1>1. ASSUME NEW i \in Images, NEW q \in Queues, Present(i, q)
      PROVE  UNCHANGED <<timeline, pool>> /\ guest'.decoded = guest.decoded
  BY <1>1 DEF Present, Typed, Guests
<1>2. ASSUME NEW i \in Images, DestroyImage(i)
      PROVE  /\ UNCHANGED <<timeline, pool>> /\ guest'.decoded = guest.decoded
             /\ guest'.exports = guest.exports
  BY <1>2 DEF DestroyImage, Typed, Guests
<1>3. ASSUME syncImageToColorBuffer
      PROVE  /\ timeline' = timeline /\ guest'.decoded = guest.decoded
             /\ guest'.exports = guest.exports
  BY <1>3 DEF syncImageToColorBuffer, Typed, Guests
<1>4. ASSUME destroyImageLocked
      PROVE  /\ UNCHANGED <<timeline, pool>> /\ guest'.decoded = guest.decoded
             /\ guest'.exports = guest.exports
  BY <1>4 DEF destroyImageLocked, Typed, Guests
<1>5. ASSUME triggerWaitVkQsriWithCompletionCallback
      PROVE  /\ UNCHANGED <<timeline, pool>> /\ guest'.stream = guest.stream
             /\ guest'.exports = guest.exports
  BY <1>5 DEF triggerWaitVkQsriWithCompletionCallback, Typed, Guests
<1>6. renderThreadWait => UNCHANGED <<guest, timeline, pool>> BY DEF renderThreadWait
<1>7. renderThreadReturn => UNCHANGED <<guest, timeline>> BY DEF renderThreadReturn
<1>8. renderThreadSignal \/ renderThreadTeardown => UNCHANGED <<guest, pool>>
  BY DEF renderThreadSignal, renderThreadTeardown
<1>9. \A w \in Workers : \A t \in tasks : doSyncThreadCmd(w, t)
        => UNCHANGED <<guest, timeline, pool>>
  BY DEF doSyncThreadCmd
<1>10. \A w \in Workers : \/ registerUnknownImage(w) \/ registerLookup(w)
                          \/ waitForQsriFenceTask(w)
         => UNCHANGED <<guest, timeline, pool>>
  BY DEF registerUnknownImage, registerLookup, waitForQsriFenceTask
<1>11. \A w \in Workers : workerReturn(w) => UNCHANGED <<guest, timeline>>
  BY DEF workerReturn
<1>12. \A w \in Workers : workerSignal(w) \/ workerTeardown(w) \/ registerQsriCallback(w)
         => UNCHANGED <<guest, pool>>
  BY DEF workerSignal, workerTeardown, registerQsriCallback
<1>13. \A q \in Queues : Finish(q) => UNCHANGED <<guest, timeline, pool>> BY DEF Finish
<1>14. UNCHANGED vars => UNCHANGED <<guest, timeline, pool>> BY DEF vars
<1>15. CASE \E i \in Images, q \in Queues : Present(i, q) BY <1>1, <1>15
<1>16. CASE \E i \in Images : DestroyImage(i) BY <1>2, <1>16
<1>17. CASE RenderThread
  BY <1>3, <1>4, <1>6, <1>7, <1>8, <1>17 DEF RenderThread, Signals, Teardowns, ReturnsFence
<1>18. CASE triggerWaitVkQsriWithCompletionCallback BY <1>5, <1>18
<1>19. CASE \E w \in Workers : Worker(w) \/ \E t \in tasks : doSyncThreadCmd(w, t)
  BY <1>9, <1>10, <1>11, <1>12, <1>19
  DEF Worker, Signals, Teardowns, ReturnsFence, Registrations
<1>20. CASE (\E q \in Queues : Finish(q)) \/ UNCHANGED vars BY <1>13, <1>14, <1>20
<1> QED BY <1>15, <1>16, <1>17, <1>18, <1>19, <1>20 DEF Next

(* A destruction is no present.                                            *)
LEMMA DestructionStreamed ==
  ASSUME Typed, destroyImageLocked \/ \E j \in Images : DestroyImage(j), NEW i
  PROVE  /\ \E s \in {0, 1} : \A k, n \in Nat : Streamed(k, i, n)' => Streamed(k + s, i, n)
         /\ \A n : InStream(i, n)' <=> InStream(i, n)
<1>1. CASE destroyImageLocked
  <2>1. /\ guest.stream # <<>> /\ guest'.stream = Tail(guest.stream)
        /\ NextCall.op = "destroy"
    BY <1>1 DEF destroyImageLocked, Typed, Guests
  <2>2. /\ \A k \in Nat \ {0} : \A n : Streamed(k, i, n)' <=> Streamed(k + 1, i, n)
        /\ \A n : ~Streamed(0, i, n) /\ ~Streamed(0, i, n)'
        /\ \A n : ~Streamed(1, i, n)
    BY <2>1, StreamTaken
  <2>3. \A k, n \in Nat : Streamed(k, i, n)' => Streamed(k + 1, i, n) BY <2>2
  <2>4. ASSUME NEW n, InStream(i, n)' PROVE InStream(i, n)
    <3>1. PICK k \in Nat : Streamed(k, i, n)' BY <2>4 DEF InStream
    <3>2. k \in Nat \ {0} /\ k + 1 \in Nat BY <2>2, <3>1
    <3>3. Streamed(k + 1, i, n) BY <2>2, <3>1, <3>2
    <3> QED BY <3>2, <3>3 DEF InStream
  <2>5. ASSUME NEW n, InStream(i, n) PROVE InStream(i, n)'
    <3>1. PICK k \in Nat : Streamed(k, i, n) BY <2>5 DEF InStream
    <3>2. k # 0 /\ k # 1 BY <2>2, <3>1
    <3>3. PICK l \in Nat \ {0} : l + 1 = k
      <4>1. k - 1 \in Nat \ {0} /\ k - 1 + 1 = k BY <3>2
      <4> QED BY <4>1
    <3>4. Streamed(l, i, n)' BY <2>2, <3>1, <3>3
    <3> QED BY <3>4 DEF InStream
  <2> QED BY <2>3, <2>4, <2>5
<1>2. ASSUME NEW j \in Images, DestroyImage(j)
      PROVE  \A k \in Nat : \A n : Streamed(k, i, n)' <=> Streamed(k, i, n)
  <2>1. PICK m \in Nat : m = Len(guest.stream) BY DEF Typed, Guests
  <2>2. PICK c : c = DestroyCall(j) OBVIOUS
  <2>3. guest'.stream = Append(guest.stream, c) BY <1>2, <2>2 DEF DestroyImage, Typed, Guests
  <2>4. c.op # "present" BY <2>2 DEF DestroyCall
  <2>5. /\ \A k \in Nat : k # m + 1 => \A a, n : Streamed(k, a, n)' <=> Streamed(k, a, n)
        /\ \A a, n : ~Streamed(m + 1, a, n)
        /\ \A a, n : ~Streamed(m + 1, a, n)'
    BY <2>1, <2>3, <2>4, StreamAppended
  <2> QED BY <2>5
<1>3. CASE \E j \in Images : DestroyImage(j)
  <2>1. \A k \in Nat : \A n : Streamed(k, i, n)' <=> Streamed(k, i, n) BY <1>2, <1>3
  <2>2. \A k, n \in Nat : Streamed(k, i, n)' => Streamed(k + 0, i, n) BY <2>1
  <2>3. \A n : InStream(i, n)' <=> InStream(i, n) BY <2>1 DEF InStream
  <2> QED BY <2>2, <2>3
<1> QED BY <1>1, <1>3

LEMMA ElsewherePresent ==
  ASSUME Typed, NEW j \in Images, NEW q \in Queues, Present(j, q), NEW i, i # j
  PROVE  \A k \in Nat : \A n : Streamed(k, i, n)' <=> Streamed(k, i, n)
<1>1. PICK m \in Nat : m = Len(guest.stream) BY DEF Typed, Guests
<1>2. PICK c, n : c = PresentCall(j, q, n) /\ guest'.stream = Append(guest.stream, c)
  BY DEF Present, Typed, Guests
<1>3. c.image # i BY <1>2 DEF PresentCall
<1>4. /\ \A k \in Nat : k # m + 1 => \A a, o : Streamed(k, a, o)' <=> Streamed(k, a, o)
      /\ \A a, o : ~Streamed(m + 1, a, o)
      /\ \A o : ~Streamed(m + 1, i, o)'
  BY <1>1, <1>2, <1>3, StreamAppended
<1> QED BY <1>4

LEMMA PresentsOnlySignaled ==
  ASSUME Typed, [Next]_vars, NEW i \in Images,
         \A t \in WaitTasks : signalNextPresentAndPoll(t.image) => t.image # i \/ ~Signals
  PROVE  timeline'[i].presents = timeline[i].presents
<1>1. CASE Signals
  <2>1. PICK t \in WaitTasks : signalNextPresentAndPoll(t.image) BY <1>1, SignalEffect
  <2>2. t.image \in Images BY DEF WaitTasks
  <2> QED BY <1>1, <2>1, <2>2, SignalFields
<1>2. ASSUME NEW w \in Workers, registerQsriCallback(w)
      PROVE  timeline'[i].presents = timeline[i].presents
  <2>1. /\ worker[w].task \in RegisterTasks
        /\ registerCallbackForNextPresentAndPoll(worker[w].task.image, worker[w].task.export)
    BY <1>2, WorkerTask DEF registerQsriCallback, Registers
  <2>2. worker[w].task.image \in Images /\ worker[w].task.export \in Nat
    BY <2>1 DEF RegisterTasks
  <2>3. PICK j \in Images, e \in Nat : registerCallbackForNextPresentAndPoll(j, e)
    BY <2>1, <2>2
  <2> QED BY <2>3, RegisterFields
<1>3. CASE Teardowns
  <2>1. PICK j \in Images : destroyTimeline(j)
    BY <1>3, ThreadTask, WorkerTask DEF Teardowns, renderThreadTeardown, workerTeardown
  <2> QED BY <2>1, DestroyFields
<1>4. CASE timeline' = timeline BY <1>4
<1> QED BY <1>1, <1>2, <1>3, <1>4, OtherFrames DEF Registrations

LEMMA FencesStay ==
  ASSUME Typed, [Next]_vars, ~syncImageToColorBuffer, NEW i \in Images,
         FencesCreated(i), PresentCount(i)' = PresentCount(i)
  PROVE  FencesCreated(i)' /\ Created(pool'[i]) <= Created(pool[i])
<1>1. CASE pool' = pool
  <2>1. PICK c \in Nat : c = Created(pool[i]) BY CreatedTyped
  <2> QED BY <1>1, <2>1 DEF FencesCreated, NumberedPool, Created
<1>2. CASE ReturnsFence
  <2>1. PICK t \in WaitTasks : returnFence(t.image, t.fence)
    BY <1>2, ThreadTask, WorkerTask DEF ReturnsFence, renderThreadReturn, workerReturn, Returns
  <2>2. t.image \in Images /\ t.fence \in Nat BY DEF WaitTasks
  <2> QED BY <2>1, <2>2, ReturnCreated
<1> QED BY <1>1, <1>2, OtherFrames

LEMMA PresentsStep ==
  ASSUME Typed, Typed', [Next]_vars, NEW i \in Images, PresentsInv(i)
  PROVE  /\ PresentsInv(i)'
         /\ \/ Counted(i)' = Counted(i)
            \/ \E t \in WaitTasks : /\ Signals /\ Over(t) /\ t.image = i
                                    /\ Counted(i)' \subseteq Counted(i) \cup {t.nth}
<1>u. FlightsUnique(i) /\ FencesCreated(i) BY DEF PresentsInv
<1>1. ASSUME NEW s \in {0, 1}, \A k, n \in Nat : Streamed(k, i, n)' => Streamed(k + s, i, n),
             \A n \in Nat : InStream(i, n)' <=> InStream(i, n),
             \A n \in Nat : Flying(i, n)' <=> Flying(i, n), FlightsUnique(i)',
             PresentCount(i)' = PresentCount(i), ~syncImageToColorBuffer,
             timeline'[i].presents = timeline[i].presents
      PROVE  PresentsInv(i)' /\ Counted(i)' = Counted(i)
  <2>1. PresentsInv(i)' BY <1>u, <1>1, FencesStay, PresentsFrame
  <2>2. \A n \in 1 .. PresentCount(i) : n \in Nat OBVIOUS
  <2> QED BY <1>1, <2>1, <2>2 DEF Counted
<1>2. ASSUME NEW j \in Images, NEW q \in Queues, Present(j, q)
      PROVE  PresentsInv(i)' /\ Counted(i)' = Counted(i)
  <2>1. CASE i = j BY <1>2, <2>1, PresentsMade
  <2>2. CASE i # j
    <3>1. UNCHANGED <<tasks, worker, rt, timeline>> /\ rt' = rt BY <1>2 DEF Present
    <3>2. Flights' = Flights BY <3>1, FlightsKept
    <3>3. /\ \A n : Flying(i, n)' <=> Flying(i, n)
          /\ FlightsUnique(i)'
      BY <1>u, <3>2 DEF Flying, Flies, FlightsUnique
    <3>4. \A k \in Nat : \A n : Streamed(k, i, n)' <=> Streamed(k, i, n)
      BY <1>2, <2>2, ElsewherePresent
    <3>5. \A n : InStream(i, n)' <=> InStream(i, n) BY <3>4 DEF InStream
    <3>6. \A k, n \in Nat : Streamed(k, i, n)' => Streamed(k + 0, i, n) BY <3>4
    <3>7. PresentCount(i)' = PresentCount(i) BY <1>2, <2>2, PresentGrows
    <3>8. FencesCreated(i)' /\ Created(pool'[i]) <= Created(pool[i])
      <4>1. pool' = pool BY <1>2 DEF Present
      <4>2. PICK c \in Nat : c = Created(pool[i]) BY CreatedTyped
      <4> QED BY <1>u, <3>7, <4>1, <4>2 DEF FencesCreated, NumberedPool, Created
    <3>9. PresentsInv(i)' BY <3>1, <3>3, <3>6, <3>7, <3>8, PresentsFrame
    <3>10. Counted(i)' = Counted(i) BY <3>3, <3>5, <3>7 DEF Counted
    <3> QED BY <3>9, <3>10
  <2> QED BY <2>1, <2>2
<1>3. CASE syncImageToColorBuffer BY <1>3, PresentsSubmitted
<1>4. CASE Begins
  <2>1. PICK w \in Workers, t \in tasks : doSyncThreadCmd(w, t) BY <1>4 DEF Begins
  <2>2. UNCHANGED <<guest, timeline, pool>> BY <2>1 DEF doSyncThreadCmd
  <2>3. FlightsUnique(i)' /\ \A n : Flying(i, n)' <=> Flying(i, n)
    BY <1>u, <2>1, PresentsBegun
  <2>4. /\ \A k, n \in Nat : Streamed(k, i, n)' => Streamed(k + 0, i, n)
        /\ \A n : InStream(i, n)' <=> InStream(i, n)
    BY <2>2, StreamKept
  <2>5. PresentCount(i)' = PresentCount(i) BY <2>2, SamePresents
  <2>6. FencesCreated(i)' /\ Created(pool'[i]) <= Created(pool[i])
    <3>1. PICK c \in Nat : c = Created(pool[i]) BY CreatedTyped
    <3> QED BY <1>u, <2>2, <2>5, <3>1 DEF FencesCreated, NumberedPool, Created
  <2>7. PresentsInv(i)' BY <2>2, <2>3, <2>4, <2>5, <2>6, PresentsFrame
  <2>8. Counted(i)' = Counted(i) BY <2>3, <2>4, <2>5 DEF Counted
  <2> QED BY <2>7, <2>8
<1>5. CASE Signals
  <2>1. PICK x \in Flights :
          /\ x.task \in WaitTasks /\ Over(x.task) /\ Flights' = Flights \ {x}
          /\ signalNextPresentAndPoll(x.task.image)
          /\ UNCHANGED <<native, guest, mImageInfo, pool, gpu, tasks, late>>
    BY <1>5, SignalEffect
  <2>2. PICK j \in Images : j = x.task.image BY <2>1 DEF WaitTasks
  <2>3. /\ \A k, n : Streamed(k, i, n)' <=> Streamed(k, i, n)
        /\ \A n : InStream(i, n)' <=> InStream(i, n)
    BY <2>1, StreamKept
  <2>4. PresentCount(i)' = PresentCount(i) BY <2>1, SamePresents
  <2>5. \A y, n : Flies(y, i, n)' <=> y # x /\ Flies(y, i, n) BY <2>1 DEF Flies
  <2>6. /\ timeline'[j].presents = timeline[j].presents + 1
        /\ \A l \in Images \ {j} : timeline'[l] = timeline[l]
    BY <2>1, <2>2, SignalFields
  <2>7. CASE i = j
    <3>1. PresentsInv(i)' BY <2>1, <2>2, <2>6, <2>7, PresentsSignaled
    <3>2. ASSUME NEW n, Flying(i, n), n # x.task.nth PROVE Flying(i, n)'
      <4>1. PICK y \in Flights : Flies(y, i, n) BY <3>2 DEF Flying
      <4>2. y # x BY <3>2, <4>1 DEF Flies
      <4>3. Flies(y, i, n)' BY <2>5, <4>1, <4>2
      <4> QED BY <4>3 DEF Flying, Flies
    <3>3. Counted(i)' \subseteq Counted(i) \cup {x.task.nth}
      BY <2>3, <2>4, <3>2 DEF Counted
    <3> QED BY <1>5, <2>1, <2>2, <2>7, <3>1, <3>3
  <2>8. CASE i # j
    <3>1. \A n : ~Flies(x, i, n) BY <2>2, <2>8 DEF Flies
    <3>2. FlightsUnique(i)' BY <1>u, <2>5 DEF FlightsUnique
    <3>3. \A n : Flying(i, n)' <=> Flying(i, n)
      <4>1. \A y, n : Flies(y, i, n)' <=> Flies(y, i, n) BY <2>5, <3>1
      <4>2. \A y, n : (Flies(y, i, n) => y \in Flights) /\ (Flies(y, i, n)' => y \in Flights')
        BY DEF Flies
      <4> QED BY <4>1, <4>2 DEF Flying
    <3>4. \A k, n \in Nat : Streamed(k, i, n)' => Streamed(k + 0, i, n) BY <2>3
    <3>5. FencesCreated(i)' /\ Created(pool'[i]) <= Created(pool[i])
      <4>1. PICK c \in Nat : c = Created(pool[i]) BY CreatedTyped
      <4> QED BY <1>u, <2>1, <2>4, <4>1 DEF FencesCreated, NumberedPool, Created
    <3>6. PresentsInv(i)' BY <2>4, <2>6, <2>8, <3>2, <3>3, <3>4, <3>5, PresentsFrame
    <3>7. Counted(i)' = Counted(i) BY <2>3, <2>4, <3>3 DEF Counted
    <3> QED BY <3>6, <3>7
  <2> QED BY <2>7, <2>8
<1>6. CASE /\ ~syncImageToColorBuffer /\ ~Begins /\ ~Signals
           /\ ~\E j \in Images, q \in Queues : Present(j, q)
  <2>1. Flights' = Flights BY <1>6, FlightsStay
  <2>2. /\ \A n : Flying(i, n)' <=> Flying(i, n)
        /\ FlightsUnique(i)'
    BY <1>u, <2>1 DEF Flying, Flies, FlightsUnique
  <2>3. guest'.exports = guest.exports BY <1>6, OtherFrames
  <2>4. PresentCount(i)' = PresentCount(i) BY <2>3, SamePresents
  <2>5. timeline'[i].presents = timeline[i].presents BY <1>6, PresentsOnlySignaled
  <2>6. CASE guest'.stream = guest.stream
    <3>1. /\ \A k, n \in Nat : Streamed(k, i, n)' => Streamed(k + 0, i, n)
          /\ \A n : InStream(i, n)' <=> InStream(i, n)
      BY <2>6, StreamKept
    <3> QED BY <1>1, <1>6, <2>2, <2>4, <2>5, <3>1
  <2>7. CASE destroyImageLocked \/ \E j \in Images : DestroyImage(j)
    <3>1. PICK s \in {0, 1} : \A k, n \in Nat : Streamed(k, i, n)' => Streamed(k + s, i, n)
      BY <2>7, DestructionStreamed
    <3>2. \A n : InStream(i, n)' <=> InStream(i, n) BY <2>7, DestructionStreamed
    <3> QED BY <1>1, <1>6, <2>2, <2>4, <2>5, <3>1, <3>2
  <2> QED BY <1>6, <2>6, <2>7, OtherFrames
<1> QED BY <1>2, <1>3, <1>4, <1>5, <1>6

-----------------------------------------------------------------------------
(***************************************************************************)
(* Requests are counted as they are decoded and registered.                *)
(***************************************************************************)

(* Nothing that waits to be registered appears, and the timeline forgets.  *)
LEMMA RequestsFrame ==
  ASSUME Typed, Typed', NEW i \in Images, RequestsInv(i),
         DecodedOf(i) \subseteq DecodedOf(i)',
         \A t : t.op = "register" /\ t \in tasks' => t \in tasks,
         \A w \in Workers : worker'[w].pc \in Registers =>
           \/ worker'[w].task \in tasks /\ worker'[w].task.op = "register"
           \/ worker[w].pc \in Registers /\ worker'[w].task = worker[w].task,
         timeline'[i].requests = timeline[i].requests,
         timeline'[i].pending \subseteq timeline[i].pending
  PROVE  RequestsInv(i)'
<1>1. \A t \in tasks' : t.op = "register" /\ t.image = i => t.export \in DecodedOf(i)'
  BY DEF RequestsInv
<1>2. \A w \in Workers : worker'[w].pc \in Registers /\ worker'[w].task.image = i
                           => worker'[w].task.export \in DecodedOf(i)'
  BY DEF RequestsInv
<1>3. \A r \in timeline'[i].pending : /\ r.export \in DecodedOf(i)'
                                      /\ r.count < timeline'[i].requests
  BY DEF RequestsInv
<1>4. Registered(i) \subseteq Registered(i)'
  <2>1. \A e, t : InTasks(t, e)' => InTasks(t, e) BY DEF InTasks
  <2>2. \A e : \A w \in Workers : AtWorker(w, e)' => AtWorker(w, e) \/ \E t \in tasks : InTasks(t, e)
    BY DEF AtWorker, InTasks
  <2>3. \A e : Unregistered(e)' => Unregistered(e)
    BY <2>1, <2>2 DEF Unregistered, InTasks
  <2> QED BY <2>3 DEF Registered
<1>5. /\ Cardinality(Registered(i)) <= Cardinality(Registered(i)')
      /\ Cardinality(Registered(i)) \in Nat /\ Cardinality(Registered(i)') \in Nat
  BY <1>4, Sizes, SizesNext, FS_Subset DEF Sized
<1>6. PICK a \in Nat, b \in Nat, r \in Nat :
        /\ a = Cardinality(Registered(i)) /\ b = Cardinality(Registered(i)')
        /\ r = timeline[i].requests
  BY <1>5 DEF Typed, Timelines
<1>7. timeline'[i].requests <= Cardinality(Registered(i)') BY <1>5, <1>6 DEF RequestsInv
<1> QED BY <1>1, <1>2, <1>3, <1>7 DEF RequestsInv

(* An export is decoded and put before the workers.                        *)
LEMMA RequestsDecoded ==
  ASSUME Typed, Typed', triggerWaitVkQsriWithCompletionCallback,
         NEW i \in Images, RequestsInv(i)
  PROVE  RequestsInv(i)' /\ DecodedOf(i) \subseteq DecodedOf(i)'
<1>1. PICK d \in Nat, n \in Nat : d = guest.decoded /\ n = Len(guest.exports) /\ d < n
  BY DEF triggerWaitVkQsriWithCompletionCallback, Typed, Guests
<1>2. /\ guest'.decoded = d + 1 /\ guest'.exports = guest.exports
      /\ UNCHANGED <<timeline, worker>>
  BY <1>1 DEF triggerWaitVkQsriWithCompletionCallback, Typed, Guests
<1>3. PICK u : u = RegisterTask(ImageOf(d + 1), d + 1) OBVIOUS
<1>4. tasks' = tasks \cup {u} BY <1>1, <1>3 DEF triggerWaitVkQsriWithCompletionCallback
<1>5. u.export = d + 1 /\ u.image = ImageOf(d + 1) /\ u.op = "register"
  BY <1>3 DEF RegisterTask
<1>6. /\ 1 .. d \subseteq 1 .. d + 1 /\ d + 1 \in 1 .. d + 1 /\ d + 1 \notin 1 .. d
      /\ 1 .. d + 1 \subseteq 1 .. d \cup {d + 1}
  BY <1>1
<1>7. /\ DecodedOf(i) \subseteq DecodedOf(i)'
      /\ ImageOf(d + 1) = i => d + 1 \in DecodedOf(i)'
      /\ DecodedOf(i)' \subseteq DecodedOf(i) \cup {d + 1}
      /\ d + 1 \notin DecodedOf(i)
  BY <1>1, <1>2, <1>6 DEF DecodedOf, Handed, ImageOf
<1>8. \A t \in tasks' : t.op = "register" /\ t.image = i => t.export \in DecodedOf(i)'
  BY <1>4, <1>5, <1>7 DEF RequestsInv
<1>9. \A w \in Workers : worker'[w].pc \in Registers /\ worker'[w].task.image = i
                           => worker'[w].task.export \in DecodedOf(i)'
  BY <1>2, <1>7 DEF RequestsInv
<1>10. \A r \in timeline'[i].pending : /\ r.export \in DecodedOf(i)'
                                       /\ r.count < timeline'[i].requests
  BY <1>2, <1>7 DEF RequestsInv
<1>11. \A e : e # d + 1 => (Unregistered(e)' <=> Unregistered(e))
  <2>1. ASSUME NEW e, e # d + 1, NEW t PROVE InTasks(t, e)' <=> InTasks(t, e)
    BY <1>4, <1>5, <2>1 DEF InTasks
  <2>2. ASSUME NEW e, NEW w \in Workers PROVE AtWorker(w, e)' <=> AtWorker(w, e)
    BY <1>2 DEF AtWorker
  <2>3. \A t, e : (InTasks(t, e) => t \in tasks) /\ (InTasks(t, e)' => t \in tasks')
    BY DEF InTasks
  <2> QED BY <2>1, <2>2, <2>3 DEF Unregistered
<1>12. Registered(i) \subseteq Registered(i)' BY <1>7, <1>11 DEF Registered
<1>13. /\ Cardinality(Registered(i)) <= Cardinality(Registered(i)')
       /\ Cardinality(Registered(i)) \in Nat /\ Cardinality(Registered(i)') \in Nat
  BY <1>12, Sizes, SizesNext, FS_Subset DEF Sized
<1>14. PICK a \in Nat, b \in Nat, r \in Nat :
        /\ a = Cardinality(Registered(i)) /\ b = Cardinality(Registered(i)')
        /\ r = timeline[i].requests
  BY <1>13 DEF Typed, Timelines
<1>15. timeline'[i].requests <= Cardinality(Registered(i)')
  BY <1>2, <1>13, <1>14 DEF RequestsInv
<1> QED BY <1>7, <1>8, <1>9, <1>10, <1>15 DEF RequestsInv

(* A worker registers a request, and with it its export.                   *)
LEMMA RequestsRegistered ==
  ASSUME Typed, Typed', ExportsInv, NEW w \in Workers, registerQsriCallback(w),
         NEW i \in Images, RequestsInv(i)
  PROVE  RequestsInv(i)'
<1>1. /\ worker[w].pc = "register" /\ LetGo(w)
      /\ registerCallbackForNextPresentAndPoll(worker[w].task.image, worker[w].task.export)
      /\ UNCHANGED <<native, guest, mImageInfo, pool, gpu, rt, tasks, late>>
  BY DEF registerQsriCallback
<1>2. worker[w].pc \in Registers /\ worker[w].task \in RegisterTasks
  BY <1>1, WorkerTask DEF Registers
<1>3. PICK j \in Images, e \in Nat : j = worker[w].task.image /\ e = worker[w].task.export
  BY <1>2 DEF RegisterTasks
<1>4. PICK p : p = timeline[j].pending
                     \cup {[count |-> timeline[j].requests, export |-> e]}
  OBVIOUS
<1>5. /\ timeline'[j].requests = timeline[j].requests + 1
      /\ timeline'[j].pending = {r \in p : ~(r.count < timeline[j].presents)}
      /\ \A k \in Images \ {j} : timeline'[k] = timeline[k]
  BY <1>1, <1>3, <1>4, RegisterFields
<1>6. /\ \A v \in Workers \ {w} : worker'[v] = worker[v]
      /\ worker'[w].pc \notin Registers
  BY <1>1 DEF LetGo, Typed, At, Idle, Registers
<1>7. DecodedOf(i)' = DecodedOf(i) BY <1>1, SamePresents
<1>8. /\ \A v \in Workers : \A f : AtWorker(v, f)' <=> v # w /\ AtWorker(v, f)
      /\ \A t, f : InTasks(t, f)' <=> InTasks(t, f)
  BY <1>1, <1>6 DEF AtWorker, InTasks
<1>9. \A f : Unregistered(f)' => Unregistered(f)
  BY <1>1, <1>8 DEF Unregistered, InTasks
<1>10. CASE i # j
  <2>1. timeline'[i] = timeline[i] BY <1>5, <1>10
  <2>2. \A v \in Workers : worker'[v].pc \in Registers =>
          worker[v].pc \in Registers /\ worker'[v].task = worker[v].task
    BY <1>6
  <2> QED BY <1>1, <1>7, <2>1, <2>2, RequestsFrame
<1>11. CASE i = j
  <2>1. AtWorker(w, e) BY <1>2, <1>3 DEF AtWorker
  <2>2. e \in DecodedOf(i) BY <1>2, <1>3, <1>11 DEF RequestsInv
  <2>3. InOnePlace(e) BY DEF ExportsInv, ExportInv
  <2>4. ~Unregistered(e)'
    <3>1. \A v \in Workers : ~AtWorker(v, e)' BY <1>8, <2>1, <2>3 DEF InOnePlace
    <3>2. \A t \in tasks : ~InTasks(t, e)' BY <1>8, <2>1, <2>3 DEF InOnePlace
    <3> QED BY <1>1, <3>1, <3>2 DEF Unregistered
  <2>5. Unregistered(e) BY <2>1 DEF Unregistered
  <2>6. e \notin Registered(i) /\ Registered(i) \cup {e} \subseteq Registered(i)'
    BY <1>7, <1>9, <2>2, <2>4, <2>5 DEF Registered
  <2>7. /\ IsFiniteSet(Registered(i)) /\ IsFiniteSet(Registered(i)')
        /\ Cardinality(Registered(i) \cup {e}) = Cardinality(Registered(i)) + 1
    BY <2>6, Sizes, SizesNext, FS_AddElement DEF Sized
  <2>8. Cardinality(Registered(i) \cup {e}) <= Cardinality(Registered(i)')
    BY <2>6, <2>7, FS_Subset
  <2>9. PICK a \in Nat, b \in Nat, r \in Nat :
          /\ a = Cardinality(Registered(i)) /\ b = Cardinality(Registered(i)')
          /\ r = timeline[i].requests
    BY Sizes, SizesNext DEF Sized, Typed, Timelines
  <2>10. timeline'[i].requests <= Cardinality(Registered(i)')
    BY <1>5, <1>11, <2>7, <2>8, <2>9 DEF RequestsInv
  <2>11. \A s \in timeline'[i].pending : /\ s.export \in DecodedOf(i)'
                                         /\ s.count < timeline'[i].requests
    <3> SUFFICES ASSUME NEW s \in timeline'[i].pending
                 PROVE  s.export \in DecodedOf(i) /\ s.count < r + 1
      BY <1>5, <1>7, <1>11, <2>9
    <3>1. CASE s \in timeline[i].pending
      <4>1. s.count \in Nat /\ s.export \in DecodedOf(i) /\ s.count < r
        BY <2>9, <3>1 DEF Typed, Timelines, RequestsInv
      <4> QED BY <4>1
    <3>2. CASE s = [count |-> r, export |-> e] BY <2>2, <2>9, <3>2
    <3> QED BY <1>4, <1>5, <1>11, <2>9, <3>1, <3>2
  <2>12. \A t \in tasks' : t.op = "register" /\ t.image = i => t.export \in DecodedOf(i)'
    BY <1>1, <1>7 DEF RequestsInv
  <2>13. \A v \in Workers : worker'[v].pc \in Registers /\ worker'[v].task.image = i
                              => worker'[v].task.export \in DecodedOf(i)'
    BY <1>6, <1>7 DEF RequestsInv
  <2> QED BY <2>10, <2>11, <2>12, <2>13 DEF RequestsInv
<1> QED BY <1>10, <1>11

LEMMA DecodedStep ==
  ASSUME Typed, [Next]_vars, NEW i \in Images
  PROVE  \/ triggerWaitVkQsriWithCompletionCallback
         \/ DecodedOf(i)' = DecodedOf(i)
<1>1. ASSUME NEW j \in Images, NEW q \in Queues, Present(j, q)
      PROVE  DecodedOf(i)' = DecodedOf(i)
  BY <1>1, PresentGrows
<1>2. guest'.exports = guest.exports /\ guest'.decoded = guest.decoded
        => DecodedOf(i)' = DecodedOf(i)
  BY SamePresents
<1> QED BY <1>1, <1>2, OtherFrames

(* Only triggerWaitVkQsriWithCompletionCallback makes requests.            *)
LEMMA RequestsMove ==
  ASSUME Typed, [Next]_vars, ~triggerWaitVkQsriWithCompletionCallback
  PROVE  /\ \A t : t.op = "register" /\ t \in tasks' => t \in tasks
         /\ \A w \in Workers : worker'[w].pc \in Registers =>
              \/ worker'[w].task \in tasks /\ worker'[w].task.op = "register"
              \/ worker[w].pc \in Registers /\ worker'[w].task = worker[w].task
<1> DEFINE Goal == /\ \A t : t.op = "register" /\ t \in tasks' => t \in tasks
                   /\ \A w \in Workers : worker'[w].pc \in Registers =>
                        \/ worker'[w].task \in tasks /\ worker'[w].task.op = "register"
                        \/ worker[w].pc \in Registers /\ worker'[w].task = worker[w].task
<1>1. UNCHANGED <<tasks, worker>> => Goal OBVIOUS
<1>2. ASSUME tasks' = tasks, NEW w \in Workers,
             \A v \in Workers \ {w} : worker'[v] = worker[v],
             \/ worker'[w].pc \notin Registers
             \/ worker[w].pc \in Registers /\ worker'[w].task = worker[w].task
      PROVE  Goal
  BY <1>2
<1>3. ASSUME syncImageToColorBuffer PROVE Goal
  <2>1. \E t \in WaitTasks : tasks' \subseteq tasks \cup {t}
    <3>1. PICK i \in Images, t \in WaitTasks :
            i = NextCall.image /\ t = WaitTask(i, NextCall.nth, NextFence(pool[i]))
      BY <1>3, Submission
    <3> QED BY <1>3, <3>1 DEF syncImageToColorBuffer
  <2>2. \A t \in WaitTasks : t.op # "register" BY DEF WaitTasks
  <2>3. worker' = worker BY <1>3 DEF syncImageToColorBuffer
  <2> QED BY <2>1, <2>2, <2>3
<1>4. ASSUME NEW w \in Workers, NEW t \in tasks, doSyncThreadCmd(w, t) PROVE Goal
  <2>1. /\ tasks' = tasks \ {t} /\ \A v \in Workers \ {w} : worker'[v] = worker[v]
        /\ worker'[w].task = t
        /\ t.op # "wait" \/ worker'[w].pc = "wait"
    BY <1>4 DEF doSyncThreadCmd, Typed, At
  <2>2. t.op = "wait" \/ t.op = "register" BY DEF Typed, WaitTasks, RegisterTasks
  <2> QED BY <2>1, <2>2 DEF Registers
<1>5. ASSUME NEW w \in Workers, Worker(w) PROVE Goal
  <2>1. worker[w].pc \in Registers => worker[w] \in [pc : Registers, task : RegisterTasks]
    BY DEF Typed, Pooled, Returns, Registers, Idle
  <2>2. worker[w].pc \in Returns => worker[w] \in [pc : Returns, task : WaitTasks]
    BY DEF Typed, Pooled, Returns, Registers, Idle
  <2>3. CASE registerUnknownImage(w)
    BY <1>2, <2>3 DEF registerUnknownImage, Typed, Idle, Registers
  <2>4. CASE registerLookup(w)
    BY <1>2, <2>1, <2>4 DEF registerLookup, Typed, Registers
  <2>5. CASE registerQsriCallback(w)
    BY <1>2, <2>5 DEF registerQsriCallback, LetGo, Typed, At, Idle, Registers
  <2>6. CASE waitForQsriFenceTask(w)
    <3>1. worker'[w].pc = "return" /\ \A v \in Workers \ {w} : worker'[v] = worker[v]
      BY <2>2, <2>6 DEF waitForQsriFenceTask, Typed, Returns
    <3> QED BY <1>2, <2>6, <3>1 DEF waitForQsriFenceTask, Registers
  <2>7. CASE workerReturn(w)
    <3>1. worker'[w].pc = "signal" /\ \A v \in Workers \ {w} : worker'[v] = worker[v]
      BY <2>2, <2>7 DEF workerReturn, Typed, Returns
    <3> QED BY <1>2, <2>7, <3>1 DEF workerReturn, Registers
  <2>8. CASE workerSignal(w)
    BY <1>2, <2>8 DEF workerSignal, LetGo, Typed, At, Idle, Registers
  <2>9. CASE workerTeardown(w)
    BY <1>2, <2>9 DEF workerTeardown, Typed, Idle, Registers
  <2> HIDE DEF Goal
  <2> QED BY <1>5, <2>3, <2>4, <2>5, <2>6, <2>7, <2>8, <2>9 DEF Worker
<1>6. \A i \in Images : (\E q \in Queues : Present(i, q)) \/ DestroyImage(i)
        => UNCHANGED <<tasks, worker>>
  BY DEF Present, DestroyImage
<1>7. RenderThread => syncImageToColorBuffer \/ UNCHANGED <<tasks, worker>>
  BY DEF RenderThread, destroyImageLocked, renderThreadWait, renderThreadReturn,
         renderThreadSignal, renderThreadTeardown
<1>8. (\E q \in Queues : Finish(q)) \/ UNCHANGED vars => UNCHANGED <<tasks, worker>>
  BY DEF Finish, vars
<1> HIDE DEF Goal
<1>9. Goal BY <1>1, <1>3, <1>4, <1>5, <1>6, <1>7, <1>8 DEF Next
<1> QED BY <1>9 DEF Goal

(* Nor does anything else but registerQsriCallback put them on a timeline. *)
LEMMA TimelineForgets ==
  ASSUME Typed, [Next]_vars, ~Registrations, NEW i \in Images
  PROVE  /\ timeline'[i].requests = timeline[i].requests
         /\ timeline'[i].pending \subseteq timeline[i].pending
<1>1. CASE Signals
  <2>1. PICK t \in WaitTasks : signalNextPresentAndPoll(t.image) BY <1>1, SignalEffect
  <2>2. PICK j \in Images : j = t.image BY DEF WaitTasks
  <2> QED BY <2>1, <2>2, SignalFields
<1>2. CASE Teardowns
  <2>1. PICK j \in Images : destroyTimeline(j)
    BY <1>2, ThreadTask, WorkerTask DEF Teardowns, renderThreadTeardown, workerTeardown
  <2> QED BY <2>1, DestroyFields
<1>3. CASE timeline' = timeline BY <1>3
<1> QED BY <1>1, <1>2, <1>3, OtherFrames

LEMMA RequestsStep ==
  ASSUME Typed, Typed', ExportsInv, [Next]_vars, NEW i \in Images, RequestsInv(i)
  PROVE  RequestsInv(i)'
<1>1. CASE triggerWaitVkQsriWithCompletionCallback BY <1>1, RequestsDecoded
<1>2. CASE Registrations BY <1>2, RequestsRegistered DEF Registrations
<1>3. CASE ~triggerWaitVkQsriWithCompletionCallback /\ ~Registrations
  <2>1. DecodedOf(i)' = DecodedOf(i) BY <1>3, DecodedStep
  <2> QED BY <1>3, <2>1, RequestsMove, TimelineForgets, RequestsFrame
<1> QED BY <1>1, <1>2, <1>3

-----------------------------------------------------------------------------
(***************************************************************************)
(* An image that lives is called back once per request, and no more often  *)
(* than it was presented.                                                  *)
(***************************************************************************)
LEMMA AliveStep ==
  ASSUME Typed, [Next]_vars, NEW i \in Images, Alive(i), i \notin guest'.destroyed
  PROVE  Alive(i)'
<1>1. i \in mImageInfo'
  <2>1. CASE destroyImageLocked
    <3>1. /\ guest.stream # <<>> /\ NextCall.op = "destroy"
          /\ mImageInfo' = mImageInfo \ {NextCall.image}
          /\ guest'.stream = Tail(guest.stream)
      BY <2>1 DEF destroyImageLocked, Typed, Guests
    <3>2. NextCall \in Calls /\ NextCall = guest.stream[1] BY <3>1, StreamTaken
    <3>3. NextCall = DestroyCall(NextCall.image)
      BY <3>1, <3>2 DEF Calls, PresentCalls, DestroyCalls, DestroyCall
    <3>4. 1 \in 1 .. Len(guest.stream)
      <4>1. guest.stream \in Seq(Calls) BY DEF Typed, Guests
      <4> QED BY <3>1, <4>1
    <3> QED BY <3>1, <3>2, <3>3, <3>4 DEF Alive
  <2>2. CASE ~destroyImageLocked
    <3>1. mImageInfo' = mImageInfo
      BY <2>2
      DEF Next, Present, DestroyImage, RenderThread, syncImageToColorBuffer, renderThreadWait,
          renderThreadReturn, renderThreadSignal, renderThreadTeardown, Worker,
          triggerWaitVkQsriWithCompletionCallback, doSyncThreadCmd, registerUnknownImage,
          registerLookup, registerQsriCallback, waitForQsriFenceTask, workerReturn,
          workerSignal, workerTeardown, Finish, vars
    <3> QED BY <3>1 DEF Alive
  <2> QED BY <2>1, <2>2
<1>2. \A k \in 1 .. Len(guest'.stream) : guest'.stream[k] # DestroyCall(i)
  <2>1. guest.stream \in Seq(Calls) BY DEF Typed, Guests
  <2>2. PICK m \in Nat : m = Len(guest.stream) BY <2>1
  <2>3. \A k \in 1 .. m : guest.stream[k] # DestroyCall(i) BY <2>2 DEF Alive
  <2>4. ASSUME guest.stream # <<>>, guest'.stream = Tail(guest.stream)
        PROVE  \A k \in 1 .. Len(guest'.stream) : guest'.stream[k] # DestroyCall(i)
    <3>1. Len(guest'.stream) = m - 1
      BY <2>1, <2>2, <2>4
    <3>2. \A k \in 1 .. m - 1 : guest'.stream[k] = guest.stream[k + 1] /\ k + 1 \in 1 .. m
      BY <2>1, <2>2, <2>4
    <3> QED BY <2>3, <3>1, <3>2
  <2>5. ASSUME NEW c, guest'.stream = Append(guest.stream, c), c # DestroyCall(i)
        PROVE  \A k \in 1 .. Len(guest'.stream) : guest'.stream[k] # DestroyCall(i)
    <3>1. /\ Len(guest'.stream) = m + 1 /\ guest'.stream[m + 1] = c
          /\ \A k \in 1 .. m : guest'.stream[k] = guest.stream[k]
      BY <2>1, <2>2, <2>5
    <3>2. \A k \in 1 .. m + 1 : k \in 1 .. m \/ k = m + 1 BY <2>2
    <3> QED BY <2>3, <2>5, <3>1, <3>2
  <2>6. ASSUME NEW j \in Images, NEW q \in Queues, Present(j, q)
        PROVE  \E c : guest'.stream = Append(guest.stream, c) /\ c # DestroyCall(i)
    <3>1. \A n : PresentCall(j, q, n) # DestroyCall(i)
      BY DEF PresentCall, DestroyCall
    <3> QED BY <2>6, <3>1 DEF Present, Typed, Guests
  <2>7. ASSUME NEW j \in Images, DestroyImage(j)
        PROVE  \E c : guest'.stream = Append(guest.stream, c) /\ c # DestroyCall(i)
    <3>1. /\ guest'.stream = Append(guest.stream, DestroyCall(j))
          /\ j \in guest'.destroyed
      BY <2>7 DEF DestroyImage, Typed, Guests
    <3>2. DestroyCall(j).image = j /\ DestroyCall(i).image = i BY DEF DestroyCall
    <3>3. DestroyCall(j) # DestroyCall(i) BY <3>1, <3>2
    <3> QED BY <3>1, <3>3
  <2>8. CASE syncImageToColorBuffer \/ destroyImageLocked
    <3>1. guest.stream # <<>> /\ guest'.stream = Tail(guest.stream)
      BY <2>8 DEF syncImageToColorBuffer, destroyImageLocked, Typed, Guests
    <3> QED BY <2>4, <3>1
  <2>9. CASE guest'.stream = guest.stream BY <2>9 DEF Alive
  <2> QED BY <2>5, <2>6, <2>7, <2>8, <2>9, OtherFrames
<1>3. ~(rt'.pc = "teardown" /\ rt'.task.image = i)
  <2>1. CASE rt' = rt BY <2>1 DEF Alive
  <2>2. CASE syncImageToColorBuffer BY <2>2 DEF syncImageToColorBuffer, At, Alive
  <2>3. CASE destroyImageLocked
    <3>1. rt'.pc = "teardown" => rt'.task.image = NextCall.image
      BY <2>3 DEF destroyImageLocked, At, Idle, DestroyCall
    <3>2. mImageInfo' = mImageInfo \ {NextCall.image} BY <2>3 DEF destroyImageLocked
    <3> QED BY <1>1, <3>1, <3>2
  <2>4. CASE renderThreadWait \/ renderThreadReturn \/ renderThreadSignal \/ renderThreadTeardown
    BY <2>4 DEF renderThreadWait, renderThreadReturn, renderThreadSignal,
                renderThreadTeardown, At, Idle
  <2>5. RenderThread \/ rt' = rt
    BY DEF Next, Present, DestroyImage, Worker, triggerWaitVkQsriWithCompletionCallback,
           doSyncThreadCmd, registerUnknownImage, registerLookup, registerQsriCallback,
           waitForQsriFenceTask, workerReturn, workerSignal, workerTeardown, Finish, vars
  <2> QED BY <2>1, <2>2, <2>3, <2>4, <2>5 DEF RenderThread
<1>4. ASSUME NEW v \in Workers, worker'[v].pc = "teardown", worker'[v].task.image = i
      PROVE  FALSE
  <2>1. ASSUME worker'[v] = worker[v] PROVE FALSE BY <1>4, <2>1 DEF Alive
  <2>2. ASSUME NEW w \in Workers, NEW t \in tasks, doSyncThreadCmd(w, t) PROVE FALSE
    BY <1>4, <2>1, <2>2 DEF doSyncThreadCmd, Typed, At
  <2>3. ASSUME NEW w \in Workers, LetGo(w) PROVE FALSE
    <3>1. v # w => worker'[v] = worker[v] BY <2>3 DEF LetGo, Typed
    <3>2. worker'[w].pc = "teardown" =>
            /\ worker'[w].task = worker[w].task /\ LastHolder(worker[w].task.image, w)
      BY <2>3 DEF LetGo, Typed, At, Idle
    <3> QED BY <1>4, <2>1, <3>1, <3>2 DEF LastHolder, Alive
  <2>4. ASSUME NEW w \in Workers, registerUnknownImage(w) \/ workerTeardown(w) PROVE FALSE
    BY <1>4, <2>1, <2>4 DEF registerUnknownImage, workerTeardown, Typed, Idle
  <2>5. ASSUME NEW w \in Workers,
               registerLookup(w) \/ waitForQsriFenceTask(w) \/ workerReturn(w)
        PROVE  FALSE
    <3>1. worker[w].pc \in Returns \cup Registers
      BY <2>5 DEF registerLookup, waitForQsriFenceTask, workerReturn, Returns, Registers
    <3>2. \E pc \in {"register", "return", "signal"} :
            worker' = [worker EXCEPT ![w].pc = pc]
      BY <2>5 DEF registerLookup, waitForQsriFenceTask, workerReturn
    <3>3. worker[w] \in [pc : Returns, task : WaitTasks]
                          \cup [pc : Registers, task : RegisterTasks]
      BY <3>1 DEF Typed, Pooled, Returns, Registers, Idle
    <3>4. worker'[w].pc # "teardown" /\ (v # w => worker'[v] = worker[v])
      BY <3>2, <3>3 DEF Typed
    <3> QED BY <1>4, <2>1, <3>4
  <2>6. \/ worker' = worker
        \/ \E w \in Workers : Worker(w) \/ \E t \in tasks : doSyncThreadCmd(w, t)
    BY DEF Next, Present, DestroyImage, RenderThread, syncImageToColorBuffer,
           destroyImageLocked, renderThreadWait, renderThreadReturn, renderThreadSignal,
           renderThreadTeardown, triggerWaitVkQsriWithCompletionCallback, Finish, vars
  <2>7. CASE worker' = worker BY <2>1, <2>7
  <2>8. ASSUME NEW w \in Workers, Worker(w) PROVE FALSE
    BY <2>3, <2>4, <2>5, <2>8 DEF Worker, registerQsriCallback, workerSignal
  <2> QED BY <2>2, <2>6, <2>7, <2>8
<1> QED BY <1>1, <1>2, <1>3, <1>4 DEF Alive

LEMMA BoundStep ==
  ASSUME Typed, WithinBound, [Next]_vars
  PROVE  WithinBound'
<1>1. Len(guest'.exports) <= MaxPresents
  <2>1. ASSUME NEW i \in Images, NEW q \in Queues, Present(i, q)
        PROVE  Len(guest'.exports) <= MaxPresents
    <3>1. PICK n \in Nat : n = Len(guest.exports) BY DEF Typed, Guests
    <3>2. n < MaxPresents BY <2>1, <3>1 DEF Present
    <3> QED BY <2>1, <3>1, <3>2, PresentGrows, MaxPresentsAssumption
  <2> QED BY <2>1, OtherFrames DEF WithinBound
<1>2. native' = native /\ (mImageInfo' = mImageInfo \/ destroyImageLocked)
  BY DEF Next, Present, DestroyImage, RenderThread, syncImageToColorBuffer, renderThreadWait,
         renderThreadReturn, renderThreadSignal, renderThreadTeardown, Worker,
         destroyImageLocked, triggerWaitVkQsriWithCompletionCallback, doSyncThreadCmd,
         registerUnknownImage, registerLookup, registerQsriCallback, waitForQsriFenceTask,
         workerReturn, workerSignal, workerTeardown, Finish, vars
<1>3. mImageInfo' \subseteq mImageInfo BY <1>2 DEF destroyImageLocked
<1> QED BY <1>1, <1>2, <1>3 DEF WithinBound

LEMMA DecodedBound ==
  ASSUME Typed, WithinBound
  PROVE  /\ \A i : DecodedOf(i) \subseteq Exports
         /\ guest.decoded \in Nat
         /\ guest.decoded < Len(guest.exports) => guest.decoded + 1 \in Exports
<1>1. PICK n \in Nat, d \in Nat : n = Len(guest.exports) /\ d = guest.decoded /\ d <= n
  BY DEF Typed, Guests
<1>2. n <= MaxPresents /\ MaxPresents \in Nat BY <1>1, MaxPresentsAssumption DEF WithinBound
<1>3. 1 .. d \subseteq 1 .. MaxPresents BY <1>1, <1>2
<1>4. d < n => d + 1 \in 1 .. MaxPresents BY <1>1, <1>2
<1> QED BY <1>1, <1>3, <1>4 DEF DecodedOf, Handed, Exports

LEMMA OneImage == ASSUME NEW i, NEW j, i # j PROVE DecodedOf(i) \cap DecodedOf(j) = {}
BY DEF DecodedOf

(* Calls for others are no calls of an image.                              *)
LEMMA CallsElsewhere ==
  ASSUME Typed, WithinBound, NEW i, NEW S, Call(S), S \cap DecodedOf(i) = {},
         DecodedOf(i)' = DecodedOf(i)
  PROVE  CalledOf(i)' = CalledOf(i)
<1>1. \A e \in DecodedOf(i) : called'[e] = called[e] BY CallEffect, DecodedBound
<1> QED BY <1>1 DEF CalledOf

LEMMA CalledFrames ==
  ASSUME Typed, [Next]_vars
  PROVE  \/ Signals \/ Registrations \/ Teardowns
         \/ \E w \in Workers : registerUnknownImage(w)
         \/ UNCHANGED <<called, timeline>>
<1>1. \A i \in Images : (\E q \in Queues : Present(i, q)) \/ DestroyImage(i)
        => UNCHANGED <<called, timeline>>
  BY DEF Present, DestroyImage
<1>2. RenderThread => Signals \/ Teardowns \/ UNCHANGED <<called, timeline>>
  BY DEF RenderThread, syncImageToColorBuffer, destroyImageLocked, renderThreadWait,
         renderThreadReturn, Signals, Teardowns
<1>3. triggerWaitVkQsriWithCompletionCallback => UNCHANGED <<called, timeline>>
  BY DEF triggerWaitVkQsriWithCompletionCallback
<1>4. \A w \in Workers, t \in tasks : doSyncThreadCmd(w, t) => UNCHANGED <<called, timeline>>
  BY DEF doSyncThreadCmd
<1>5. \A w \in Workers : Worker(w) =>
        \/ Signals \/ Registrations \/ Teardowns \/ registerUnknownImage(w)
        \/ UNCHANGED <<called, timeline>>
  BY DEF Worker, registerLookup, waitForQsriFenceTask, workerReturn, Signals, Teardowns,
         Registrations
<1>6. (\E q \in Queues : Finish(q)) \/ UNCHANGED vars => UNCHANGED <<called, timeline>>
  BY DEF Finish, vars
<1> QED BY <1>1, <1>2, <1>3, <1>4, <1>5, <1>6 DEF Next

(* No call is taken back.                                                  *)
LEMMA CallsStand ==
  ASSUME Typed, Typed', [Next]_vars, NEW e \in Exports
  PROVE  called[e] > 0 => called'[e] > 0
<1>1. PICK c \in Nat, d \in Nat : c = called[e] /\ d = called'[e] BY DEF Typed
<1>2. ASSUME NEW S, Call(S) PROVE c > 0 => d > 0
  <2>1. d = c + 1 \/ d = c BY <1>1, <1>2, CallEffect
  <2> QED BY <2>1
<1>3. CASE Signals
  <2>1. PICK t \in WaitTasks : signalNextPresentAndPoll(t.image) BY <1>3, SignalEffect
  <2>2. PICK j \in Images : j = t.image BY DEF WaitTasks
  <2> QED BY <1>1, <1>2, <2>1, <2>2, SignalFields
<1>4. ASSUME NEW w \in Workers, registerQsriCallback(w) PROVE c > 0 => d > 0
  <2>1. PICK S : Call(S)
    BY <1>4 DEF registerQsriCallback, registerCallbackForNextPresentAndPoll, PollLocked
  <2> QED BY <1>2, <2>1
<1>5. CASE Teardowns
  <2>1. PICK S : Call(S)
    BY <1>5 DEF Teardowns, renderThreadTeardown, workerTeardown, destroyTimeline
  <2> QED BY <1>1, <1>2, <2>1
<1>6. ASSUME NEW w \in Workers, registerUnknownImage(w) PROVE c > 0 => d > 0
  <2>1. PICK S : Call(S) BY <1>6 DEF registerUnknownImage
  <2> QED BY <1>2, <2>1
<1>7. CASE called' = called BY <1>7
<1> QED BY <1>1, <1>3, <1>4, <1>5, <1>6, <1>7, CalledFrames DEF Registrations

(* A step that calls one request of an image at most.                      *)
LEMMA CalledOnceMore ==
  ASSUME Typed, Typed', WithinBound, NEW i, NEW S, Call(S), DecodedOf(i)' = DecodedOf(i),
         NEW e, S \subseteq {e}
  PROVE  Cardinality(CalledOf(i)') <= Cardinality(CalledOf(i)) + 1
<1>1. \A x \in DecodedOf(i) \ {e} : called'[x] = called[x] BY CallEffect, DecodedBound
<1>2. CalledOf(i)' \subseteq CalledOf(i) \cup {e} BY <1>1 DEF CalledOf
<1>3. /\ IsFiniteSet(CalledOf(i)) /\ Cardinality(CalledOf(i)) \in Nat
      /\ Cardinality(CalledOf(i)') \in Nat
  BY Sizes, SizesNext DEF Sized
<1>4. /\ IsFiniteSet(CalledOf(i) \cup {e})
      /\ Cardinality(CalledOf(i) \cup {e}) = IF e \in CalledOf(i) THEN Cardinality(CalledOf(i))
                                                             ELSE Cardinality(CalledOf(i)) + 1
  BY <1>3, FS_AddElement
<1>5. PICK a \in Nat, b \in Nat :
        a = Cardinality(CalledOf(i)) /\ b = Cardinality(CalledOf(i) \cup {e}) /\ b <= a + 1
  BY <1>3, <1>4
<1>6. Cardinality(CalledOf(i)') <= b BY <1>2, <1>4, <1>5, FS_Subset
<1> QED BY <1>3, <1>5, <1>6

LEMMA SignalCalls ==
  ASSUME Typed, Typed', WithinBound, NEW i \in Images, RequestsInv(i), CallsCounted(i),
         signalNextPresentAndPoll(i), DecodedOf(i)' = DecodedOf(i)
  PROVE  CallsCounted(i)'
<1> DEFINE S == {r \in timeline[i].pending : r.count < timeline[i].presents + 1}
<1>1. PICK p \in Nat, n \in Nat, c \in Nat, d \in Nat :
        /\ p = timeline[i].presents /\ n = timeline[i].requests
        /\ c = Cardinality(CalledOf(i)) /\ d = Cardinality(CalledOf(i)')
  BY Sizes, SizesNext DEF Sized, Typed, Timelines
<1>2. /\ timeline'[i].presents = p + 1 /\ timeline'[i].requests = n
      /\ timeline'[i].pending = {r \in timeline[i].pending : ~(r.count < p + 1)}
      /\ Call({r.export : r \in S})
  BY <1>1, SignalFields
<1>3. c <= p /\ c <= n BY <1>1 DEF CallsCounted
<1>4. \A r \in timeline[i].pending : r.count \in Nat /\ p <= r.count /\ r.count < n
  BY <1>1 DEF CallsCounted, RequestsInv, Typed, Timelines
<1>5. \A r \in timeline[i].pending : r.count < p + 1 => r.count = p BY <1>4
<1>6. \A r \in timeline[i].pending : ~(r.count < p + 1) => p + 1 <= r.count BY <1>4
<1>7. \A r, s \in timeline[i].pending : r.count = s.count => r = s BY DEF CallsCounted
<1>8. d <= c + 1 /\ (d = c \/ p < n)
  <2>1. CASE S = {}
    <3>1. CalledOf(i)' = CalledOf(i) BY <1>2, <2>1, CallsElsewhere
    <3> QED BY <1>1, <3>1
  <2>2. CASE S # {}
    <3>1. PICK r \in timeline[i].pending : r \in S BY <2>2
    <3>2. {s.export : s \in S} \subseteq {r.export} BY <1>1, <1>5, <1>7, <3>1
    <3>3. d <= c + 1 BY <1>1, <1>2, <3>2, CalledOnceMore
    <3>4. p < n BY <1>1, <1>4, <1>5, <3>1
    <3> QED BY <3>3, <3>4
  <2> QED BY <2>1, <2>2
<1>9. d <= p + 1 /\ d <= n BY <1>3, <1>8
<1> HIDE DEF S
<1> QED BY <1>1, <1>2, <1>6, <1>7, <1>9 DEF CallsCounted

LEMMA RegisterCalls ==
  ASSUME Typed, Typed', WithinBound, NEW i \in Images, RequestsInv(i), CallsCounted(i),
         NEW e \in Nat, registerCallbackForNextPresentAndPoll(i, e),
         DecodedOf(i)' = DecodedOf(i)
  PROVE  CallsCounted(i)'
<1>1. PICK p \in Nat, n \in Nat, c \in Nat, d \in Nat :
        /\ p = timeline[i].presents /\ n = timeline[i].requests
        /\ c = Cardinality(CalledOf(i)) /\ d = Cardinality(CalledOf(i)')
  BY Sizes, SizesNext DEF Sized, Typed, Timelines
<1>2. PICK r : r = [count |-> n, export |-> e] OBVIOUS
<1>3. PICK P : P = timeline[i].pending \cup {r} OBVIOUS
<1>4. PICK S : S = {s \in P : s.count < p} OBVIOUS
<1>5. /\ timeline'[i].presents = p /\ timeline'[i].requests = n + 1
      /\ timeline'[i].pending = {s \in P : ~(s.count < p)}
      /\ Call({s.export : s \in S})
  <2>1. P = timeline[i].pending \cup {[count |-> timeline[i].requests, export |-> e]}
    BY <1>1, <1>2, <1>3
  <2>2. /\ timeline'[i].presents = timeline[i].presents
        /\ timeline'[i].requests = timeline[i].requests + 1
        /\ timeline'[i].pending = {s \in P : ~(s.count < timeline[i].presents)}
        /\ Call({s.export : s \in {s \in P : s.count < timeline[i].presents}})
    BY <2>1, RegisterFields
  <2> QED BY <1>1, <1>4, <2>2
<1>6. c <= p /\ c <= n BY <1>1 DEF CallsCounted
<1>7. \A s \in timeline[i].pending : s.count \in Nat /\ p <= s.count /\ s.count < n
  BY <1>1 DEF CallsCounted, RequestsInv, Typed, Timelines
<1>8. r.count = n BY <1>2
<1>9. \A s \in P : s.count \in Nat /\ (s # r => p <= s.count /\ s.count < n)
  BY <1>3, <1>7, <1>8
<1>10. \A s, t \in P : s.count = t.count => s = t
  <2> SUFFICES ASSUME NEW s \in P, NEW t \in P, s.count = t.count PROVE s = t OBVIOUS
  <2>1. CASE s = r \/ t = r BY <1>8, <1>9, <2>1
  <2>2. CASE s # r /\ t # r BY <1>3, <2>2 DEF CallsCounted
  <2> QED BY <2>1, <2>2
<1>11. d <= c + 1 /\ (d = c \/ n < p)
  <2>1. CASE S = {}
    <3>1. CalledOf(i)' = CalledOf(i) BY <1>5, <2>1, CallsElsewhere
    <3> QED BY <1>1, <3>1
  <2>2. CASE S # {}
    <3>1. \A s \in S : s = r /\ s.count < p BY <1>4, <1>9
    <3>2. {s.export : s \in S} \subseteq {r.export} BY <3>1
    <3>3. d <= c + 1 BY <1>1, <1>5, <3>2, CalledOnceMore
    <3>4. n < p BY <1>8, <2>2, <3>1
    <3> QED BY <3>3, <3>4
  <2> QED BY <2>1, <2>2
<1>12. d <= p /\ d <= n + 1 BY <1>6, <1>11
<1>13. \A s \in P : ~(s.count < p) => p <= s.count BY <1>9
<1> QED BY <1>1, <1>5, <1>10, <1>12, <1>13 DEF CallsCounted

(* Requests of one image are not called for another.                       *)
LEMMA CallsCountedElsewhere ==
  ASSUME Typed, WithinBound, NEW i \in Images, NEW j \in Images, i # j,
         NEW S, S \subseteq DecodedOf(j), Call(S), timeline'[i] = timeline[i],
         DecodedOf(i)' = DecodedOf(i), CallsCounted(i)
  PROVE  CallsCounted(i)' /\ CalledOf(i)' = CalledOf(i)
<1>1. S \cap DecodedOf(i) = {} BY OneImage
<1>2. CalledOf(i)' = CalledOf(i) BY <1>1, CallsElsewhere
<1> QED BY <1>2 DEF CallsCounted

(* An export is not called before it is decoded.                           *)
LEMMA DecodedUncalled ==
  ASSUME Typed, WithinBound, ExportsInv, triggerWaitVkQsriWithCompletionCallback, NEW i
  PROVE  CalledOf(i)' = CalledOf(i)
<1>1. PICK d \in Nat, e \in Nat : d = guest.decoded /\ e = d + 1 BY DEF Typed, Guests
<1>2. /\ guest'.decoded = e /\ guest'.exports = guest.exports /\ called' = called
  BY <1>1 DEF triggerWaitVkQsriWithCompletionCallback, Typed, Guests
<1>3. e \in Exports
  BY <1>1, DecodedBound DEF triggerWaitVkQsriWithCompletionCallback
<1>4. e > d /\ 1 .. e = (1 .. d) \cup {e} BY <1>1
<1>5. called[e] = 0 BY <1>1, <1>3, <1>4 DEF ExportsInv, ExportInv
<1>6. ~(called[e] > 0) BY <1>5
<1> QED BY <1>1, <1>2, <1>4, <1>6 DEF CalledOf, DecodedOf, Handed, ImageOf

LEMMA DestroyedGrow ==
  ASSUME Typed, [Next]_vars
  PROVE  guest.destroyed \subseteq guest'.destroyed /\ guest.gaveUp \subseteq guest'.gaveUp
<1>1. ASSUME NEW i \in Images, NEW q \in Queues, Present(i, q)
      PROVE  guest'.destroyed = guest.destroyed /\ guest'.gaveUp = guest.gaveUp
  BY <1>1 DEF Present, Typed, Guests
<1>2. ASSUME NEW i \in Images, DestroyImage(i)
      PROVE  /\ guest.destroyed \subseteq guest'.destroyed
             /\ guest.gaveUp \subseteq guest'.gaveUp
  BY <1>2 DEF DestroyImage, Typed, Guests
<1>3. ASSUME syncImageToColorBuffer \/ destroyImageLocked
      PROVE  guest'.destroyed = guest.destroyed /\ guest'.gaveUp = guest.gaveUp
  BY <1>3 DEF syncImageToColorBuffer, destroyImageLocked, Typed, Guests
<1>4. ASSUME triggerWaitVkQsriWithCompletionCallback
      PROVE  guest'.destroyed = guest.destroyed /\ guest'.gaveUp = guest.gaveUp
  BY <1>4 DEF triggerWaitVkQsriWithCompletionCallback, Typed, Guests
<1>5. \/ \E i \in Images, q \in Queues : Present(i, q)
      \/ \E i \in Images : DestroyImage(i)
      \/ syncImageToColorBuffer \/ destroyImageLocked
      \/ triggerWaitVkQsriWithCompletionCallback
      \/ guest' = guest
  BY DEF Next, RenderThread, renderThreadWait, renderThreadReturn, renderThreadSignal,
         renderThreadTeardown, Worker, doSyncThreadCmd, registerUnknownImage, registerLookup,
         registerQsriCallback, waitForQsriFenceTask, workerReturn, workerSignal,
         workerTeardown, Finish, vars
<1> QED BY <1>1, <1>2, <1>3, <1>4, <1>5

LEMMA CallsCountedStep ==
  ASSUME Typed, Typed', WithinBound, ExportsInv, [Next]_vars,
         \A j \in Images : RequestsInv(j),
         NEW i \in Images, Alive(i), CallsCounted(i)
  PROVE  CallsCounted(i)'
<1>1. ASSUME CalledOf(i)' = CalledOf(i), timeline'[i] = timeline[i]
      PROVE  CallsCounted(i)'
  BY <1>1 DEF CallsCounted
<1>2. CASE triggerWaitVkQsriWithCompletionCallback
  <2>1. timeline' = timeline BY <1>2 DEF triggerWaitVkQsriWithCompletionCallback
  <2> QED BY <1>1, <1>2, <2>1, DecodedUncalled
<1>3. CASE DecodedOf(i)' = DecodedOf(i)
  <2>1. ASSUME Signals PROVE CallsCounted(i)'
    <3>1. PICK t \in WaitTasks : signalNextPresentAndPoll(t.image) BY <2>1, SignalEffect
    <3>2. PICK j \in Images : j = t.image BY DEF WaitTasks
    <3>3. signalNextPresentAndPoll(j) BY <3>1, <3>2
    <3>4. CASE i = j BY <1>3, <3>3, <3>4, SignalCalls
    <3>5. CASE i # j
      <4>1. PICK S : S = {r.export : r \in {r \in timeline[j].pending :
                                              r.count < timeline[j].presents + 1}}
        OBVIOUS
      <4>2. Call(S) /\ timeline'[i] = timeline[i] BY <3>3, <3>5, <4>1, SignalFields
      <4>3. S \subseteq DecodedOf(j) BY <4>1 DEF RequestsInv
      <4> QED BY <1>3, <3>5, <4>2, <4>3, CallsCountedElsewhere
    <3> QED BY <3>4, <3>5
  <2>2. ASSUME NEW w \in Workers, registerQsriCallback(w) PROVE CallsCounted(i)'
    <3>1. /\ worker[w].task \in RegisterTasks /\ worker[w].pc \in Registers
          /\ registerCallbackForNextPresentAndPoll(worker[w].task.image, worker[w].task.export)
      BY <2>2, WorkerTask DEF registerQsriCallback, Registers
    <3>2. PICK j \in Images, e \in Nat : j = worker[w].task.image /\ e = worker[w].task.export
      BY <3>1 DEF RegisterTasks
    <3>3. registerCallbackForNextPresentAndPoll(j, e) BY <3>1, <3>2
    <3>4. CASE i = j BY <1>3, <3>3, <3>4, RegisterCalls
    <3>5. CASE i # j
      <4>1. PICK P : P = timeline[j].pending \cup {[count |-> timeline[j].requests, export |-> e]}
        OBVIOUS
      <4>2. PICK S : S = {r.export : r \in {r \in P : r.count < timeline[j].presents}}
        OBVIOUS
      <4>3. Call(S) /\ timeline'[i] = timeline[i] BY <3>3, <3>5, <4>1, <4>2, RegisterFields
      <4>4. e \in DecodedOf(j) BY <3>1, <3>2 DEF RequestsInv
      <4>5. \A r \in P : r.export \in DecodedOf(j) BY <4>1, <4>4 DEF RequestsInv
      <4>6. S \subseteq DecodedOf(j) BY <4>2, <4>5
      <4> QED BY <1>3, <3>5, <4>3, <4>6, CallsCountedElsewhere
    <3> QED BY <3>4, <3>5
  <2>3. ASSUME Teardowns PROVE CallsCounted(i)'
    <3>1. PICK j \in Images : destroyTimeline(j) /\ j # i
      BY <2>3, ThreadTask, WorkerTask
      DEF Teardowns, renderThreadTeardown, workerTeardown, Alive
    <3>2. PICK S : S = {r.export : r \in timeline[j].pending} OBVIOUS
    <3>3. Call(S) /\ timeline'[i] = timeline[i] BY <3>1, <3>2, DestroyFields
    <3>4. S \subseteq DecodedOf(j) BY <3>2 DEF RequestsInv
    <3> QED BY <1>3, <3>1, <3>3, <3>4, CallsCountedElsewhere
  <2>4. ASSUME NEW w \in Workers, registerUnknownImage(w) PROVE CallsCounted(i)'
    <3>1. /\ worker[w].pc \in Registers /\ worker[w].task \in RegisterTasks
          /\ worker[w].task.image \notin mImageInfo
          /\ Call({worker[w].task.export}) /\ timeline' = timeline
      BY <2>4, WorkerTask DEF registerUnknownImage, CallbackOf, Registers
    <3>2. PICK j \in Images : j = worker[w].task.image BY <3>1 DEF RegisterTasks
    <3>3. PICK S : S = {worker[w].task.export} OBVIOUS
    <3>4. j # i BY <3>1, <3>2 DEF Alive
    <3>5. S \subseteq DecodedOf(j) BY <3>1, <3>2, <3>3 DEF RequestsInv
    <3> QED BY <1>3, <3>1, <3>3, <3>4, <3>5, CallsCountedElsewhere
  <2>5. ASSUME UNCHANGED <<called, timeline>> PROVE CallsCounted(i)'
    BY <1>1, <1>3, <2>5 DEF CalledOf
  <2> QED BY <2>1, <2>2, <2>3, <2>4, <2>5, CalledFrames DEF Registrations
<1> QED BY <1>2, <1>3, DecodedStep

LEMMA DecodedGrows ==
  ASSUME Typed, Typed', [Next]_vars, NEW i \in Images, RequestsInv(i)
  PROVE  DecodedOf(i) \subseteq DecodedOf(i)'
BY DecodedStep, RequestsDecoded

LEMMA CalledGrows ==
  ASSUME Typed, Typed', WithinBound, [Next]_vars, NEW i \in Images, RequestsInv(i)
  PROVE  CalledOf(i) \subseteq CalledOf(i)'
<1>1. SUFFICES ASSUME NEW e \in CalledOf(i) PROVE e \in CalledOf(i)' OBVIOUS
<1>2. e \in DecodedOf(i) /\ called[e] > 0 BY DEF CalledOf
<1>3. e \in DecodedOf(i)' /\ e \in Exports BY <1>2, DecodedGrows, DecodedBound
<1>4. called'[e] > 0 BY <1>2, <1>3, CallsStand
<1> QED BY <1>3, <1>4 DEF CalledOf

LEMMA NewlyDestroyed ==
  ASSUME Typed, [Next]_vars, NEW i \in Images,
         i \in guest'.destroyed, i \notin guest.destroyed
  PROVE  DestroyImage(i)
<1>1. ASSUME NEW j \in Images, NEW q \in Queues, Present(j, q) PROVE FALSE
  BY <1>1 DEF Present, Typed, Guests
<1>2. ASSUME NEW j \in Images, j # i, DestroyImage(j) PROVE FALSE
  BY <1>2 DEF DestroyImage, Typed, Guests
<1>3. ASSUME \/ syncImageToColorBuffer \/ destroyImageLocked
             \/ triggerWaitVkQsriWithCompletionCallback \/ guest' = guest
      PROVE  FALSE
  BY <1>3
  DEF syncImageToColorBuffer, destroyImageLocked,
      triggerWaitVkQsriWithCompletionCallback, Typed, Guests
<1>4. \/ \E j \in Images, q \in Queues : Present(j, q)
      \/ \E j \in Images : DestroyImage(j)
      \/ syncImageToColorBuffer \/ destroyImageLocked
      \/ triggerWaitVkQsriWithCompletionCallback
      \/ guest' = guest
  BY DEF Next, RenderThread, renderThreadWait, renderThreadReturn, renderThreadSignal,
         renderThreadTeardown, Worker, doSyncThreadCmd, registerUnknownImage,
         registerLookup, registerQsriCallback, waitForQsriFenceTask, workerReturn,
         workerSignal, workerTeardown, Finish, vars
<1> QED BY <1>1, <1>2, <1>3, <1>4

LEMMA PresentsFixed ==
  ASSUME Typed, [Next]_vars, NEW i \in Images, i \in guest.destroyed
  PROVE  PresentsOf(i)' = PresentsOf(i)
<1>1. ASSUME NEW j \in Images, NEW q \in Queues, Present(j, q)
      PROVE  PresentsOf(i)' = PresentsOf(i)
  <2>1. i # j BY <1>1 DEF Present
  <2> QED BY <1>1, <2>1, PresentGrows
<1> QED BY <1>1, SamePresents, OtherFrames

LEMMA CallsStep ==
  ASSUME Typed, Typed', WithinBound, ExportsInv, [Next]_vars,
         \A j \in Images : RequestsInv(j), NEW i \in Images, CallsInv(i)
  PROVE  CallsInv(i)'
<1>1. ASSUME i \notin guest'.destroyed PROVE Alive(i)' /\ CallsCounted(i)'
  <2>1. Alive(i) /\ CallsCounted(i) BY <1>1, DestroyedGrow DEF CallsInv
  <2> QED BY <1>1, <2>1, AliveStep, CallsCountedStep
<1>2. ASSUME i \in guest'.destroyed, i \notin guest'.gaveUp
      PROVE  PresentsOf(i)' = CalledOf(i)'
  <2>1. i \notin guest.gaveUp BY <1>2, DestroyedGrow
  <2>2. CalledOf(i)' \subseteq PresentsOf(i)' BY SizesNext DEF Sized
  <2>3. CASE i \in guest.destroyed
    <3>1. PresentsOf(i) = CalledOf(i) BY <2>1, <2>3 DEF CallsInv
    <3>2. PresentsOf(i)' = PresentsOf(i) BY <2>3, PresentsFixed
    <3> QED BY <2>2, <3>1, <3>2, CalledGrows
  <2>4. CASE i \notin guest.destroyed
    <3>1. DestroyImage(i) BY <1>2, <2>4, NewlyDestroyed
    <3>2. Unready(i) = {}
      <4>1. guest'.gaveUp = guest.gaveUp \cup {j \in {i} : Unready(j) # {}}
        BY <3>1 DEF DestroyImage, Typed, Guests
      <4> QED BY <1>2, <4>1
    <3>3. /\ guest'.exports = guest.exports /\ guest'.decoded = guest.decoded
          /\ called' = called
      BY <3>1 DEF DestroyImage, Typed, Guests
    <3>4. ASSUME NEW e \in PresentsOf(i) PROVE e \in CalledOf(i)
      <4>1. Signaled(e) BY <3>2 DEF PresentsOf, Unready
      <4>2. e \in 1 .. e
        <5>1. e \in Nat /\ 1 <= e BY <4>1 DEF Signaled, Handed
        <5> QED BY <5>1
      <4> QED BY <4>1, <4>2 DEF Signaled, CalledOf, DecodedOf, PresentsOf
    <3>5. PresentsOf(i)' = PresentsOf(i) BY <3>3, SamePresents
    <3> QED BY <2>2, <3>4, <3>5, CalledGrows
  <2> QED BY <2>3, <2>4
<1> QED BY <1>1, <1>2 DEF CallsInv

-----------------------------------------------------------------------------
(***************************************************************************)
(* What the GPU has finished.                                              *)
(***************************************************************************)

(* A submission ends its queue and resets its fence.                       *)
LEMMA SubmitGpu ==
  ASSUME Typed, syncImageToColorBuffer
  PROVE  \E j \in Images, t \in WaitTasks :
           /\ j = NextCall.image /\ t = WaitTask(j, NextCall.nth, NextFence(pool[j]))
           /\ \A p \in Queues, k \in Nat : k \in 1 .. Len(gpu'.queue[p]) =>
                \/ k \in 1 .. Len(gpu.queue[p]) /\ gpu'.queue[p][k] = gpu.queue[p][k]
                \/ gpu'.queue[p][k] = t
           /\ gpu'.signaled[j] = gpu.signaled[j] \ {t.fence}
           /\ \A i \in Images \ {j} : gpu'.signaled[i] = gpu.signaled[i]
           /\ gpu'.finished = gpu.finished
           /\ \A u \in WaitTasks : (Waited(u)' => Waited(u) \/ u = t) /\ (Over(u)' => Over(u))
<1>1. PICK j \in Images, t \in WaitTasks :
        /\ j = NextCall.image /\ t = WaitTask(j, NextCall.nth, NextFence(pool[j]))
        /\ NextCall.op = "present"
  BY Submission
<1>2. PICK q \in Queues : q = NextCall.queue
  <2>1. guest.stream # <<>> BY DEF syncImageToColorBuffer
  <2>2. NextCall \in PresentCalls BY <1>1, <2>1, StreamTyped DEF Calls, DestroyCalls
  <2> QED BY <2>2 DEF PresentCalls
<1>3. t.fence = NextFence(pool[j]) BY <1>1 DEF WaitTask
<1>4. gpu' = [gpu EXCEPT !.queue[q] = Append(@, t),
                         !.signaled[j] = gpu.signaled[j] \ {t.fence},
                         !.used[j] = @ \cup {q}]
  BY <1>1, <1>2, <1>3 DEF syncImageToColorBuffer, Reset
<1>5. /\ gpu'.queue = [gpu.queue EXCEPT ![q] = Append(@, t)]
      /\ gpu'.signaled = [gpu.signaled EXCEPT ![j] = gpu.signaled[j] \ {t.fence}]
      /\ gpu'.finished = gpu.finished
  BY <1>4 DEF Typed, Gpus
<1>6. /\ gpu.queue \in [Queues -> Seq(WaitTasks)] /\ gpu.signaled \in [Images -> SUBSET Nat]
  BY DEF Typed, Gpus
<1>7. ASSUME NEW p \in Queues, NEW k \in Nat, k \in 1 .. Len(gpu'.queue[p])
      PROVE  \/ k \in 1 .. Len(gpu.queue[p]) /\ gpu'.queue[p][k] = gpu.queue[p][k]
             \/ gpu'.queue[p][k] = t
  <2>1. CASE p # q BY <1>5, <1>6, <1>7, <2>1
  <2>2. CASE p = q
    <3>1. gpu'.queue[q] = Append(gpu.queue[q], t) /\ gpu.queue[q] \in Seq(WaitTasks)
      BY <1>5, <1>6
    <3>2. PICK m \in Nat : m = Len(gpu.queue[q]) BY <3>1
    <3>3. Len(gpu'.queue[q]) = m + 1 /\ gpu'.queue[q][m + 1] = t BY <3>1, <3>2
    <3>4. \A l \in 1 .. m : gpu'.queue[q][l] = gpu.queue[q][l] BY <3>1, <3>2
    <3>5. k \in 1 .. m \/ k = m + 1 BY <1>7, <2>2, <3>2, <3>3
    <3> QED BY <2>2, <3>2, <3>3, <3>4, <3>5
  <2> QED BY <2>1, <2>2
<1>8. /\ gpu'.signaled[j] = gpu.signaled[j] \ {t.fence}
      /\ \A i \in Images \ {j} : gpu'.signaled[i] = gpu.signaled[i]
  BY <1>5, <1>6
<1>9. /\ worker' = worker /\ mLockFree
      /\ \/ tasks' = tasks \cup {t} /\ rt' = rt
         \/ tasks' = tasks /\ rt' = At("wait", t)
  BY <1>1 DEF syncImageToColorBuffer
<1>10. ASSUME NEW u \in WaitTasks PROVE (Waited(u)' => Waited(u) \/ u = t) /\ (Over(u)' => Over(u))
  BY <1>9 DEF Waited, Over, At
<1> QED BY <1>1, <1>5, <1>7, <1>8, <1>10

(* What finishes is the oldest submission of a queue.                      *)
LEMMA FinishGpu ==
  ASSUME Typed, NEW q \in Queues, Finish(q)
  PROVE  \E s \in WaitTasks :
           /\ 1 \in 1 .. Len(gpu.queue[q]) /\ s = gpu.queue[q][1]
           /\ \A p \in Queues, k \in Nat : k \in 1 .. Len(gpu'.queue[p]) =>
                \E l \in Nat : l \in 1 .. Len(gpu.queue[p]) /\ gpu'.queue[p][k] = gpu.queue[p][l]
           /\ gpu'.finished[s.image] = gpu.finished[s.image] \cup {s.nth}
           /\ gpu'.signaled[s.image] = gpu.signaled[s.image] \cup {s.fence}
           /\ \A i \in Images \ {s.image} : /\ gpu'.finished[i] = gpu.finished[i]
                                            /\ gpu'.signaled[i] = gpu.signaled[i]
<1>1. /\ gpu.queue \in [Queues -> Seq(WaitTasks)] /\ gpu.signaled \in [Images -> SUBSET Nat]
      /\ gpu.finished \in [Images -> SUBSET Nat]
  BY DEF Typed, Gpus
<1>2. gpu.queue[q] \in Seq(WaitTasks) /\ gpu.queue[q] # <<>> BY <1>1 DEF Finish
<1>3. PICK m \in Nat : m + 1 = Len(gpu.queue[q])
  <2>1. Len(gpu.queue[q]) \in Nat \ {0} BY <1>2
  <2>2. PICK n \in Nat \ {0} : n = Len(gpu.queue[q]) BY <2>1
  <2>3. n - 1 \in Nat /\ n - 1 + 1 = n OBVIOUS
  <2> QED BY <2>2, <2>3
<1>4. 1 \in 1 .. m + 1 BY <1>3
<1>5. PICK s \in WaitTasks : s = Head(gpu.queue[q]) /\ s = gpu.queue[q][1]
  BY <1>2, <1>3, <1>4
<1>6. s.image \in Images BY DEF WaitTasks
<1>7. gpu' = [gpu EXCEPT !.queue[q] = Tail(@),
                         !.finished[s.image] = @ \cup {s.nth},
                         !.signaled[s.image] = @ \cup {s.fence}]
  BY <1>5 DEF Finish
<1>8. /\ gpu'.queue = [gpu.queue EXCEPT ![q] = Tail(@)]
      /\ gpu'.finished = [gpu.finished EXCEPT ![s.image] = @ \cup {s.nth}]
      /\ gpu'.signaled = [gpu.signaled EXCEPT ![s.image] = @ \cup {s.fence}]
  BY <1>7 DEF Typed, Gpus
<1>9. ASSUME NEW p \in Queues, NEW k \in Nat, k \in 1 .. Len(gpu'.queue[p])
      PROVE  \E l \in Nat : l \in 1 .. Len(gpu.queue[p]) /\ gpu'.queue[p][k] = gpu.queue[p][l]
  <2>1. CASE p # q BY <1>1, <1>8, <1>9, <2>1
  <2>2. CASE p = q
    <3>1. gpu'.queue[q] = Tail(gpu.queue[q]) BY <1>1, <1>8
    <3>2. Len(gpu'.queue[q]) = m BY <1>2, <1>3, <3>1
    <3>3. \A l \in 1 .. m : gpu'.queue[q][l] = gpu.queue[q][l + 1]
      BY <1>2, <1>3, <3>1
    <3>4. k \in 1 .. m BY <1>9, <2>2, <3>2
    <3>5. k + 1 \in Nat /\ k + 1 \in 1 .. m + 1 BY <3>4
    <3> QED BY <1>3, <2>2, <3>3, <3>4, <3>5
  <2> QED BY <2>1, <2>2
<1>10. /\ gpu'.finished[s.image] = gpu.finished[s.image] \cup {s.nth}
       /\ gpu'.signaled[s.image] = gpu.signaled[s.image] \cup {s.fence}
       /\ \A i \in Images \ {s.image} : /\ gpu'.finished[i] = gpu.finished[i]
                                        /\ gpu'.signaled[i] = gpu.signaled[i]
  BY <1>1, <1>6, <1>8
<1> QED BY <1>3, <1>4, <1>5, <1>9, <1>10

LEMMA GpuMoves ==
  ASSUME [Next]_vars
  PROVE  syncImageToColorBuffer \/ (\E q \in Queues : Finish(q)) \/ gpu' = gpu
BY DEF Next, Present, DestroyImage, RenderThread, renderThreadWait,
       renderThreadReturn, renderThreadSignal, renderThreadTeardown, Worker,
       destroyImageLocked, triggerWaitVkQsriWithCompletionCallback, doSyncThreadCmd,
       registerUnknownImage, registerLookup, registerQsriCallback, waitForQsriFenceTask,
       workerReturn, workerSignal, workerTeardown, vars

LEMMA LateMoves ==
  ASSUME Typed, [Next]_vars
  PROVE  late' = late \/ \E t \in WaitTasks : Waited(t) /\ WaitForFence(t)
<1>1. renderThreadWait => \E t \in WaitTasks : Waited(t) /\ WaitForFence(t)
  BY ThreadTask DEF renderThreadWait, Waited, Returns
<1>2. \A w \in Workers : waitForQsriFenceTask(w)
        => \E t \in WaitTasks : Waited(t) /\ WaitForFence(t)
  BY WorkerTask DEF waitForQsriFenceTask, Waited, Returns
<1> QED BY <1>1, <1>2
        DEF Next, Present, DestroyImage, RenderThread, syncImageToColorBuffer,
            renderThreadReturn, renderThreadSignal, renderThreadTeardown, Worker,
            destroyImageLocked, triggerWaitVkQsriWithCompletionCallback, doSyncThreadCmd,
            registerUnknownImage, registerLookup, registerQsriCallback,
            workerReturn, workerSignal, workerTeardown, Finish, vars

LEMMA WaitedFlies ==
  ASSUME NEW t \in WaitTasks, Waited(t) \/ Over(t)
  PROVE  Flying(t.image, t.nth)
<1>1. \A at, by : Flight(at, by, t) \in Flights => Flying(t.image, t.nth)
  <2>1. \A at, by : Flight(at, by, t).task = t BY DEF Flight
  <2> QED BY <2>1, Zenon DEF Flying, Flies
<1>2. t \in tasks /\ t.op = "wait" => Flight("tasks", 0, t) \in Flights BY IsFlight
<1>3. \A w \in Workers : worker[w].pc \in Returns /\ worker[w].task = t
        => Flight("worker", w, t) \in Flights
  BY IsFlight
<1>4. rt.pc \in Returns /\ rt.task = t => Flight("rt", 0, t) \in Flights BY IsFlight
<1> QED BY <1>1, <1>2, <1>3, <1>4 DEF Waited, Over, Returns

(* Who waits waited before, and whose wait is over has waited.             *)
LEMMA WaitsMove ==
  ASSUME Typed, [Next]_vars, ~syncImageToColorBuffer, NEW u \in WaitTasks
  PROVE  /\ Waited(u)' => Waited(u)
         /\ Over(u)' => Over(u) \/ (Waited(u) /\ WaitForFence(u))
<1> DEFINE Goal == /\ Waited(u)' => Waited(u)
                   /\ Over(u)' => Over(u) \/ (Waited(u) /\ WaitForFence(u))
<1>1. UNCHANGED <<tasks, worker, rt>> => Goal BY DEF Waited, Over
<1>2. ASSUME triggerWaitVkQsriWithCompletionCallback PROVE Goal
  <2>1. \E i, e : tasks' = tasks \cup {RegisterTask(i, e)}
    BY <1>2 DEF triggerWaitVkQsriWithCompletionCallback
  <2>2. u.op = "wait" /\ \A i, e : RegisterTask(i, e) # u BY DEF WaitTasks, RegisterTask
  <2>3. UNCHANGED <<worker, rt>> BY <1>2 DEF triggerWaitVkQsriWithCompletionCallback
  <2> QED BY <2>1, <2>2, <2>3 DEF Waited, Over
<1>3. ASSUME UNCHANGED <<tasks, worker>>,
             \/ rt'.pc \notin Returns
             \/ rt'.task = rt.task /\ rt.pc = "wait" /\ rt'.pc = "return" /\ WaitForFence(rt.task)
             \/ rt'.task = rt.task /\ rt.pc = "return" /\ rt'.pc = "signal"
      PROVE  Goal
  BY <1>3 DEF Waited, Over, Returns
<1>4. ASSUME destroyImageLocked \/ renderThreadSignal \/ renderThreadTeardown PROVE Goal
  <2>1. rt'.pc \notin Returns
    BY <1>4 DEF destroyImageLocked, renderThreadSignal, renderThreadTeardown, At, Idle, Returns
  <2>2. UNCHANGED <<tasks, worker>>
    BY <1>4 DEF destroyImageLocked, renderThreadSignal, renderThreadTeardown
  <2> HIDE DEF Goal
  <2> QED BY <1>3, <2>1, <2>2
<1>5. ASSUME renderThreadWait \/ renderThreadReturn PROVE Goal
  <2>1. \/ rt'.task = rt.task /\ rt.pc = "wait" /\ rt'.pc = "return" /\ WaitForFence(rt.task)
        \/ rt'.task = rt.task /\ rt.pc = "return" /\ rt'.pc = "signal"
    BY <1>5 DEF renderThreadWait, renderThreadReturn, At
  <2>2. UNCHANGED <<tasks, worker>> BY <1>5 DEF renderThreadWait, renderThreadReturn
  <2> HIDE DEF Goal
  <2> QED BY <1>3, <2>1, <2>2
<1>6. ASSUME UNCHANGED <<tasks, rt>>, NEW w \in Workers,
             \A v \in Workers \ {w} : worker'[v] = worker[v],
             \/ worker'[w].pc \notin Returns
             \/ /\ worker'[w].task = worker[w].task /\ worker[w].pc = "wait"
                /\ worker'[w].pc = "return" /\ WaitForFence(worker[w].task)
             \/ /\ worker'[w].task = worker[w].task
                /\ worker[w].pc = "return" /\ worker'[w].pc = "signal"
      PROVE  Goal
  <2>1. \A v \in Workers : worker'[v].pc = "wait" => worker'[v] = worker[v]
    BY <1>6 DEF Returns
  <2>2. ASSUME NEW v \in Workers, worker'[v].pc \in {"return", "signal"}, worker'[v].task = u
        PROVE  Over(u) \/ (Waited(u) /\ WaitForFence(u))
    BY <1>6, <2>2 DEF Returns, Over, Waited
  <2> QED BY <1>6, <2>1, <2>2 DEF Waited, Over
<1>7. ASSUME NEW w \in Workers, NEW t \in tasks, doSyncThreadCmd(w, t) PROVE Goal
  <2>1. /\ tasks' = tasks \ {t} /\ \A v \in Workers \ {w} : worker'[v] = worker[v]
        /\ worker'[w].task = t /\ rt' = rt
        /\ worker'[w].pc = IF t.op = "wait" THEN "wait" ELSE "lookup"
    BY <1>7 DEF doSyncThreadCmd, Typed, At
  <2> QED BY <2>1 DEF Waited, Over
<1>8. ASSUME NEW w \in Workers, Worker(w) PROVE Goal
  <2>1. worker[w].pc \in Registers => worker[w] \in [pc : Registers, task : RegisterTasks]
    BY DEF Typed, Pooled, Returns, Registers, Idle
  <2>2. worker[w].pc \in Returns => worker[w] \in [pc : Returns, task : WaitTasks]
    BY DEF Typed, Pooled, Returns, Registers, Idle
  <2>3. UNCHANGED <<tasks, rt>>
    BY <1>8 DEF Worker, registerUnknownImage, registerLookup, registerQsriCallback,
                waitForQsriFenceTask, workerReturn, workerSignal, workerTeardown
  <2>4. CASE registerUnknownImage(w) \/ workerTeardown(w)
    <3>1. worker' = [worker EXCEPT ![w] = Idle]
      BY <2>4 DEF registerUnknownImage, workerTeardown
    <3>2. worker'[w].pc \notin Returns /\ \A v \in Workers \ {w} : worker'[v] = worker[v]
      BY <3>1 DEF Typed, Idle, Returns
    <3> HIDE DEF Goal
    <3> QED BY <1>6, <2>3, <3>2
  <2>5. CASE registerLookup(w)
    <3>1. worker'[w].pc \notin Returns /\ \A v \in Workers \ {w} : worker'[v] = worker[v]
      BY <2>1, <2>5 DEF registerLookup, Typed, Registers, Returns
    <3> HIDE DEF Goal
    <3> QED BY <1>6, <2>3, <3>1
  <2>6. CASE registerQsriCallback(w) \/ workerSignal(w)
    <3>1. LetGo(w) BY <2>6 DEF registerQsriCallback, workerSignal
    <3>2. worker'[w].pc \notin Returns /\ \A v \in Workers \ {w} : worker'[v] = worker[v]
      BY <3>1 DEF LetGo, Typed, At, Idle, Returns
    <3> HIDE DEF Goal
    <3> QED BY <1>6, <2>3, <3>2
  <2>7. CASE waitForQsriFenceTask(w)
    <3>1. /\ worker[w].pc = "wait" /\ WaitForFence(worker[w].task)
          /\ worker' = [worker EXCEPT ![w].pc = "return"]
      BY <2>7 DEF waitForQsriFenceTask
    <3>2. /\ worker'[w].pc = "return" /\ worker'[w].task = worker[w].task
          /\ \A v \in Workers \ {w} : worker'[v] = worker[v]
      BY <2>2, <3>1 DEF Typed, Returns
    <3> HIDE DEF Goal
    <3> QED BY <1>6, <2>3, <3>1, <3>2
  <2>8. CASE workerReturn(w)
    <3>1. worker[w].pc = "return" /\ worker' = [worker EXCEPT ![w].pc = "signal"]
      BY <2>8 DEF workerReturn
    <3>2. /\ worker'[w].pc = "signal" /\ worker'[w].task = worker[w].task
          /\ \A v \in Workers \ {w} : worker'[v] = worker[v]
      BY <2>2, <3>1 DEF Typed, Returns
    <3> HIDE DEF Goal
    <3> QED BY <1>6, <2>3, <3>1, <3>2
  <2> HIDE DEF Goal
  <2> QED BY <1>8, <2>4, <2>5, <2>6, <2>7, <2>8 DEF Worker
<1>9. \A i \in Images : (\E q \in Queues : Present(i, q)) \/ DestroyImage(i)
        => UNCHANGED <<tasks, worker, rt>>
  BY DEF Present, DestroyImage
<1>10. (\E q \in Queues : Finish(q)) \/ UNCHANGED vars => UNCHANGED <<tasks, worker, rt>>
  BY DEF Finish, vars
<1> HIDE DEF Goal
<1>11. Goal BY <1>1, <1>2, <1>4, <1>5, <1>7, <1>8, <1>9, <1>10 DEF Next, RenderThread
<1> QED BY <1>11 DEF Goal

LEMMA RangeStep ==
  ASSUME Typed, Typed', [Next]_vars, NEW i \in Images, RangeInv(i),
         \A j \in Images : PresentsInv(j)
  PROVE  RangeInv(i)'
<1>1. PICK m \in Nat, n \in Nat : m = PresentCount(i) /\ n = PresentCount(i)' /\ m <= n
  <2>1. PresentCount(i) \in Nat /\ PresentCount(i)' \in Nat BY Sizes, SizesNext DEF Sized
  <2>2. PresentCount(i) <= PresentCount(i)'
    <3>1. ASSUME NEW j \in Images, NEW q \in Queues, Present(j, q)
          PROVE  PresentCount(i) <= PresentCount(i)'
      BY <3>1, PresentGrows
    <3>2. CASE guest'.exports = guest.exports
      <4>1. PresentCount(i)' = PresentCount(i) BY <3>2, SamePresents
      <4> QED BY <2>1, <4>1
    <3> QED BY <3>1, <3>2, OtherFrames
  <2> QED BY <2>1, <2>2
<1>2. 1 .. m \subseteq 1 .. n BY <1>1
<1>3. ASSUME NEW t \in WaitTasks, t.image = i, Waited(t) PROVE t.nth \in 1 .. m
  <2>1. t.nth \in Nat BY DEF WaitTasks
  <2> QED BY <1>1, <1>3, <2>1, WaitedFlies DEF PresentsInv, FlightsInv
<1>4. late'[i] \subseteq 1 .. n
  <2>1. CASE late' = late BY <1>1, <1>2, <2>1 DEF RangeInv
  <2>2. ASSUME NEW t \in WaitTasks, Waited(t), WaitForFence(t) PROVE late'[i] \subseteq 1 .. n
    <3>1. late'[i] \subseteq late[i] \cup {x \in {t.nth} : t.image = i}
      BY <2>2 DEF WaitForFence, Typed
    <3> QED BY <1>1, <1>2, <1>3, <2>2, <3>1 DEF RangeInv
  <2> QED BY <2>1, <2>2, LateMoves
<1>5. /\ gpu.finished[i] \subseteq 1 .. m
      /\ \A q \in Queues, k \in Nat :
           k \in 1 .. Len(gpu.queue[q]) /\ gpu.queue[q][k].image = i
             => gpu.queue[q][k].nth \in 1 .. m
  BY <1>1 DEF RangeInv
<1>6. /\ gpu'.finished[i] \subseteq 1 .. n
      /\ \A q \in Queues, k \in Nat :
           k \in 1 .. Len(gpu'.queue[q]) /\ gpu'.queue[q][k].image = i
             => gpu'.queue[q][k].nth \in 1 .. n
  <2>1. CASE gpu' = gpu BY <1>2, <1>5, <2>1
  <2>2. CASE syncImageToColorBuffer
    <3>1. PICK j \in Images, t \in WaitTasks :
            /\ j = NextCall.image /\ t = WaitTask(j, NextCall.nth, NextFence(pool[j]))
            /\ \A p \in Queues, k \in Nat : k \in 1 .. Len(gpu'.queue[p]) =>
                 \/ k \in 1 .. Len(gpu.queue[p]) /\ gpu'.queue[p][k] = gpu.queue[p][k]
                 \/ gpu'.queue[p][k] = t
            /\ gpu'.finished = gpu.finished
      BY <2>2, SubmitGpu
    <3>2. t.image = j /\ t.nth = NextCall.nth /\ t.nth \in Nat
      BY <3>1 DEF WaitTask, WaitTasks
    <3>3. t.image = i => t.nth \in 1 .. m
      <4>1. guest.stream # <<>> /\ NextCall.op = "present" BY <2>2 DEF syncImageToColorBuffer
      <4>2. guest'.stream = Tail(guest.stream)
        BY <2>2 DEF syncImageToColorBuffer, Typed, Guests
      <4>3. Streamed(1, j, t.nth) BY <3>1, <3>2, <4>1, <4>2, StreamTaken
      <4>4. Created(pool[j]) < t.nth /\ t.nth <= PresentCount(j)
        BY <3>2, <4>3 DEF PresentsInv, StreamInv
      <4>5. PICK c \in Nat, x \in Nat : c = Created(pool[j]) /\ x = t.nth
        BY <3>2, CreatedTyped
      <4>6. t.image = i => x \in 1 .. m BY <1>1, <3>2, <4>4, <4>5
      <4> QED BY <4>5, <4>6
    <3> QED BY <1>2, <1>5, <3>1, <3>3
  <2>3. ASSUME NEW q \in Queues, Finish(q)
        PROVE  /\ gpu'.finished[i] \subseteq 1 .. n
               /\ \A p \in Queues, k \in Nat :
                    k \in 1 .. Len(gpu'.queue[p]) /\ gpu'.queue[p][k].image = i
                      => gpu'.queue[p][k].nth \in 1 .. n
    <3>1. PICK s \in WaitTasks :
            /\ 1 \in 1 .. Len(gpu.queue[q]) /\ s = gpu.queue[q][1]
            /\ \A p \in Queues, k \in Nat : k \in 1 .. Len(gpu'.queue[p]) =>
                 \E l \in Nat : l \in 1 .. Len(gpu.queue[p]) /\ gpu'.queue[p][k] = gpu.queue[p][l]
            /\ gpu'.finished[s.image] = gpu.finished[s.image] \cup {s.nth}
            /\ gpu'.signaled[s.image] = gpu.signaled[s.image] \cup {s.fence}
            /\ \A a \in Images \ {s.image} : /\ gpu'.finished[a] = gpu.finished[a]
                                             /\ gpu'.signaled[a] = gpu.signaled[a]
      BY <2>3, FinishGpu, Zenon
    <3>2. s.image = i => s.nth \in 1 .. m BY <1>5, <3>1
    <3>3. gpu'.finished[i] \subseteq 1 .. n BY <1>2, <1>5, <3>1, <3>2
    <3>4. ASSUME NEW p \in Queues, NEW k \in Nat, k \in 1 .. Len(gpu'.queue[p]),
                 gpu'.queue[p][k].image = i
          PROVE  gpu'.queue[p][k].nth \in 1 .. n
      <4>1. PICK l \in Nat : l \in 1 .. Len(gpu.queue[p]) /\ gpu'.queue[p][k] = gpu.queue[p][l]
        BY <3>1, <3>4
      <4> QED BY <1>2, <1>5, <3>4, <4>1
    <3> QED BY <3>3, <3>4
  <2> QED BY <2>1, <2>2, <2>3, GpuMoves
<1> QED BY <1>1, <1>4, <1>6 DEF RangeInv

LEMMA WaitedInUse ==
  ASSUME NEW t \in WaitTasks, Waited(t)
  PROVE  InUse(t.image, t.fence)
BY DEF Waited, InUse, TaskReturns, Returner, Waits, ForFence

LEMMA FinishedGrows ==
  ASSUME Typed, [Next]_vars, NEW i \in Images
  PROVE  gpu.finished[i] \subseteq gpu'.finished[i]
<1>1. syncImageToColorBuffer => gpu'.finished = gpu.finished BY SubmitGpu
<1>2. ASSUME NEW q \in Queues, Finish(q) PROVE gpu.finished[i] \subseteq gpu'.finished[i]
  <2>1. PICK s \in WaitTasks :
          /\ gpu'.finished[s.image] = gpu.finished[s.image] \cup {s.nth}
          /\ \A a \in Images \ {s.image} : gpu'.finished[a] = gpu.finished[a]
    <3>1. PICK s \in WaitTasks :
            /\ 1 \in 1 .. Len(gpu.queue[q]) /\ s = gpu.queue[q][1]
            /\ \A p \in Queues, k \in Nat : k \in 1 .. Len(gpu'.queue[p]) =>
                 \E l \in Nat : l \in 1 .. Len(gpu.queue[p])
                                /\ gpu'.queue[p][k] = gpu.queue[p][l]
            /\ gpu'.finished[s.image] = gpu.finished[s.image] \cup {s.nth}
            /\ gpu'.signaled[s.image] = gpu.signaled[s.image] \cup {s.fence}
            /\ \A a \in Images \ {s.image} : /\ gpu'.finished[a] = gpu.finished[a]
                                             /\ gpu'.signaled[a] = gpu.signaled[a]
      BY <1>2, FinishGpu, Zenon
    <3> QED BY <3>1
  <2> QED BY <2>1
<1> QED BY <1>1, <1>2, GpuMoves

LEMMA LateClears ==
  ASSUME Typed, [Next]_vars, NEW i \in Images, late'[i] = {}
  PROVE  late[i] = {}
<1>1. \A t \in WaitTasks : WaitForFence(t) => late[i] = {} BY LateEffect
<1> QED BY <1>1, LateMoves

LEMMA FinishedStep ==
  ASSUME Typed, Typed', [Next]_vars, NEW i \in Images, FinishedInv(i), FencesInv(i),
         PresentsInv(i)
  PROVE  FinishedInv(i)'
<1> SUFFICES ASSUME late'[i] = {}
             PROVE  /\ Counted(i)' \subseteq gpu'.finished[i]
                    /\ \A t \in WaitTasks : Over(t)' /\ t.image = i => t.nth \in gpu'.finished[i]
                    /\ \A t \in WaitTasks : Waited(t)' /\ t.image = i =>
                         /\ t.fence \in gpu'.signaled[i] => t.nth \in gpu'.finished[i]
                         /\ \A q \in Queues, k \in Nat :
                              Submitted(q, k, i, t.fence)' => gpu'.queue[q][k].nth = t.nth
  BY DEF FinishedInv
<1>1. late[i] = {} BY LateClears
<1>2. NumberedPool(pool[i]) /\ \A f \in Nat : FenceInv(i, f) BY <1>1 DEF FencesInv
<1>3. Counted(i) \subseteq gpu.finished[i] BY <1>1 DEF FinishedInv
<1>4. \A t \in WaitTasks : Over(t) /\ t.image = i => t.nth \in gpu.finished[i]
  BY <1>1 DEF FinishedInv
<1>5. \A t \in WaitTasks : Waited(t) /\ t.image = i =>
        (t.fence \in gpu.signaled[i] => t.nth \in gpu.finished[i])
  BY <1>1 DEF FinishedInv
<1>6. \A t \in WaitTasks : Waited(t) /\ t.image = i =>
        \A q \in Queues, k \in Nat :
          Submitted(q, k, i, t.fence) => gpu.queue[q][k].nth = t.nth
  BY <1>1 DEF FinishedInv
<1>7. gpu.finished[i] \subseteq gpu'.finished[i] BY FinishedGrows
<1>8. Counted(i)' \subseteq gpu'.finished[i]
  <2>1. CASE Counted(i)' = Counted(i) BY <1>3, <1>7, <2>1
  <2>2. CASE \E t \in WaitTasks : /\ Signals /\ Over(t) /\ t.image = i
                                  /\ Counted(i)' \subseteq Counted(i) \cup {t.nth}
    BY <1>3, <1>4, <1>7, <2>2
  <2> QED BY <2>1, <2>2, PresentsStep
<1>9. ASSUME NEW t \in WaitTasks, Over(t)', t.image = i PROVE t.nth \in gpu'.finished[i]
  <2>1. Over(t) \/ (Waited(t) /\ WaitForFence(t))
    <3>1. syncImageToColorBuffer => Over(t) BY <1>9, SubmitGpu
    <3> QED BY <1>9, <3>1, WaitsMove
  <2>2. WaitForFence(t) => t.fence \in gpu.signaled[i] BY <1>9, LateEffect
  <2> QED BY <1>4, <1>5, <1>7, <1>9, <2>1, <2>2
<1>10. ASSUME NEW t \in WaitTasks, Waited(t)', t.image = i, ~syncImageToColorBuffer
       PROVE  /\ t.fence \in gpu'.signaled[i] => t.nth \in gpu'.finished[i]
              /\ \A q \in Queues, k \in Nat :
                   Submitted(q, k, i, t.fence)' => gpu'.queue[q][k].nth = t.nth
  <2>1. Waited(t) BY <1>10, WaitsMove
  <2>2. CASE gpu' = gpu BY <1>5, <1>6, <1>10, <2>1, <2>2 DEF Submitted
  <2>3. ASSUME NEW q \in Queues, Finish(q)
        PROVE  /\ t.fence \in gpu'.signaled[i] => t.nth \in gpu'.finished[i]
               /\ \A p \in Queues, k \in Nat :
                    Submitted(p, k, i, t.fence)' => gpu'.queue[p][k].nth = t.nth
    <3>1. PICK s \in WaitTasks :
            /\ 1 \in 1 .. Len(gpu.queue[q]) /\ s = gpu.queue[q][1]
            /\ \A p \in Queues, k \in Nat : k \in 1 .. Len(gpu'.queue[p]) =>
                 \E l \in Nat : l \in 1 .. Len(gpu.queue[p]) /\ gpu'.queue[p][k] = gpu.queue[p][l]
            /\ gpu'.finished[s.image] = gpu.finished[s.image] \cup {s.nth}
            /\ gpu'.signaled[s.image] = gpu.signaled[s.image] \cup {s.fence}
            /\ \A a \in Images \ {s.image} : /\ gpu'.finished[a] = gpu.finished[a]
                                             /\ gpu'.signaled[a] = gpu.signaled[a]
      BY <2>3, FinishGpu, Zenon
    <3>2. t.fence \in gpu'.signaled[i] => t.nth \in gpu'.finished[i]
      <4>1. CASE t.fence \in gpu.signaled[i] BY <1>5, <1>7, <1>10, <2>1, <4>1
      <4>2. CASE s.image = i /\ t.fence = s.fence
        <5>1. Submitted(q, 1, i, t.fence) BY <3>1, <4>2 DEF Submitted, ForFence
        <5>2. s.nth = t.nth BY <1>6, <1>10, <2>1, <3>1, <5>1
        <5> QED BY <3>1, <4>2, <5>2
      <4>3. CASE t.fence \notin gpu.signaled[i] /\ ~(s.image = i /\ t.fence = s.fence)
        BY <3>1, <4>3
      <4> QED BY <4>1, <4>2, <4>3
    <3>3. ASSUME NEW p \in Queues, NEW k \in Nat, Submitted(p, k, i, t.fence)'
          PROVE  gpu'.queue[p][k].nth = t.nth
      <4>0. k \in 1 .. Len(gpu'.queue[p]) BY <3>3 DEF Submitted
      <4>1. PICK l \in Nat : l \in 1 .. Len(gpu.queue[p]) /\ gpu'.queue[p][k] = gpu.queue[p][l]
        BY <3>1, <4>0, Zenon
      <4>2. Submitted(p, l, i, t.fence) BY <3>3, <4>1 DEF Submitted, ForFence
      <4> QED BY <1>6, <1>10, <2>1, <4>1, <4>2
    <3> QED BY <3>2, <3>3
  <2> QED BY <1>10, <2>2, <2>3, GpuMoves
<1>11. ASSUME NEW t \in WaitTasks, Waited(t)', t.image = i, syncImageToColorBuffer
       PROVE  /\ t.fence \in gpu'.signaled[i] => t.nth \in gpu'.finished[i]
              /\ \A q \in Queues, k \in Nat :
                   Submitted(q, k, i, t.fence)' => gpu'.queue[q][k].nth = t.nth
  <2>1. PICK j \in Images, u \in WaitTasks :
          /\ j = NextCall.image /\ u = WaitTask(j, NextCall.nth, NextFence(pool[j]))
          /\ \A p \in Queues, k \in Nat : k \in 1 .. Len(gpu'.queue[p]) =>
               \/ k \in 1 .. Len(gpu.queue[p]) /\ gpu'.queue[p][k] = gpu.queue[p][k]
               \/ gpu'.queue[p][k] = u
          /\ gpu'.signaled[j] = gpu.signaled[j] \ {u.fence}
          /\ \A a \in Images \ {j} : gpu'.signaled[a] = gpu.signaled[a]
          /\ gpu'.finished = gpu.finished
          /\ \A v \in WaitTasks : (Waited(v)' => Waited(v) \/ v = u) /\ (Over(v)' => Over(v))
    BY <1>11, SubmitGpu, Zenon
  <2>2. u.image = j /\ u.fence = NextFence(pool[j]) /\ u.fence \in Nat /\ t.fence \in Nat
    BY <2>1 DEF WaitTask, WaitTasks
  <2>3. j = i => u.fence \notin pool[i].used
    BY <1>2, <2>2, CreatedTyped, GetNumbered
  <2>4. CASE Waited(t)
    <3>1. t.fence \in pool[i].used
      BY <1>2, <1>11, <2>2, <2>4, WaitedInUse DEF FenceInv
    <3>2. t.fence \in gpu'.signaled[i] => t.fence \in gpu.signaled[i] BY <2>1
    <3>3. ASSUME NEW q \in Queues, NEW k \in Nat, Submitted(q, k, i, t.fence)'
          PROVE  gpu'.queue[q][k].nth = t.nth
      <4>1. gpu'.queue[q][k] # u BY <2>2, <2>3, <3>1, <3>3 DEF Submitted, ForFence
      <4>2. Submitted(q, k, i, t.fence) /\ gpu'.queue[q][k] = gpu.queue[q][k]
        BY <2>1, <3>3, <4>1 DEF Submitted, ForFence
      <4> QED BY <1>6, <1>11, <2>4, <4>2
    <3> QED BY <1>5, <1>7, <1>11, <2>4, <3>2, <3>3
  <2>5. CASE t = u
    <3>1. j = i BY <1>11, <2>2, <2>5
    <3>2. t.fence \notin gpu'.signaled[i] BY <2>1, <2>5, <3>1
    <3>3. \A q \in Queues, k \in Nat : ~Submitted(q, k, i, t.fence)
      BY <1>2, <2>2, <2>3, <2>5, <3>1 DEF FenceInv, QueuedOnce
    <3>4. ASSUME NEW q \in Queues, NEW k \in Nat, Submitted(q, k, i, t.fence)'
          PROVE  gpu'.queue[q][k].nth = t.nth
      <4>1. CASE gpu'.queue[q][k] = u BY <2>5, <4>1
      <4>2. CASE gpu'.queue[q][k] # u
        <5>1. Submitted(q, k, i, t.fence) BY <2>1, <3>4, <4>2 DEF Submitted, ForFence
        <5> QED BY <3>3, <5>1
      <4> QED BY <4>1, <4>2
    <3> QED BY <3>2, <3>4
  <2> QED BY <1>11, <2>1, <2>4, <2>5
<1> QED BY <1>8, <1>9, <1>10, <1>11, Zenon

(* So the calls of an image are no more than its finished presents.        *)
LEMMA ReadyStep ==
  ASSUME Typed, Typed', [Next]_vars, WithinBound, NEW i \in Images, ReadyInv(i),
         RequestsInv(i), CallsInv(i), CallsInv(i)', PresentsInv(i)', FinishedInv(i)',
         RangeInv(i)'
  PROVE  ReadyInv(i)'
<1> SUFFICES ASSUME late'[i] = {}, i \notin guest'.gaveUp
             PROVE  Cardinality(CalledOf(i)') <= Cardinality(gpu'.finished[i])
  BY DEF ReadyInv
<1>1. IsFiniteSet(gpu'.finished[i])
  <2>1. PresentCount(i)' \in Nat BY SizesNext DEF Sized
  <2>2. gpu'.finished[i] \subseteq 1 .. PresentCount(i)' BY DEF RangeInv
  <2> QED BY <2>1, <2>2, UpTo, FS_Subset
<1>2. late[i] = {} BY LateClears
<1>3. i \notin guest.gaveUp BY DestroyedGrow
<1>4. CASE i \notin guest'.destroyed
  <2>1. Counted(i)' \subseteq gpu'.finished[i] BY DEF FinishedInv
  <2>2. Cardinality(Counted(i)') <= Cardinality(gpu'.finished[i])
    BY <1>1, <2>1, FS_Subset
  <2>3. /\ Cardinality(CalledOf(i)') <= timeline'[i].presents
        /\ timeline'[i].presents <= Cardinality(Counted(i)')
    BY <1>4 DEF CallsInv, CallsCounted, PresentsInv
  <2>4. /\ Cardinality(CalledOf(i)') \in Nat /\ Cardinality(Counted(i)') \in Nat
        /\ timeline'[i].presents \in Nat /\ Cardinality(gpu'.finished[i]) \in Nat
    BY <1>1, SizesNext, FS_CardinalityType DEF Sized, Typed, Timelines
  <2> QED BY <2>2, <2>3, <2>4
<1>5. CASE i \in guest'.destroyed
  <2>1. CalledOf(i)' = CalledOf(i)
    <3>1. CASE i \in guest.destroyed
      <4>1. PresentsOf(i)' = PresentsOf(i) /\ PresentsOf(i) = CalledOf(i)
        BY <1>3, <3>1, PresentsFixed DEF CallsInv
      <4> QED BY <1>5, <4>1 DEF CallsInv
    <3>2. CASE i \notin guest.destroyed
      <4>1. DestroyImage(i) BY <1>5, <3>2, NewlyDestroyed
      <4>2. /\ guest'.exports = guest.exports /\ guest'.decoded = guest.decoded
            /\ called' = called
        BY <4>1 DEF DestroyImage, Typed, Guests
      <4>3. DecodedOf(i)' = DecodedOf(i) BY <4>2, SamePresents
      <4> QED BY <4>2, <4>3 DEF CalledOf
    <3> QED BY <3>1, <3>2
  <2>2. Cardinality(CalledOf(i)) <= Cardinality(gpu.finished[i])
    BY <1>2, <1>3 DEF ReadyInv
  <2>3. gpu.finished[i] \subseteq gpu'.finished[i] BY FinishedGrows
  <2>4. /\ Cardinality(gpu.finished[i]) <= Cardinality(gpu'.finished[i])
        /\ Cardinality(gpu.finished[i]) \in Nat /\ Cardinality(gpu'.finished[i]) \in Nat
        /\ Cardinality(CalledOf(i)) \in Nat
    BY <1>1, <2>3, FS_Subset, FS_CardinalityType, Sizes DEF Sized
  <2> QED BY <2>1, <2>2, <2>4
<1> QED BY <1>4, <1>5

-----------------------------------------------------------------------------
(***************************************************************************)
(* The counters are right in every state.                                  *)
(***************************************************************************)
LEMMA InitCounters == Init => CInv
<1> SUFFICES ASSUME Init PROVE CInv OBVIOUS
<1>1. /\ guest.stream = <<>> /\ guest.exports = <<>> /\ guest.decoded = 0
      /\ guest.destroyed = {} /\ guest.gaveUp = {} /\ tasks = {} /\ rt.pc = "idle"
      /\ \A w \in Workers : worker[w].pc = "idle"
  BY DEF Init, Idle
<1>2. WithinBound BY <1>1, MaxPresentsAssumption DEF WithinBound, Init
<1>3. ASSUME NEW i \in Images
      PROVE  /\ PresentsInv(i) /\ RequestsInv(i) /\ CallsInv(i)
             /\ FinishedInv(i) /\ RangeInv(i) /\ ReadyInv(i)
  <2>1. /\ timeline[i].presents = 0 /\ timeline[i].requests = 0 /\ timeline[i].pending = {}
        /\ pool[i].available = <<>> /\ pool[i].used = {}
        /\ gpu.finished[i] = {} /\ gpu.signaled[i] = {} /\ late[i] = {}
        /\ \A q \in Queues : gpu.queue[q] = <<>>
    BY DEF Init
  <2>2. Typed BY InitTyped
  <2>3. PresentsOf(i) = {} /\ DecodedOf(i) = {} /\ CalledOf(i) = {}
    BY <1>1 DEF PresentsOf, Exported, DecodedOf, Handed, CalledOf
  <2>4. Cardinality({}) = 0 BY FS_EmptySet
  <2>5. PresentCount(i) = 0 BY <2>3, <2>4 DEF PresentCount
  <2>6. /\ \A k, n : ~Streamed(k, i, n)
        /\ \A x : x \notin Flights
    <3>1. \A k, n : ~Streamed(k, i, n) BY <1>1 DEF Streamed
    <3>2. \A x : x \notin Flights BY <1>1, IsFlight DEF Returns
    <3> QED BY <3>1, <3>2
  <2>7. \A n : ~Flying(i, n) BY <2>6 DEF Flying
  <2>8. NumberedPool(pool[i]) /\ Created(pool[i]) = 0
    <3>1. ToSet(pool[i].available) = {} BY <2>1 DEF ToSet
    <3>2. IsInjective(pool[i].available) BY <2>1 DEF IsInjective
    <3>3. Created(pool[i]) = 0 BY <2>1, <2>4 DEF Created
    <3> QED BY <2>1, <3>1, <3>2, <3>3 DEF NumberedPool
  <2>9. PresentsInv(i)
    <3>1. StreamInv(i) BY <2>6 DEF StreamInv
    <3>2. FlightsInv(i) BY <2>7 DEF FlightsInv
    <3>3. FlightsUnique(i) BY <2>6 DEF FlightsUnique, Flies
    <3>4. FencesCreated(i)
      <4>1. ToSet(pool[i].available) = {} BY <2>1 DEF ToSet
      <4> QED BY <2>1, <2>5, <2>8, <4>1 DEF FencesCreated
    <3>5. timeline[i].presents <= Cardinality(Counted(i))
      <4>1. Cardinality(Counted(i)) \in Nat BY <2>2, Sizes DEF Sized
      <4> QED BY <2>1, <4>1
    <3> QED BY <3>1, <3>2, <3>3, <3>4, <3>5 DEF PresentsInv
  <2>10. RequestsInv(i)
    <3>1. Cardinality(Registered(i)) \in Nat BY <2>2, Sizes DEF Sized
    <3> QED BY <1>1, <2>1, <3>1 DEF RequestsInv, Registers
  <2>11. CallsInv(i)
    <3>1. Alive(i) BY <1>1 DEF Alive, Init
    <3>2. CallsCounted(i) BY <2>1, <2>3, <2>4 DEF CallsCounted
    <3> QED BY <1>1, <3>1, <3>2 DEF CallsInv
  <2>12. Counted(i) = {} BY <2>5 DEF Counted
  <2>13. \A t \in WaitTasks : ~Over(t) /\ ~Waited(t) BY <1>1 DEF Over, Waited
  <2>14. FinishedInv(i) BY <2>12, <2>13 DEF FinishedInv
  <2>15. RangeInv(i) BY <2>1 DEF RangeInv
  <2>16. ReadyInv(i) BY <2>1, <2>3, <2>4 DEF ReadyInv
  <2> QED BY <2>9, <2>10, <2>11, <2>14, <2>15, <2>16
<1> QED BY <1>2, <1>3 DEF CInv

LEMMA CountersStep == IInv /\ CInv /\ [Next]_vars => CInv'
<1> SUFFICES ASSUME IInv, CInv, [Next]_vars PROVE CInv' OBVIOUS
<1>1. Typed /\ Typed' /\ ExportsInv /\ PoolInv BY NextInv DEF IInv
<1>2. WithinBound /\ WithinBound' BY <1>1, BoundStep DEF CInv
<1>3. \A j \in Images : PresentsInv(j) /\ RequestsInv(j) BY DEF CInv
<1>4. ASSUME NEW i \in Images
      PROVE  /\ PresentsInv(i)' /\ RequestsInv(i)' /\ CallsInv(i)'
             /\ FinishedInv(i)' /\ RangeInv(i)' /\ ReadyInv(i)'
  <2>1. /\ PresentsInv(i) /\ RequestsInv(i) /\ CallsInv(i)
        /\ FinishedInv(i) /\ RangeInv(i) /\ ReadyInv(i) /\ FencesInv(i)
    BY <1>1 DEF CInv, PoolInv
  <2>2. PresentsInv(i)' BY <1>1, <2>1, PresentsStep
  <2>3. RequestsInv(i)' BY <1>1, <2>1, RequestsStep
  <2>4. CallsInv(i)' BY <1>1, <1>2, <1>3, <2>1, CallsStep
  <2>5. FinishedInv(i)' BY <1>1, <2>1, FinishedStep
  <2>6. RangeInv(i)' BY <1>1, <1>3, <2>1, RangeStep
  <2>7. ReadyInv(i)' BY <1>1, <1>2, <2>1, <2>2, <2>4, <2>5, <2>6, ReadyStep
  <2> QED BY <2>2, <2>3, <2>4, <2>5, <2>6, <2>7
<1> QED BY <1>2, <1>4 DEF CInv

LEMMA CountersInvariance == Spec => [](IInv /\ CInv)
<1>1. Init => IInv /\ CInv BY InitInv, InitCounters
<1>2. IInv /\ CInv /\ [Next]_vars => (IInv /\ CInv)' BY NextInv, CountersStep
<1> QED BY <1>1, <1>2, PTL DEF Spec

(* A sequence of numbers whose elements are in a smaller set.              *)
LEMMA SeqNarrows ==
  ASSUME NEW s \in Seq(Nat), NEW T, \A k \in 1 .. Len(s) : s[k] \in T
  PROVE  s \in Seq(T)
<1>1. Len(s) \in Nat /\ s = [k \in 1 .. Len(s) |-> s[k]] BY LenProperties
<1> DEFINE n == Len(s)
<1>2. s \in [1 .. n -> T] BY <1>1
<1> HIDE DEF n
<1>3. n \in Nat BY <1>1 DEF n
<1> QED BY <1>2, <1>3 DEF Seq

(* Spec keeps TypeOK: no timeline counts a present that the render thread  *)
(* has not submitted, nor a request that was not decoded, and there are no *)
(* more fences than presents.                                              *)
THEOREM CountersWithinBounds == Spec => []TypeOK
<1>1. IInv /\ CInv => TypeOK
  <2> SUFFICES ASSUME IInv, CInv PROVE TypeOK OBVIOUS
  <2>1. Typed /\ WithinBound BY DEF IInv, CInv
  <2>2. PICK n \in Nat, d \in Nat : n = Len(guest.exports) /\ d = guest.decoded /\ d <= n
    BY <2>1 DEF Typed, Guests
  <2>3. n <= MaxPresents /\ MaxPresents \in Nat
    BY <2>1, <2>2, MaxPresentsAssumption DEF WithinBound
  <2>4. guest.exports \in Seq(Images) /\ guest.decoded \in 0 .. Len(guest.exports)
    <3>1. d \in 0 .. n BY <2>2
    <3> QED BY <2>1, <2>2, <3>1 DEF Typed, Guests
  <2>5. ASSUME NEW i \in Images
        PROVE  pool[i].available \in Seq(Fences) /\ pool[i].used \subseteq Fences
    <3>1. FencesCreated(i) BY DEF CInv, PresentsInv
    <3>2. PICK c \in Nat, p \in Nat :
            c = Created(pool[i]) /\ p = PresentCount(i) /\ c <= p /\ p <= n
      BY <2>1, <2>2, <3>1, CreatedTyped, Sizes DEF FencesCreated, Sized
    <3>3. pool[i].available \in Seq(Nat) /\ pool[i].used \subseteq Nat
      BY <2>1, CreatedTyped DEF Pools
    <3>4. ToSet(pool[i].available) \subseteq Nat BY <3>3 DEF ToSet
    <3>5. ASSUME NEW f \in ToSet(pool[i].available) \cup pool[i].used PROVE f \in Fences
      <4>1. f \in Nat /\ f # 0 BY <3>1, <3>3, <3>4 DEF FencesCreated
      <4>2. f <= c BY <3>1, <3>2 DEF FencesCreated, NumberedPool
      <4> QED BY <2>3, <3>2, <4>1, <4>2 DEF Fences
    <3>6. \A k \in 1 .. Len(pool[i].available) : pool[i].available[k] \in Fences
      BY <3>5 DEF ToSet
    <3>7. pool[i].available \in Seq(Fences) BY <3>3, <3>6, SeqNarrows
    <3> QED BY <3>5, <3>7
  <2>6. ASSUME NEW i \in Images
        PROVE  /\ timeline[i].presents \in 0 .. Cardinality({e \in Exported : ImageOf(e) = i})
               /\ timeline[i].requests \in 0 .. Cardinality({e \in Handed : ImageOf(e) = i})
    <3>1. PICK p \in Nat, r \in Nat, a \in Nat, b \in Nat :
            /\ p = timeline[i].presents /\ r = timeline[i].requests
            /\ a = PresentCount(i) /\ b = Cardinality(DecodedOf(i))
      BY <2>1, Sizes DEF Sized, Typed, Timelines
    <3>2. p <= a
      <4>1. p <= Cardinality(Counted(i)) BY <3>1 DEF CInv, PresentsInv
      <4>2. Cardinality(Counted(i)) \in Nat /\ Cardinality(Counted(i)) <= a
        BY <2>1, <3>1, Sizes DEF Sized
      <4> QED BY <4>1, <4>2
    <3>3. r <= b
      <4>1. r <= Cardinality(Registered(i)) BY <3>1 DEF CInv, RequestsInv
      <4>2. Cardinality(Registered(i)) \in Nat /\ Cardinality(Registered(i)) <= b
        BY <2>1, <3>1, Sizes DEF Sized
      <4> QED BY <4>1, <4>2
    <3>4. p \in 0 .. a /\ r \in 0 .. b BY <3>2, <3>3
    <3> QED BY <3>1, <3>4 DEF PresentCount, PresentsOf, DecodedOf
  <2>7. ASSUME NEW i \in Images
        PROVE  {r.count : r \in timeline[i].pending} \subseteq 0 .. timeline[i].requests - 1
    <3>1. \A r \in timeline[i].pending : r.count \in Nat /\ r.count < timeline[i].requests
      BY <2>1 DEF CInv, RequestsInv, Typed, Timelines
    <3>2. timeline[i].requests \in Nat BY <2>1 DEF Typed, Timelines
    <3>3. \A r \in timeline[i].pending : r.count \in 0 .. timeline[i].requests - 1
      BY <3>1, <3>2
    <3> QED BY <3>3
  <2>8. ASSUME NEW i \in Images PROVE late[i] \subseteq 1 .. MaxPresents
    <3>1. PICK p \in Nat : p = PresentCount(i) /\ p <= n BY <2>1, <2>2, Sizes DEF Sized
    <3>2. 1 .. p \subseteq 1 .. MaxPresents BY <2>3, <3>1
    <3> QED BY <3>1, <3>2 DEF CInv, RangeInv
  <2>9. rt.pc \in {"idle", "wait", "return", "signal", "teardown"}
    BY <2>1 DEF Typed, Threads, Idle, Returns
  <2>10. ASSUME NEW w \in Workers
         PROVE  worker[w].pc \in {"idle", "lookup", "register", "wait", "return",
                                  "signal", "teardown"}
    <3>1. worker[w] \in Pooled BY <2>1 DEF Typed
    <3> QED BY <3>1 DEF Pooled, Idle, Returns, Registers
  <2>11. native \subseteq Images /\ mImageInfo \subseteq Images BY <2>1 DEF WithinBound
  <2> QED BY <2>4, <2>5, <2>6, <2>7, <2>8, <2>9, <2>10, <2>11 DEF TypeOK
<1> QED BY <1>1, CountersInvariance, PTL

(* Spec keeps FenceCountsPresents: the fence of the n-th export of an      *)
(* image signals only when n presents of it have finished, whatever order  *)
(* the workers take the waits and the requests in.                         *)
THEOREM FencesCountPresents == Spec => []FenceCountsPresents
<1>1. IInv /\ CInv => FenceCountsPresents
  <2> SUFFICES ASSUME IInv, CInv, NEW e \in Handed, Signaled(e),
                      ImageOf(e) \notin guest.gaveUp, late[ImageOf(e)] = {}
               PROVE  Cardinality(gpu.finished[ImageOf(e)]) >= Nth(e)
    BY DEF FenceCountsPresents
  <2>1. Typed BY DEF IInv
  <2>2. PICK n \in Nat, d \in Nat : n = Len(guest.exports) /\ d = guest.decoded /\ d <= n
    BY <2>1 DEF Typed, Guests
  <2>3. e \in Nat /\ e \in 1 .. d /\ e \in 1 .. n BY <2>2 DEF Handed
  <2>4. PICK i \in Images : i = ImageOf(e)
    <3>1. guest.exports \in Seq(Images) BY <2>1 DEF Typed, Guests
    <3> QED BY <2>2, <2>3, <3>1 DEF ImageOf
  <2>5. {k \in 1 .. e : ImageOf(k) = i} \subseteq CalledOf(i)
    <3>1. 1 .. e \subseteq 1 .. d BY <2>3
    <3> QED BY <2>2, <3>1 DEF Signaled, CalledOf, DecodedOf, Handed
  <2>6. /\ IsFiniteSet(CalledOf(i)) /\ Cardinality(CalledOf(i)) \in Nat
        /\ IsFiniteSet(gpu.finished[i]) /\ Cardinality(gpu.finished[i]) \in Nat
    <3>1. PresentCount(i) \in Nat BY <2>1, Sizes DEF Sized
    <3>2. gpu.finished[i] \subseteq 1 .. PresentCount(i) BY DEF CInv, RangeInv
    <3> QED BY <2>1, <3>1, <3>2, UpTo, FS_Subset, FS_CardinalityType, Sizes DEF Sized
  <2>7. Nth(e) = Cardinality({k \in 1 .. e : ImageOf(k) = i}) BY <2>4 DEF Nth
  <2>8. /\ Cardinality({k \in 1 .. e : ImageOf(k) = i}) \in Nat
        /\ Cardinality({k \in 1 .. e : ImageOf(k) = i}) <= Cardinality(CalledOf(i))
    BY <2>5, <2>6, FS_Subset, FS_CardinalityType
  <2>9. Cardinality(CalledOf(i)) <= Cardinality(gpu.finished[i])
    BY <2>4 DEF CInv, ReadyInv
  <2> QED BY <2>4, <2>6, <2>7, <2>8, <2>9
<1> QED BY <1>1, CountersInvariance, PTL

=============================================================================
