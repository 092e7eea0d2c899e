---------------------- MODULE ColorBufferLifetimeProofs ----------------------
(***************************************************************************)
(* Proofs about ColorBufferLifetime, for any processes, surfaces, feature  *)
(* sets and bounds: the count of a buffer is the number of its references, *)
(* what is referred to is in the table, and the delayed list names unused  *)
(* buffers only.                                                           *)
(*                                                                         *)
(* The first part is about the table alone: each operator on it is proved  *)
(* against a function c that says how many references each handle has.     *)
(* The second part counts the references, and the last is one step per     *)
(* call.                                                                   *)
(***************************************************************************)
EXTENDS ColorBufferLifetime, FiniteSetTheorems, SequenceTheorems,
        WellFoundedInduction, TLAPS

-----------------------------------------------------------------------------
(***************************************************************************)
(* A set of numbers has a least one: the intervals 1 .. n, n \in T, have a *)
(* least one by inclusion.                                                 *)
(***************************************************************************)
LEMMA LeastNumber ==
  ASSUME NEW T \in SUBSET Nat, T # {}
  PROVE  \E n \in T : \A m \in T : n <= m
<1> DEFINE I == {1 .. n : n \in T}  R == StrictSubsetOrdering(Nat)
<1>1. I \subseteq FiniteSubsetsOf(Nat)
  <2> SUFFICES ASSUME NEW n \in T PROVE 1 .. n \in FiniteSubsetsOf(Nat) OBVIOUS
  <2>1. IsFiniteSet(1 .. n) BY FS_Interval
  <2> QED BY <2>1 DEF FiniteSubsetsOf
<1>2. IsWellFoundedOn(R, FiniteSubsetsOf(Nat)) BY FS_StrictSubsetOrderingWellFounded
<1>3. I # {} OBVIOUS
<1>4. PICK x \in I : \A y \in I : ~(<<y, x>> \in R)
  <2> HIDE DEF I, R
  <2> QED BY <1>1, <1>2, <1>3, WFMin
<1>5. PICK n \in T : x = 1 .. n OBVIOUS
<1>6. ASSUME NEW m \in T, m < n PROVE FALSE
  <2>1. 1 .. m \in I /\ 1 .. m \subseteq 1 .. n /\ 1 .. n \subseteq Nat BY <1>6
  <2>2. n \in 1 .. n /\ n \notin 1 .. m BY <1>6
  <2>3. 1 .. m # 1 .. n BY <2>2
  <2>4. <<1 .. m, 1 .. n>> \in R BY <2>1, <2>3 DEF StrictSubsetOrdering
  <2> HIDE DEF I, R
  <2> QED BY <1>4, <1>5, <2>1, <2>4
<1> QED BY <1>6

-----------------------------------------------------------------------------
(***************************************************************************)
(* The delayed list is ordered by time.                                    *)
(***************************************************************************)
Sorted(list) ==
  \A i, j \in 1 .. Len(list) : i <= j => list[i].ts <= list[j].ts

(* In a sorted list the search finds the first entry of a time.            *)
LEMMA LowerBoundSorted ==
  ASSUME NEW list \in Seq(CloseInfo), Sorted(list), NEW ts \in Nat
  PROVE  /\ LowerBound(list, ts) \in 1 .. Len(list) + 1
         /\ \A j \in 1 .. LowerBound(list, ts) - 1 : list[j].ts < ts
         /\ \A j \in LowerBound(list, ts) .. Len(list) : list[j].ts >= ts
<1> DEFINE cut == PartitionPoints(list, ts)
           T == {i \in 1 .. Len(list) : list[i].ts >= ts} \cup {Len(list) + 1}
<1>1. Len(list) \in Nat /\ \A i \in 1 .. Len(list) : list[i].ts \in Nat
  <2>1. \A i \in 1 .. Len(list) : list[i] \in CloseInfo OBVIOUS
  <2> QED BY <2>1, BoundsAssumption DEF CloseInfo
<1>2. PICK n \in T : \A m \in T : n <= m
  <2>1. T \in SUBSET Nat /\ T # {} BY <1>1
  <2> HIDE DEF T
  <2> QED BY <2>1, LeastNumber
<1>3. n \in 1 .. Len(list) + 1 BY <1>1
<1>4. ASSUME NEW j \in 1 .. n - 1 PROVE list[j].ts < ts
  <2>1. j \in 1 .. Len(list) /\ j < n BY <1>1, <1>3
  <2>2. j \notin T BY <1>2, <2>1, <1>3
  <2>3. ~(list[j].ts >= ts) BY <2>1, <2>2
  <2> QED BY <1>1, <2>1, <2>3
<1>5. ASSUME NEW j \in n .. Len(list) PROVE list[j].ts >= ts
  <2>1. n \in 1 .. Len(list) /\ j \in 1 .. Len(list) /\ n <= j BY <1>1, <1>3
  <2>2. n # Len(list) + 1 BY <1>1, <2>1
  <2>3. list[n].ts >= ts BY <2>2
  <2>4. list[n].ts <= list[j].ts BY <2>1 DEF Sorted
  <2> QED BY <1>1, <2>1, <2>3, <2>4
<1>6. n \in cut BY <1>3, <1>4, <1>5 DEF PartitionPoints
<1>7. LowerBound(list, ts) = CHOOSE i \in cut : TRUE BY <1>6 DEF LowerBound
<1>8. LowerBound(list, ts) \in cut
  <2> HIDE DEF cut
  <2> QED BY <1>6, <1>7
<1> QED BY <1>8 DEF PartitionPoints

(* The entry of a handle is found by the time of its closing.              *)
LEMMA HitsEntry ==
  ASSUME NEW list \in Seq(CloseInfo), Sorted(list), NEW h, NEW ts \in Nat,
         \A i \in 1 .. Len(list) : list[i].cb = h => list[i].ts = ts,
         \A i, j \in 1 .. Len(list) : list[i].cb = h /\ list[j].cb = h => i = j
  PROVE  Hits(list, h, ts) = {i \in 1 .. Len(list) : list[i].cb = h}
<1> DEFINE b == LowerBound(list, ts)
<1>1. /\ b \in 1 .. Len(list) + 1
      /\ \A j \in 1 .. b - 1 : list[j].ts < ts
      /\ \A j \in b .. Len(list) : list[j].ts >= ts
  BY LowerBoundSorted
<1>2. Len(list) \in Nat /\ \A i \in 1 .. Len(list) : list[i].ts \in Nat
  <2>1. \A i \in 1 .. Len(list) : list[i] \in CloseInfo OBVIOUS
  <2> QED BY <2>1, BoundsAssumption DEF CloseInfo
<1>3. Hits(list, h, ts) = {i \in b .. Len(list) :
                             /\ list[i].cb = h
                             /\ \A j \in b .. i : list[j].ts = ts
                             /\ \A j \in b .. i - 1 : list[j].cb # h}
  BY DEF Hits
<1> HIDE DEF b
<1>4. ASSUME NEW i \in 1 .. Len(list), list[i].cb = h
      PROVE  /\ i \in b .. Len(list)
             /\ \A j \in b .. i : list[j].ts = ts
             /\ \A j \in b .. i - 1 : list[j].cb # h
  <2>1. list[i].ts = ts BY <1>4
  <2>2. i >= b
    <3> SUFFICES ASSUME i < b PROVE FALSE BY <1>1
    <3>1. i \in 1 .. b - 1 BY <1>1
    <3>2. list[i].ts < ts BY <1>1, <3>1
    <3> QED BY <2>1, <3>2
  <2>3. ASSUME NEW j \in b .. i PROVE list[j].ts = ts
    <3>1. j \in 1 .. Len(list) /\ j \in b .. Len(list) /\ j <= i BY <1>1, <1>2
    <3>2. list[j].ts <= list[i].ts BY <3>1 DEF Sorted
    <3>3. list[j].ts >= ts BY <1>1, <3>1
    <3> QED BY <1>2, <2>1, <3>1, <3>2, <3>3
  <2>4. ASSUME NEW j \in b .. i - 1 PROVE list[j].cb # h
    <3>1. j \in 1 .. Len(list) /\ j # i BY <1>1, <1>2
    <3> QED BY <1>4, <3>1
  <2> QED BY <1>1, <1>2, <2>2, <2>3, <2>4
<1>5. b .. Len(list) \subseteq 1 .. Len(list) BY <1>1, <1>2
<1> QED BY <1>3, <1>4, <1>5

-----------------------------------------------------------------------------
(***************************************************************************)
(* What is kept of a table S whose handle h has c[h] references, at time   *)
(* t.  A handle that is not in the table has none.                         *)
(***************************************************************************)
Counts == [Handles -> Nat]

TableTyped(S) ==
  /\ S = [bufs |-> S.bufs, delayed |-> S.delayed]
  /\ DOMAIN S.bufs \subseteq Handles
  /\ S.bufs \in [DOMAIN S.bufs -> ColorBufferRef]
  /\ S.delayed \in Seq(CloseInfo)

Unused(S, e) == /\ e.cb \in DOMAIN S.bufs
                /\ S.bufs[e.cb].refcount = 0
                /\ S.bufs[e.cb].closedTs = e.ts

Listed(S, t) ==
  /\ Sorted(S.delayed)
  /\ \A i \in 1 .. Len(S.delayed) :
       /\ S.delayed[i].ts <= t
       /\ S.delayed[i].cb # 0 => Unused(S, S.delayed[i])
  /\ \A i, j \in 1 .. Len(S.delayed) :
       S.delayed[i].cb = S.delayed[j].cb /\ S.delayed[i].cb # 0 => i = j

Counted(S, c) ==
  \A h \in Handles :
    c[h] = IF h \in DOMAIN S.bufs THEN S.bufs[h].refcount ELSE 0

Complete(S) ==
  \A h \in DOMAIN S.bufs :
    S.bufs[h].opened /\ S.bufs[h].refcount = 0
      => \E i \in 1 .. Len(S.delayed) : S.delayed[i].cb = h

TableInv(S, c, t) ==
  /\ TableTyped(S) /\ Listed(S, t) /\ Counted(S, c)
  /\ ~GuestManaged => Complete(S)

Plus(c, n)  == [h \in Handles |-> c[h] + n[h]]
Minus(c, n) == [h \in Handles |-> c[h] - n[h]]

(* The fields of a buffer and of an entry.                                 *)
LEMMA BufferFields ==
  ASSUME NEW S, TableTyped(S), NEW h \in DOMAIN S.bufs
  PROVE  /\ S.bufs[h] \in ColorBufferRef /\ h \in Handles /\ h \in Nat /\ h # 0
         /\ S.bufs[h].refcount \in 0 .. RefMod - 1 /\ S.bufs[h].refcount \in Nat
         /\ S.bufs[h].opened \in BOOLEAN
         /\ S.bufs[h].closedTs \in 0 .. MaxTime /\ S.bufs[h].closedTs \in Nat
<1>1. S.bufs[h] \in ColorBufferRef /\ h \in Handles BY DEF TableTyped
<1> QED BY <1>1, BoundsAssumption DEF ColorBufferRef, Handles

LEMMA EntryFields ==
  ASSUME NEW S, TableTyped(S), NEW i \in 1 .. Len(S.delayed)
  PROVE  /\ S.delayed[i] \in CloseInfo
         /\ S.delayed[i].ts \in 0 .. MaxTime /\ S.delayed[i].ts \in Nat
         /\ S.delayed[i].cb \in Handles \cup {0}
<1>1. S.delayed[i] \in CloseInfo BY DEF TableTyped
<1> QED BY <1>1, BoundsAssumption DEF CloseInfo

LEMMA SmallMod ==
  ASSUME NEW x \in 0 .. RefMod - 1
  PROVE  x % RefMod = x
BY BoundsAssumption

(* Erasing the entries of the handles in H clears what names them.         *)
LEMMA ErasedEntries ==
  ASSUME NEW S, NEW t, TableTyped(S), Listed(S, t), NEW H \in SUBSET DOMAIN S.bufs
  PROVE  eraseDelayedCloseColorBufferLocked(S.delayed, S.bufs, H)
           = [i \in 1 .. Len(S.delayed) |->
                IF S.delayed[i].cb \in H THEN [S.delayed[i] EXCEPT !.cb = 0]
                                         ELSE S.delayed[i]]
<1>1. ASSUME NEW h \in H
      PROVE  Hits(S.delayed, h, S.bufs[h].closedTs)
               = {i \in 1 .. Len(S.delayed) : S.delayed[i].cb = h}
  <2>1. S.bufs[h].closedTs \in Nat /\ h # 0 BY BufferFields
  <2>2. S.delayed \in Seq(CloseInfo) /\ Sorted(S.delayed) BY DEF TableTyped, Listed
  <2>3. \A i \in 1 .. Len(S.delayed) :
          S.delayed[i].cb = h => S.delayed[i].ts = S.bufs[h].closedTs
    BY <2>1 DEF Listed, Unused
  <2>4. \A i, j \in 1 .. Len(S.delayed) :
          S.delayed[i].cb = h /\ S.delayed[j].cb = h => i = j
    BY <2>1 DEF Listed
  <2> QED BY <2>1, <2>2, <2>3, <2>4, HitsEntry
<1>2. \A i \in 1 .. Len(S.delayed) :
        (\E h \in H : i \in Hits(S.delayed, h, S.bufs[h].closedTs))
          <=> S.delayed[i].cb \in H
  BY <1>1
<1> QED BY <1>2 DEF eraseDelayedCloseColorBufferLocked

(* What a list with some of its entries cleared is.                        *)
Cleared(list, H) ==
  [i \in 1 .. Len(list) |->
     IF list[i].cb \in H THEN [list[i] EXCEPT !.cb = 0] ELSE list[i]]

LEMMA ClearedEntries ==
  ASSUME NEW S, TableTyped(S), NEW H
  PROVE  /\ Cleared(S.delayed, H) \in Seq(CloseInfo)
         /\ Len(Cleared(S.delayed, H)) = Len(S.delayed)
         /\ \A i \in 1 .. Len(S.delayed) :
              /\ Cleared(S.delayed, H)[i].ts = S.delayed[i].ts
              /\ Cleared(S.delayed, H)[i].cb
                   = IF S.delayed[i].cb \in H THEN 0 ELSE S.delayed[i].cb
<1> DEFINE list == Cleared(S.delayed, H)  n == Len(S.delayed)
<1>1. n \in Nat BY DEF TableTyped
<1>2. DOMAIN list = 1 .. n
      /\ \A i \in 1 .. n : list[i] = IF S.delayed[i].cb \in H
                                     THEN [S.delayed[i] EXCEPT !.cb = 0]
                                     ELSE S.delayed[i]
  BY DEF Cleared
<1>3. \A i \in 1 .. n : S.delayed[i] \in CloseInfo BY DEF TableTyped
<1>4. \A e \in CloseInfo : /\ [e EXCEPT !.cb = 0] \in CloseInfo
                           /\ [e EXCEPT !.cb = 0].ts = e.ts
                           /\ [e EXCEPT !.cb = 0].cb = 0
  BY DEF CloseInfo
<1> HIDE DEF list
<1>5. \A i \in 1 .. n : /\ list[i] \in CloseInfo
                        /\ list[i].ts = S.delayed[i].ts
                        /\ list[i].cb = IF S.delayed[i].cb \in H THEN 0
                                        ELSE S.delayed[i].cb
  BY <1>2, <1>3, <1>4
<1>6. list \in [1 .. n -> CloseInfo]
  <2>1. list = [i \in 1 .. n |-> list[i]] BY DEF list, Cleared
  <2> QED BY <1>5, <2>1
<1>7. list \in Seq(CloseInfo) /\ Len(list) = n
  BY <1>1, <1>6, SeqDef
<1> QED BY <1>5, <1>7 DEF list

-----------------------------------------------------------------------------
(***************************************************************************)
(* The operators on the table.                                             *)
(***************************************************************************)
LEMMA DecrementedBufs ==
  ASSUME NEW S, NEW c \in Counts, NEW n \in Counts, TableTyped(S), Counted(S, c),
         \A h \in Handles : n[h] <= c[h]
  PROVE  /\ DOMAIN Decremented(S.bufs, n) = DOMAIN S.bufs
         /\ \A h \in DOMAIN S.bufs :
              /\ Decremented(S.bufs, n)[h] \in ColorBufferRef
              /\ Decremented(S.bufs, n)[h].refcount = c[h] - n[h]
              /\ Decremented(S.bufs, n)[h].opened = S.bufs[h].opened
              /\ Decremented(S.bufs, n)[h].closedTs = S.bufs[h].closedTs
         /\ LastClosed(S, n) = {h \in DOMAIN S.bufs : n[h] > 0 /\ c[h] = n[h]}
<1>1. ASSUME NEW h \in DOMAIN S.bufs
      PROVE  /\ S.bufs[h].refcount = c[h] /\ c[h] \in Nat /\ n[h] \in Nat
             /\ n[h] <= c[h] /\ c[h] \in 0 .. RefMod - 1 /\ c[h] - n[h] \in 0 .. RefMod - 1
  <2>1. h \in Handles /\ S.bufs[h].refcount \in 0 .. RefMod - 1 BY BufferFields
  <2>2. S.bufs[h].refcount = c[h] BY <2>1 DEF Counted
  <2>3. c[h] \in Nat /\ n[h] \in Nat /\ n[h] <= c[h] BY <2>1 DEF Counts
  <2> QED BY <2>1, <2>2, <2>3, BoundsAssumption
<1>2. ASSUME NEW h \in DOMAIN S.bufs
      PROVE  /\ Decremented(S.bufs, n)[h] \in ColorBufferRef
             /\ Decremented(S.bufs, n)[h].refcount = c[h] - n[h]
             /\ Decremented(S.bufs, n)[h].opened = S.bufs[h].opened
             /\ Decremented(S.bufs, n)[h].closedTs = S.bufs[h].closedTs
  <2> DEFINE r == (S.bufs[h].refcount - n[h]) % RefMod
  <2>1. r = c[h] - n[h]
    <3>1. (c[h] - n[h]) % RefMod = c[h] - n[h] BY <1>1, SmallMod
    <3> QED BY <1>1, <3>1
  <2>2. Decremented(S.bufs, n)[h] = [S.bufs[h] EXCEPT !.refcount = r] BY DEF Decremented
  <2>3. r \in 0 .. RefMod - 1 BY <1>1, <2>1
  <2>4. S.bufs[h] \in ColorBufferRef BY BufferFields
  <2> HIDE DEF r
  <2> QED BY <2>1, <2>2, <2>3, <2>4 DEF ColorBufferRef
<1>3. LastClosed(S, n) = {h \in DOMAIN S.bufs : n[h] > 0 /\ c[h] = n[h]}
  BY <1>1 DEF LastClosed
<1> QED BY <1>2, <1>3 DEF Decremented

(* Taking references that are there away one by one.                       *)
LEMMA DecTable ==
  ASSUME NEW S, NEW c \in Counts, NEW n \in Counts, NEW t \in Nat,
         TableInv(S, c, t), \A h \in Handles : n[h] <= c[h]
  PROVE  TableInv(decColorBufferRefCountLocked(S, n), Minus(c, n), t)
<1> DEFINE bufs == Decremented(S.bufs, n)
           last == LastClosed(S, n)
           R == decColorBufferRefCountLocked(S, n)
<1>1. TableTyped(S) /\ Listed(S, t) /\ Counted(S, c) /\ (~GuestManaged => Complete(S))
  BY DEF TableInv
<1>2. /\ DOMAIN bufs = DOMAIN S.bufs
      /\ \A h \in DOMAIN S.bufs :
              /\ bufs[h] \in ColorBufferRef
              /\ bufs[h].refcount = c[h] - n[h]
              /\ bufs[h].opened = S.bufs[h].opened
              /\ bufs[h].closedTs = S.bufs[h].closedTs
      /\ last = {h \in DOMAIN S.bufs : n[h] > 0 /\ c[h] = n[h]}
  BY <1>1, DecrementedBufs
<1>3. R = [bufs |-> Without(bufs, last), delayed |-> S.delayed]
  BY <1>1 DEF decColorBufferRefCountLocked, TableTyped
<1>4. \A h \in DOMAIN S.bufs : S.bufs[h].refcount = c[h] BY <1>1 DEF Counted, TableTyped
<1>5. \A h \in Handles : c[h] \in Nat /\ n[h] \in Nat /\ n[h] <= c[h] BY DEF Counts
<1>6. DOMAIN S.bufs \subseteq Handles /\ S.delayed \in Seq(CloseInfo) BY <1>1 DEF TableTyped
<1> HIDE DEF bufs, last
<1>7. /\ DOMAIN R.bufs = DOMAIN S.bufs \ last
      /\ \A h \in DOMAIN R.bufs : R.bufs[h] = bufs[h]
      /\ R.bufs = [h \in DOMAIN R.bufs |-> bufs[h]]
      /\ R.delayed = S.delayed
  BY <1>2, <1>3 DEF Without, Restrict
<1>8. R = [bufs |-> R.bufs, delayed |-> R.delayed] BY <1>3
<1> HIDE DEF R
<1>9. TableTyped(R)
  <2>1. R.bufs \in [DOMAIN R.bufs -> ColorBufferRef] BY <1>2, <1>7
  <2> QED BY <1>6, <1>7, <1>8, <2>1 DEF TableTyped
<1>10. Listed(R, t)
  <2>1. ASSUME NEW i \in 1 .. Len(R.delayed), R.delayed[i].cb # 0
        PROVE  Unused(R, R.delayed[i])
    <3> DEFINE h == S.delayed[i].cb
    <3>1. h \in DOMAIN S.bufs /\ S.bufs[h].refcount = 0
          /\ S.bufs[h].closedTs = S.delayed[i].ts
      BY <1>1, <1>7, <2>1 DEF Listed, Unused
    <3>2. c[h] = 0 /\ n[h] = 0 BY <1>4, <1>5, <1>6, <3>1
    <3>3. h \in DOMAIN R.bufs /\ R.bufs[h] = bufs[h] BY <1>2, <1>7, <3>1, <3>2
    <3> QED BY <1>2, <1>7, <3>1, <3>2, <3>3 DEF Unused
  <2> QED BY <1>1, <1>7, <2>1 DEF Listed
<1>11. Counted(R, Minus(c, n))
  <2> SUFFICES ASSUME NEW h \in Handles
               PROVE  c[h] - n[h] = IF h \in DOMAIN R.bufs THEN R.bufs[h].refcount ELSE 0
    BY DEF Counted, Minus
  <2>1. CASE h \in DOMAIN R.bufs BY <1>2, <1>7, <2>1
  <2>2. CASE h \in last BY <1>2, <1>5, <1>7, <2>2
  <2>3. CASE h \notin DOMAIN S.bufs
    <3>1. c[h] = 0 BY <1>1, <2>3 DEF Counted
    <3> QED BY <1>5, <1>7, <2>3, <3>1
  <2> QED BY <1>7, <2>1, <2>2, <2>3
<1>12. ASSUME ~GuestManaged PROVE Complete(R)
  <2> SUFFICES ASSUME NEW h \in DOMAIN R.bufs, R.bufs[h].opened, R.bufs[h].refcount = 0
               PROVE  \E i \in 1 .. Len(R.delayed) : R.delayed[i].cb = h
    BY DEF Complete
  <2>1. h \in DOMAIN S.bufs /\ h \notin last /\ S.bufs[h].opened /\ c[h] - n[h] = 0
    BY <1>2, <1>7
  <2>2. S.bufs[h].refcount = 0 BY <1>2, <1>4, <1>5, <1>6, <2>1
  <2> QED BY <1>1, <1>7, <1>12, <2>1, <2>2 DEF Complete
<1> QED BY <1>9, <1>10, <1>11, <1>12 DEF TableInv, R

(* n references to h only.                                                 *)
Times(h, n) == [g \in Handles |-> IF g = h THEN n ELSE 0]

(* A buffer that is opened leaves the list.                                *)
LEMMA OpenTable ==
  ASSUME NEW S, NEW c \in Counts, NEW t \in Nat, NEW h \in DOMAIN S.bufs, NEW n \in Nat,
         TableInv(S, c, t), c[h] + n < RefMod, n > 0 \/ GuestManaged
  PROVE  TableInv(markOpened(S, h, n), Plus(c, Times(h, n)), t)
<1> DEFINE R == markOpened(S, h, n)
           new == [refcount |-> (S.bufs[h].refcount + n) % RefMod,
                   opened |-> TRUE, closedTs |-> 0]
<1>1. TableTyped(S) /\ Listed(S, t) /\ Counted(S, c) /\ (~GuestManaged => Complete(S))
  BY DEF TableInv
<1>2. DOMAIN S.bufs \subseteq Handles /\ h \in Handles /\ h # 0 BY <1>1, BufferFields DEF TableTyped
<1>3. S.bufs[h].refcount = c[h] /\ c[h] \in Nat BY <1>1, <1>2 DEF Counted, Counts
<1>4. new \in ColorBufferRef /\ new.refcount = c[h] + n
  <2>1. c[h] + n \in 0 .. RefMod - 1 BY <1>3, BoundsAssumption
  <2>2. (c[h] + n) % RefMod = c[h] + n BY <2>1, SmallMod
  <2>3. 0 \in 0 .. MaxTime BY BoundsAssumption
  <2> QED BY <1>3, <2>1, <2>2, <2>3 DEF ColorBufferRef
<1>5. /\ R.bufs = [S.bufs EXCEPT ![h] = new]
      /\ R.delayed = eraseDelayedCloseColorBufferLocked(S.delayed, S.bufs, {h})
      /\ R = [bufs |-> R.bufs, delayed |-> R.delayed]
  BY DEF markOpened
<1>6. R.delayed = Cleared(S.delayed, {h})
  <2>1. {h} \in SUBSET DOMAIN S.bufs OBVIOUS
  <2> HIDE DEF R
  <2> QED BY <1>1, <1>5, <2>1, ErasedEntries DEF Cleared
<1>7. /\ R.delayed \in Seq(CloseInfo) /\ Len(R.delayed) = Len(S.delayed)
      /\ \A i \in 1 .. Len(S.delayed) :
              /\ R.delayed[i].ts = S.delayed[i].ts
              /\ R.delayed[i].cb = IF S.delayed[i].cb = h THEN 0 ELSE S.delayed[i].cb
  <2>1. PICK H : H = {h} OBVIOUS
  <2> HIDE DEF R
  <2>2. /\ Cleared(S.delayed, H) \in Seq(CloseInfo)
        /\ Len(Cleared(S.delayed, H)) = Len(S.delayed)
        /\ \A i \in 1 .. Len(S.delayed) :
              /\ Cleared(S.delayed, H)[i].ts = S.delayed[i].ts
              /\ Cleared(S.delayed, H)[i].cb
                   = IF S.delayed[i].cb \in H THEN 0 ELSE S.delayed[i].cb
    BY <1>1, ClearedEntries
  <2>3. \A x : x \in H <=> x = h BY <2>1
  <2>4. R.delayed = Cleared(S.delayed, H) BY <1>6, <2>1
  <2> QED BY <2>2, <2>3, <2>4
<1> HIDE DEF new, R
<1>8. /\ DOMAIN R.bufs = DOMAIN S.bufs
      /\ R.bufs[h] = new /\ \A g \in DOMAIN S.bufs \ {h} : R.bufs[g] = S.bufs[g]
  BY <1>5
<1>9. TableTyped(R)
  <2>1. \A g \in DOMAIN R.bufs : R.bufs[g] \in ColorBufferRef BY <1>1, <1>4, <1>8, BufferFields
  <2>2. R.bufs = [g \in DOMAIN R.bufs |-> R.bufs[g]] BY <1>1, <1>5 DEF TableTyped
  <2>3. R.bufs \in [DOMAIN R.bufs -> ColorBufferRef] BY <2>1, <2>2
  <2> QED BY <1>2, <1>5, <1>7, <1>8, <2>3 DEF TableTyped
<1>10. Listed(R, t)
  <2>1. Sorted(R.delayed) BY <1>1, <1>7 DEF Listed, Sorted
  <2>2. ASSUME NEW i \in 1 .. Len(R.delayed), R.delayed[i].cb # 0
        PROVE  Unused(R, R.delayed[i])
    <3>1. i \in 1 .. Len(S.delayed) /\ S.delayed[i].cb # h
          /\ R.delayed[i].cb = S.delayed[i].cb /\ R.delayed[i].ts = S.delayed[i].ts
      BY <1>7, <2>2
    <3>2. Unused(S, S.delayed[i]) BY <1>1, <2>2, <3>1 DEF Listed
    <3>3. R.delayed[i].cb \in DOMAIN R.bufs /\ R.bufs[R.delayed[i].cb] = S.bufs[S.delayed[i].cb]
      BY <1>8, <3>1, <3>2 DEF Unused
    <3> QED BY <3>1, <3>2, <3>3 DEF Unused
  <2>3. \A i \in 1 .. Len(R.delayed) : R.delayed[i].ts <= t BY <1>1, <1>7 DEF Listed
  <2>4. \A i, j \in 1 .. Len(R.delayed) :
          R.delayed[i].cb = R.delayed[j].cb /\ R.delayed[i].cb # 0 => i = j
    BY <1>1, <1>7 DEF Listed
  <2> QED BY <2>1, <2>2, <2>3, <2>4 DEF Listed
<1>11. Counted(R, Plus(c, Times(h, n)))
  <2> SUFFICES ASSUME NEW g \in Handles
               PROVE  Plus(c, Times(h, n))[g]
                        = IF g \in DOMAIN R.bufs THEN R.bufs[g].refcount ELSE 0
    BY DEF Counted
  <2>1. Plus(c, Times(h, n))[g] = IF g = h THEN c[h] + n ELSE c[g]
    BY DEF Plus, Times, Counts
  <2> QED BY <1>1, <1>2, <1>4, <1>8, <2>1 DEF Counted
<1>12. ASSUME ~GuestManaged PROVE Complete(R)
  <2> SUFFICES ASSUME NEW g \in DOMAIN R.bufs, R.bufs[g].opened, R.bufs[g].refcount = 0
               PROVE  \E i \in 1 .. Len(R.delayed) : R.delayed[i].cb = g
    BY DEF Complete
  <2>1. g # h BY <1>3, <1>4, <1>8, <1>12
  <2>2. g \in DOMAIN S.bufs /\ S.bufs[g].opened /\ S.bufs[g].refcount = 0 BY <1>8, <2>1
  <2>3. PICK i \in 1 .. Len(S.delayed) : S.delayed[i].cb = g
    BY <1>1, <1>12, <2>2 DEF Complete
  <2> QED BY <1>7, <2>1, <2>3
<1> QED BY <1>9, <1>10, <1>11, <1>12 DEF TableInv, R

(* The first k entries go, with the buffers they name.                     *)
Collected(S, k) ==
  [bufs |-> Without(S.bufs, {S.delayed[i].cb : i \in 1 .. k}),
   delayed |-> SubSeq(S.delayed, k + 1, Len(S.delayed))]

LEMMA CollectTable ==
  ASSUME NEW S, NEW c \in Counts, NEW t \in Nat, TableInv(S, c, t),
         NEW k \in 0 .. Len(S.delayed)
  PROVE  TableInv(Collected(S, k), c, t)
<1> DEFINE R == Collected(S, k)  n == Len(S.delayed)
           gone == {S.delayed[i].cb : i \in 1 .. k}
<1>1. TableTyped(S) /\ Listed(S, t) /\ Counted(S, c) /\ (~GuestManaged => Complete(S))
  BY DEF TableInv
<1>2. n \in Nat /\ k \in Nat /\ k <= n BY <1>1 DEF TableTyped
<1>3. /\ DOMAIN R.bufs = DOMAIN S.bufs \ gone
      /\ \A h \in DOMAIN R.bufs : R.bufs[h] = S.bufs[h]
      /\ R.bufs = [h \in DOMAIN R.bufs |-> S.bufs[h]]
      /\ R.delayed = SubSeq(S.delayed, k + 1, n)
      /\ R = [bufs |-> R.bufs, delayed |-> R.delayed]
  BY DEF Collected, Without, Restrict
<1>4. /\ R.delayed \in Seq(CloseInfo) /\ Len(R.delayed) = n - k
      /\ \A i \in 1 .. n - k : R.delayed[i] = S.delayed[i + k]
  <2> DEFINE d == S.delayed  e == R.delayed
  <2>1. d \in Seq(CloseInfo) BY <1>1 DEF TableTyped
  <2>2. e = SubSeq(d, k + 1, n) /\ n = Len(d) BY <1>3
  <2> HIDE DEF R, d, e, n
  <2>3. /\ e \in Seq(CloseInfo) /\ Len(e) = n - k
        /\ \A i \in 1 .. n - k : e[i] = d[i + k]
    BY <1>2, <2>1, <2>2
  <2> QED BY <2>3 DEF d, e
<1> HIDE DEF R
<1>5. \A h \in gone : h \in DOMAIN S.bufs => S.bufs[h].refcount = 0 /\ h # 0
  BY <1>1, <1>2, BufferFields DEF Listed, Unused
<1> HIDE DEF n, gone
<1>6. TableTyped(R)
  <2>1. R.bufs \in [DOMAIN R.bufs -> ColorBufferRef] BY <1>1, <1>3, BufferFields
  <2> QED BY <1>1, <1>3, <1>4, <2>1 DEF TableTyped
<1>7. Listed(R, t)
  <2>1. \A i \in 1 .. n - k : i + k \in 1 .. n BY <1>2
  <2>2. Sorted(R.delayed)
    <3> SUFFICES ASSUME NEW i \in 1 .. n - k, NEW j \in 1 .. n - k, i <= j
                 PROVE  R.delayed[i].ts <= R.delayed[j].ts
      BY <1>4 DEF Sorted
    <3>1. i + k \in 1 .. n /\ j + k \in 1 .. n /\ i + k <= j + k BY <1>2, <2>1
    <3> QED BY <1>1, <1>4, <3>1 DEF Listed, Sorted, n
  <2>3. ASSUME NEW i \in 1 .. n - k PROVE R.delayed[i].ts <= t
    BY <1>1, <1>4, <2>1 DEF Listed, n
  <2>4. ASSUME NEW i \in 1 .. n - k, R.delayed[i].cb # 0
        PROVE  Unused(R, R.delayed[i])
    <3> DEFINE h == S.delayed[i + k].cb
    <3>1. Unused(S, S.delayed[i + k]) BY <1>1, <1>4, <2>1, <2>4 DEF Listed, n
    <3>2. h \notin gone
      <4> SUFFICES ASSUME NEW j \in 1 .. k, S.delayed[j].cb = h PROVE FALSE BY DEF gone
      <4>1. j \in 1 .. n /\ j # i + k BY <1>2
      <4> QED BY <1>1, <1>4, <2>1, <2>4, <4>1 DEF Listed, n
    <3>3. h \in DOMAIN R.bufs BY <1>3, <3>1, <3>2 DEF Unused
    <3> QED BY <1>3, <1>4, <3>1, <3>3 DEF Unused
  <2>5. ASSUME NEW i \in 1 .. n - k, NEW j \in 1 .. n - k,
               R.delayed[i].cb = R.delayed[j].cb, R.delayed[i].cb # 0
        PROVE  i = j
    <3>0. PICK x \in 1 .. n, y \in 1 .. n : x = i + k /\ y = j + k BY <2>1
    <3>1. i + k = j + k
      <4>1. S.delayed[x].cb = S.delayed[y].cb /\ S.delayed[x].cb # 0 BY <1>4, <2>5, <3>0
      <4>2. x = y BY <1>1, <4>1 DEF Listed, n
      <4> QED BY <3>0, <4>2
    <3> QED BY <1>2, <3>1
  <2> QED BY <1>4, <2>2, <2>3, <2>4, <2>5 DEF Listed
<1>8. Counted(R, c) BY <1>1, <1>3, <1>5 DEF Counted
<1>9. ASSUME ~GuestManaged PROVE Complete(R)
  <2> SUFFICES ASSUME NEW h \in DOMAIN R.bufs, R.bufs[h].opened, R.bufs[h].refcount = 0
               PROVE  \E i \in 1 .. Len(R.delayed) : R.delayed[i].cb = h
    BY DEF Complete
  <2>1. h \in DOMAIN S.bufs /\ h \notin gone /\ R.bufs[h] = S.bufs[h] BY <1>3
  <2>2. PICK j \in 1 .. n : S.delayed[j].cb = h BY <1>1, <1>9, <2>1 DEF Complete, n
  <2>3. ~(j \in 1 .. k) BY <2>1, <2>2 DEF gone
  <2>4. j - k \in 1 .. n - k /\ (j - k) + k = j BY <1>2, <2>3
  <2> QED BY <1>4, <2>2, <2>4
<1> QED BY <1>6, <1>7, <1>8, <1>9 DEF TableInv, R

LEMMA PerformDelayedTable ==
  ASSUME NEW S, NEW c \in Counts, NEW t \in Nat, TableInv(S, c, t), NEW forced \in BOOLEAN
  PROVE  TableInv(performDelayedColorBufferCloseLocked(S, forced), c, t)
<1> DEFINE P(k) == /\ Expired(S, forced, k)
                   /\ k < Len(S.delayed) => ~Expired(S, forced, k + 1)
           T == {k \in 0 .. Len(S.delayed) :
                   k < Len(S.delayed) => ~Expired(S, forced, k + 1)}
<1>1. Len(S.delayed) \in Nat BY DEF TableInv, TableTyped
<1>2. PICK m \in T : \A k \in T : m <= k
  <2>1. T \in SUBSET Nat /\ Len(S.delayed) \in T BY <1>1
  <2> HIDE DEF T
  <2> QED BY <2>1, LeastNumber
<1>3. m \in 0 .. Len(S.delayed) BY <1>1
<1>4. Expired(S, forced, m)
  <2>1. CASE m = 0 BY <2>1 DEF Expired
  <2>2. CASE m > 0
    <3>1. m - 1 \in 0 .. Len(S.delayed) /\ m - 1 < Len(S.delayed) /\ (m - 1) + 1 = m
          /\ ~(m <= m - 1)
      BY <1>1, <1>3, <2>2
    <3>2. m - 1 \notin T BY <1>2, <3>1
    <3> QED BY <3>1, <3>2
  <2> QED BY <1>1, <1>3, <2>1, <2>2
<1>5. P(m) BY <1>4
<1> DEFINE k == CHOOSE k \in 0 .. Len(S.delayed) : P(k)
<1>6. k \in 0 .. Len(S.delayed)
  <2> HIDE DEF P
  <2> QED BY <1>3, <1>5
<1>7. performDelayedColorBufferCloseLocked(S, forced) = Collected(S, k)
  BY DEF performDelayedColorBufferCloseLocked, Collected
<1> HIDE DEF k
<1> QED BY <1>6, <1>7, CollectTable

(* A list that its handles are appended to.                                *)
LEMMA OrderIsOnto ==
  ASSUME NEW H, IsFiniteSet(H), NEW order \in Orders(H)
  PROVE  /\ Len(order) = Cardinality(H) /\ Cardinality(H) \in Nat
         /\ \A i \in 1 .. Len(order) : order[i] \in H
         /\ \A i, j \in 1 .. Len(order) : order[i] = order[j] => i = j
         /\ \A h \in H : \E i \in 1 .. Len(order) : order[i] = h
<1> DEFINE m == Cardinality(H)
<1>1. m \in Nat BY FS_CardinalityType
<1>2. order \in [1 .. m -> H] /\ \A i, j \in 1 .. m : order[i] = order[j] => i = j
  BY DEF Orders
<1> HIDE DEF m
<1>3. Len(order) = m
  <2>1. order \in Seq(H) BY <1>1, <1>2, SeqDef
  <2> QED BY <1>1, <1>2, <2>1
<1>4. order \in Injection(1 .. m, H) BY <1>2 DEF Injection, IsInjective
<1>5. IsFiniteSet(1 .. m) /\ Cardinality(1 .. m) = m BY <1>1, FS_Interval
<1>6. order \in Surjection(1 .. m, H)
  <2>1. Cardinality(1 .. m) = Cardinality(H) <=> order \in Surjection(1 .. m, H)
    BY <1>4, FS_Injection
  <2> QED BY <1>5, <2>1 DEF m
<1>7. \A h \in H : \E i \in 1 .. m : order[i] = h BY <1>6 DEF Surjection
<1> QED BY <1>1, <1>2, <1>3, <1>7 DEF m

LEMMA ScheduledEntries ==
  ASSUME NEW list \in Seq(CloseInfo), NEW order \in Seq(Handles), now \in 0 .. MaxTime
  PROVE  /\ Scheduled(list, order) \in Seq(CloseInfo)
         /\ Len(Scheduled(list, order)) = Len(list) + Len(order)
         /\ \A i \in 1 .. Len(list) : Scheduled(list, order)[i] = list[i]
         /\ \A j \in 1 .. Len(order) :
              Scheduled(list, order)[Len(list) + j] = [ts |-> now, cb |-> order[j]]
<1> DEFINE added == [i \in 1 .. Len(order) |-> [ts |-> now, cb |-> order[i]]]
<1>1. Len(list) \in Nat /\ Len(order) \in Nat OBVIOUS
<1>2. \A i \in 1 .. Len(order) : [ts |-> now, cb |-> order[i]] \in CloseInfo
  <2>1. \A i \in 1 .. Len(order) : order[i] \in Handles OBVIOUS
  <2> QED BY <2>1 DEF CloseInfo
<1>3. added \in Seq(CloseInfo) /\ Len(added) = Len(order)
  <2>1. added \in [1 .. Len(order) -> CloseInfo] BY <1>2
  <2> HIDE DEF added
  <2> QED BY <1>1, <2>1, SeqDef
<1>4. \A i \in 1 .. Len(order) : added[i] = [ts |-> now, cb |-> order[i]] OBVIOUS
<1>5. Scheduled(list, order) = list \o added BY DEF Scheduled
<1> HIDE DEF added
<1>6. ASSUME NEW i \in 1 .. Len(list) PROVE (list \o added)[i] = list[i]
  BY <1>1, <1>3
<1>7. ASSUME NEW j \in 1 .. Len(order)
      PROVE  (list \o added)[Len(list) + j] = [ts |-> now, cb |-> order[j]]
  <2>1. Len(list) + j \in 1 .. Len(list) + Len(order) /\ Len(list) + j > Len(list)
        /\ (Len(list) + j) - Len(list) = j
    BY <1>1
  <2>2. (list \o added)[Len(list) + j] = added[j] BY <1>1, <1>3, <2>1
  <2> QED BY <1>4, <2>2
<1>8. Len(list \o added) = Len(list) + Len(order) /\ list \o added \in Seq(CloseInfo)
  BY <1>3
<1> QED BY <1>5, <1>6, <1>7, <1>8

(* The buffers of last come down to 0 and are put on the list.             *)
LEMMA ScheduleTable ==
  ASSUME NEW S, TableTyped(S), Listed(S, now), ~GuestManaged => Complete(S),
         now \in 0 .. MaxTime,
         NEW bufs \in [DOMAIN S.bufs -> ColorBufferRef],
         NEW last \in SUBSET DOMAIN S.bufs, NEW order \in Orders(last),
         \A h \in last : /\ S.bufs[h].refcount > 0
                         /\ bufs[h].refcount = 0 /\ bufs[h].closedTs = now,
         \A h \in DOMAIN S.bufs \ last :
           /\ bufs[h].refcount = 0 <=> S.bufs[h].refcount = 0
           /\ bufs[h].opened = S.bufs[h].opened
           /\ bufs[h].closedTs = S.bufs[h].closedTs,
         NEW R, R = [bufs |-> bufs, delayed |-> Scheduled(S.delayed, order)]
  PROVE  TableTyped(R) /\ Listed(R, now) /\ (~GuestManaged => Complete(R))
<1> DEFINE n == Len(S.delayed)  m == Len(order)
<1>1. IsFiniteSet(last)
  <2>1. IsFiniteSet(1 .. MaxHandles) BY BoundsAssumption, FS_Interval
  <2>2. last \in SUBSET (1 .. MaxHandles) BY DEF TableTyped, Handles
  <2> QED BY <2>1, <2>2, FS_Subset
<1>2. /\ m = Cardinality(last) /\ m \in Nat
      /\ \A i \in 1 .. m : order[i] \in last
      /\ \A i, j \in 1 .. m : order[i] = order[j] => i = j
      /\ \A h \in last : \E i \in 1 .. m : order[i] = h
  BY <1>1, OrderIsOnto
<1>3. order \in Seq(Handles)
  <2>1. order \in [1 .. m -> last] BY <1>2 DEF Orders
  <2>2. last \subseteq Handles BY DEF TableTyped
  <2> HIDE DEF m
  <2>3. order \in [1 .. m -> Handles] BY <2>1, <2>2
  <2> QED BY <1>2, <2>3, SeqDef
<1>4. S.delayed \in Seq(CloseInfo) /\ n \in Nat BY DEF TableTyped
<1>5. /\ R.delayed \in Seq(CloseInfo) /\ Len(R.delayed) = n + m
      /\ \A i \in 1 .. n : R.delayed[i] = S.delayed[i]
      /\ \A j \in 1 .. m : R.delayed[n + j] = [ts |-> now, cb |-> order[j]]
  BY <1>3, <1>4, ScheduledEntries
<1>6. R.bufs = bufs /\ DOMAIN R.bufs = DOMAIN S.bufs OBVIOUS
<1>7. \A i \in 1 .. n : /\ S.delayed[i].ts \in Nat /\ S.delayed[i].ts <= now
                        /\ S.delayed[i].cb # 0 => Unused(S, S.delayed[i])
  BY EntryFields DEF Listed
<1>8. \A h \in DOMAIN S.bufs : h \in Handles /\ h # 0 /\ S.bufs[h].refcount \in Nat
  BY BufferFields
<1>9. now \in Nat BY BoundsAssumption
<1> HIDE DEF n, m
<1>10. \A i \in 1 .. n : S.delayed[i].cb \notin last
  BY <1>7, <1>8 DEF Unused
<1>11. ASSUME NEW i \in 1 .. n + m
       PROVE  \/ i \in 1 .. n /\ R.delayed[i] = S.delayed[i]
              \/ /\ i > n /\ i - n \in 1 .. m
                 /\ R.delayed[i].ts = now /\ R.delayed[i].cb = order[i - n]
  <2>1. CASE i <= n BY <1>4, <1>5, <2>1
  <2>2. CASE i > n
    <3>1. i - n \in 1 .. m /\ n + (i - n) = i BY <1>2, <1>4, <2>2
    <3>2. R.delayed[n + (i - n)] = [ts |-> now, cb |-> order[i - n]] BY <1>5, <3>1
    <3> QED BY <2>2, <3>1, <3>2
  <2> QED BY <1>2, <1>4, <2>1, <2>2
<1>12. TableTyped(R)
  <2>1. R = [bufs |-> R.bufs, delayed |-> R.delayed] OBVIOUS
  <2> QED BY <1>5, <1>6, <2>1 DEF TableTyped
<1>13. Listed(R, now)
  <2>1. Sorted(R.delayed)
    <3> SUFFICES ASSUME NEW i \in 1 .. n + m, NEW j \in 1 .. n + m, i <= j
                 PROVE  R.delayed[i].ts <= R.delayed[j].ts
      BY <1>5 DEF Sorted
    <3>1. CASE j \in 1 .. n
      <4>1. i \in 1 .. n BY <1>2, <1>4, <3>1
      <4>2. R.delayed[i] = S.delayed[i] /\ R.delayed[j] = S.delayed[j]
        BY <1>5, <3>1, <4>1
      <4> QED BY <3>1, <4>1, <4>2 DEF Listed, Sorted, n
    <3>2. CASE j > n
      <4>1. R.delayed[j].ts = now BY <1>4, <1>11, <3>2
      <4>2. R.delayed[i].ts <= now BY <1>7, <1>9, <1>11
      <4> QED BY <4>1, <4>2
    <3> QED BY <1>11, <3>1, <3>2
  <2>2. ASSUME NEW i \in 1 .. n + m
        PROVE  R.delayed[i].ts <= now /\ (R.delayed[i].cb # 0 => Unused(R, R.delayed[i]))
    <3>1. CASE i \in 1 .. n /\ R.delayed[i] = S.delayed[i]
      <4>1. ASSUME S.delayed[i].cb # 0 PROVE Unused(R, S.delayed[i])
        <5>1. Unused(S, S.delayed[i]) BY <1>7, <3>1, <4>1
        <5>2. S.delayed[i].cb \in DOMAIN S.bufs \ last BY <1>10, <3>1, <5>1 DEF Unused
        <5> QED BY <1>6, <5>1, <5>2 DEF Unused
      <4> QED BY <1>7, <3>1, <4>1
    <3>2. CASE i > n /\ i - n \in 1 .. m /\ R.delayed[i].ts = now
               /\ R.delayed[i].cb = order[i - n]
      <4>1. order[i - n] \in last BY <1>2, <3>2
      <4> QED BY <1>6, <1>9, <3>2, <4>1 DEF Unused
    <3> QED BY <1>11, <3>1, <3>2
  <2>3. ASSUME NEW i \in 1 .. n + m, NEW j \in 1 .. n + m,
               R.delayed[i].cb = R.delayed[j].cb, R.delayed[i].cb # 0
        PROVE  i = j
    <3>1. CASE i \in 1 .. n /\ j \in 1 .. n
      <4>1. R.delayed[i] = S.delayed[i] /\ R.delayed[j] = S.delayed[j]
        BY <1>5, <3>1
      <4> QED BY <2>3, <3>1, <4>1 DEF Listed, n
    <3>2. CASE i > n /\ j > n
      <4>1. i - n \in 1 .. m /\ j - n \in 1 .. m /\ order[i - n] = order[j - n]
        BY <1>4, <1>11, <2>3, <3>2
      <4>2. i - n = j - n BY <1>2, <4>1
      <4> QED BY <1>4, <4>2
    <3>3. CASE i \in 1 .. n /\ j > n
      <4>1. R.delayed[j].cb \in last
        <5>1. j - n \in 1 .. m /\ R.delayed[j].cb = order[j - n] BY <1>4, <1>11, <3>3
        <5> QED BY <1>2, <5>1
      <4>2. R.delayed[i] = S.delayed[i] BY <1>5, <3>3
      <4> QED BY <1>10, <2>3, <3>3, <4>1, <4>2
    <3>4. CASE i > n /\ j \in 1 .. n
      <4>1. R.delayed[i].cb \in last
        <5>1. i - n \in 1 .. m /\ R.delayed[i].cb = order[i - n] BY <1>4, <1>11, <3>4
        <5> QED BY <1>2, <5>1
      <4>2. R.delayed[j] = S.delayed[j] BY <1>5, <3>4
      <4> QED BY <1>10, <2>3, <3>4, <4>1, <4>2
    <3> QED BY <1>11, <3>1, <3>2, <3>3, <3>4
  <2> QED BY <1>5, <2>1, <2>2, <2>3 DEF Listed
<1>14. ASSUME ~GuestManaged PROVE Complete(R)
  <2> SUFFICES ASSUME NEW h \in DOMAIN R.bufs, R.bufs[h].opened, R.bufs[h].refcount = 0
               PROVE  \E i \in 1 .. n + m : R.delayed[i].cb = h
    BY <1>5 DEF Complete
  <2>1. CASE h \in last
    <3>1. PICK i \in 1 .. m : order[i] = h BY <1>2, <2>1
    <3>2. n + i \in 1 .. n + m BY <1>2, <1>4
    <3>3. R.delayed[n + i] = [ts |-> now, cb |-> order[i]] BY <1>5
    <3>4. R.delayed[n + i].cb = h BY <3>1, <3>3
    <3> QED BY <3>2, <3>4
  <2>2. CASE h \notin last
    <3>1. PICK i \in 1 .. n : S.delayed[i].cb = h BY <1>6, <1>14, <2>2 DEF Complete, n
    <3>2. i \in 1 .. n + m /\ R.delayed[i] = S.delayed[i] BY <1>2, <1>4, <1>5
    <3> QED BY <3>1, <3>2
  <2> QED BY <2>1, <2>2
<1> QED BY <1>12, <1>13, <1>14

LEMMA CountsMinus ==
  ASSUME NEW c \in Counts, NEW n \in Counts, \A h \in Handles : n[h] <= c[h]
  PROVE  Minus(c, n) \in Counts /\ \A h \in Handles : Minus(c, n)[h] = c[h] - n[h]
BY DEF Counts, Minus

LEMMA CountsPlus ==
  ASSUME NEW c \in Counts, NEW n \in Counts
  PROVE  Plus(c, n) \in Counts /\ \A h \in Handles : Plus(c, n)[h] = c[h] + n[h]
BY DEF Counts, Plus

LEMMA TimesCounts ==
  ASSUME NEW h \in Handles, NEW n \in Nat
  PROVE  Times(h, n) \in Counts /\ Once(h) = Times(h, 1)
BY DEF Counts, Times, Once

(* Closing references that are there.                                      *)
LEMMA CloseTable ==
  ASSUME NEW S, NEW c \in Counts, NEW n \in Counts, now \in 0 .. MaxTime,
         TableInv(S, c, now), \A h \in Handles : n[h] <= c[h], ~RefCountPipe,
         NEW order \in Orders(LastClosed(S, n))
  PROVE  TableInv(closeColorBufferLocked(S, n, FALSE, order), Minus(c, n), now)
<1> DEFINE dec == Decremented(S.bufs, n)
           last == LastClosed(S, n)
           bufs == [h \in DOMAIN dec |-> IF h \in last THEN [dec[h] EXCEPT !.closedTs = now]
                                                       ELSE dec[h]]
           closed ==
             IF NoDelayClose
             THEN [bufs |-> Without(dec, last),
                   delayed |-> eraseDelayedCloseColorBufferLocked(S.delayed, S.bufs, last)]
             ELSE [bufs |-> bufs, delayed |-> Scheduled(S.delayed, order)]
<1>1. TableTyped(S) /\ Listed(S, now) /\ Counted(S, c) /\ (~GuestManaged => Complete(S))
  BY DEF TableInv
<1>2. now \in Nat BY BoundsAssumption
<1>3. /\ DOMAIN dec = DOMAIN S.bufs
      /\ \A h \in DOMAIN S.bufs :
              /\ dec[h] \in ColorBufferRef
              /\ dec[h].refcount = c[h] - n[h]
              /\ dec[h].opened = S.bufs[h].opened
              /\ dec[h].closedTs = S.bufs[h].closedTs
      /\ last = {h \in DOMAIN S.bufs : n[h] > 0 /\ c[h] = n[h]}
  BY <1>1, DecrementedBufs
<1>4. \A h \in Handles : c[h] \in Nat /\ n[h] \in Nat /\ n[h] <= c[h] BY DEF Counts
<1>5. \A h \in DOMAIN S.bufs : h \in Handles /\ S.bufs[h].refcount = c[h]
  BY <1>1 DEF TableTyped, Counted
<1>6. closeColorBufferLocked(S, n, FALSE, order)
        = IF \A h \in DOMAIN S.bufs : n[h] = 0 THEN S
          ELSE performDelayedColorBufferCloseLocked(closed, FALSE)
  BY DEF closeColorBufferLocked, Forced
<1> HIDE DEF dec, last
<1>7. ASSUME \A h \in DOMAIN S.bufs : n[h] = 0 PROVE TableInv(S, Minus(c, n), now)
  <2>1. \A h \in Handles : n[h] = 0
    <3> SUFFICES ASSUME NEW h \in Handles, h \notin DOMAIN S.bufs PROVE n[h] = 0 BY <1>7
    <3>1. c[h] = 0 BY <1>1 DEF Counted
    <3> QED BY <1>4, <3>1
  <2>2. Minus(c, n) = c
    <3>1. \A h \in Handles : c[h] - n[h] = c[h] BY <1>4, <2>1
    <3>2. c = [h \in Handles |-> c[h]] BY DEF Counts
    <3> QED BY <3>1, <3>2 DEF Minus
  <2> QED BY <2>2
<1>8. ASSUME NoDelayClose PROVE TableInv(closed, Minus(c, n), now)
  <2>1. \A i \in 1 .. Len(S.delayed) : S.delayed[i].cb \notin last
    <3> SUFFICES ASSUME NEW i \in 1 .. Len(S.delayed), S.delayed[i].cb \in last PROVE FALSE
      OBVIOUS
    <3> DEFINE h == S.delayed[i].cb
    <3>1. h \in DOMAIN S.bufs /\ n[h] > 0 /\ c[h] = n[h] /\ h # 0 BY <1>1, <1>3, BufferFields
    <3>2. S.bufs[h].refcount = 0 BY <1>1, <3>1 DEF Listed, Unused
    <3> QED BY <1>4, <1>5, <3>1, <3>2
  <2>2. last \in SUBSET DOMAIN S.bufs BY <1>3
  <2>3. eraseDelayedCloseColorBufferLocked(S.delayed, S.bufs, last)
          = [i \in 1 .. Len(S.delayed) |-> S.delayed[i]]
    <3>1. eraseDelayedCloseColorBufferLocked(S.delayed, S.bufs, last)
            = [i \in 1 .. Len(S.delayed) |->
                 IF S.delayed[i].cb \in last THEN [S.delayed[i] EXCEPT !.cb = 0]
                                             ELSE S.delayed[i]]
      BY <1>1, <2>2, ErasedEntries
    <3> QED BY <2>1, <3>1
  <2>4. S.delayed = [i \in 1 .. Len(S.delayed) |-> S.delayed[i]]
    <3>1. S.delayed \in [1 .. Len(S.delayed) -> CloseInfo] BY <1>1 DEF TableTyped
    <3> QED BY <3>1
  <2>5. closed = [bufs |-> Without(dec, last), delayed |-> S.delayed]
    BY <1>8, <2>3, <2>4
  <2>6. decColorBufferRefCountLocked(S, n) = [bufs |-> Without(dec, last), delayed |-> S.delayed]
    BY <1>1 DEF decColorBufferRefCountLocked, TableTyped, dec, last
  <2> QED BY <1>2, <2>5, <2>6, DecTable
<1>9. ASSUME ~NoDelayClose PROVE TableInv(closed, Minus(c, n), now)
  <2> DEFINE R == [bufs |-> bufs, delayed |-> Scheduled(S.delayed, order)]
  <2>1. DOMAIN bufs = DOMAIN S.bufs BY <1>3
  <2>2. ASSUME NEW h \in DOMAIN S.bufs
        PROVE  /\ bufs[h] \in ColorBufferRef /\ bufs[h].refcount = c[h] - n[h]
               /\ bufs[h].opened = S.bufs[h].opened
               /\ bufs[h].closedTs = IF h \in last THEN now ELSE S.bufs[h].closedTs
    <3>1. bufs[h] = IF h \in last THEN [dec[h] EXCEPT !.closedTs = now] ELSE dec[h]
      BY <1>3
    <3>2. \A r \in ColorBufferRef : /\ [r EXCEPT !.closedTs = now] \in ColorBufferRef
                                    /\ [r EXCEPT !.closedTs = now].refcount = r.refcount
                                    /\ [r EXCEPT !.closedTs = now].opened = r.opened
                                    /\ [r EXCEPT !.closedTs = now].closedTs = now
      BY DEF ColorBufferRef
    <3> HIDE DEF bufs
    <3> QED BY <1>3, <3>1, <3>2
  <2>3. bufs = [h \in DOMAIN S.bufs |-> bufs[h]] BY <1>3
  <2> HIDE DEF bufs
  <2>4. bufs \in [DOMAIN S.bufs -> ColorBufferRef] BY <2>2, <2>3
  <2>5. last \in SUBSET DOMAIN S.bufs BY <1>3
  <2>6. \A h \in last : /\ S.bufs[h].refcount > 0
                        /\ bufs[h].refcount = 0 /\ bufs[h].closedTs = now
    BY <1>3, <1>4, <1>5, <2>2
  <2>7. ASSUME NEW h \in DOMAIN S.bufs \ last
        PROVE  /\ bufs[h].refcount = 0 <=> S.bufs[h].refcount = 0
               /\ bufs[h].opened = S.bufs[h].opened
               /\ bufs[h].closedTs = S.bufs[h].closedTs
    BY <1>3, <1>4, <1>5, <2>2
  <2>8. PICK Q : Q = R OBVIOUS
  <2>9. TableTyped(Q) /\ Listed(Q, now) /\ (~GuestManaged => Complete(Q))
    BY <1>1, <2>4, <2>5, <2>6, <2>7, <2>8, ScheduleTable DEF last
  <2>10. Counted(R, Minus(c, n))
    <3> SUFFICES ASSUME NEW h \in Handles
                 PROVE  c[h] - n[h] = IF h \in DOMAIN bufs THEN bufs[h].refcount ELSE 0
      BY DEF Counted, Minus
    <3>1. CASE h \in DOMAIN bufs BY <2>1, <2>2, <3>1
    <3>2. CASE h \notin DOMAIN bufs
      <4>1. c[h] = 0 BY <1>1, <2>1, <3>2 DEF Counted
      <4> QED BY <1>4, <3>2, <4>1
    <3> QED BY <3>1, <3>2
  <2> QED BY <1>9, <2>8, <2>9, <2>10 DEF TableInv
<1> HIDE DEF closed
<1>10. TableInv(performDelayedColorBufferCloseLocked(closed, FALSE), Minus(c, n), now)
  <2>1. TableInv(closed, Minus(c, n), now) BY <1>8, <1>9
  <2>2. Minus(c, n) \in Counts BY CountsMinus
  <2> QED BY <1>2, <2>1, <2>2, PerformDelayedTable
<1> QED BY <1>6, <1>7, <1>10

(* The post worker drops a reference that is there.                        *)
LEMMA NoDestroyTable ==
  ASSUME NEW S, NEW c \in Counts, now \in 0 .. MaxTime, TableInv(S, c, now),
         NEW h \in Handles, c[h] > 0
  PROVE  TableInv(decColorBufferRefCountNoDestroy(S, h), Minus(c, Once(h)), now)
<1> DEFINE n == Once(h)
           dec == Decremented(S.bufs, Once(h))
<1>1. TableTyped(S) /\ Listed(S, now) /\ Counted(S, c) /\ (~GuestManaged => Complete(S))
  BY DEF TableInv
<1>2. now \in Nat BY BoundsAssumption
<1>3. n \in Counts /\ \A g \in Handles : n[g] = IF g = h THEN 1 ELSE 0 BY DEF Once, Counts
<1>4. \A g \in Handles : c[g] \in Nat /\ n[g] \in Nat /\ n[g] <= c[g] BY <1>3 DEF Counts
<1>5. h \in DOMAIN S.bufs BY <1>1 DEF Counted
<1>6. \A g \in DOMAIN S.bufs : g \in Handles /\ S.bufs[g].refcount = c[g]
  BY <1>1 DEF TableTyped, Counted
<1>7. /\ DOMAIN dec = DOMAIN S.bufs
      /\ \A g \in DOMAIN S.bufs :
              /\ dec[g] \in ColorBufferRef
              /\ dec[g].refcount = c[g] - n[g]
              /\ dec[g].opened = S.bufs[g].opened
              /\ dec[g].closedTs = S.bufs[g].closedTs
      /\ LastClosed(S, n) = {g \in DOMAIN S.bufs : n[g] > 0 /\ c[g] = n[g]}
  BY <1>1, <1>3, <1>4, DecrementedBufs
<1>8. decColorBufferRefCountNoDestroy(S, h)
        = IF dec[h].refcount = 0
          THEN [bufs |-> [dec EXCEPT ![h].closedTs = now], delayed |-> Scheduled(S.delayed, <<h>>)]
          ELSE [S EXCEPT !.bufs = dec]
  BY <1>5 DEF decColorBufferRefCountNoDestroy
<1>9. dec = [g \in DOMAIN S.bufs |-> dec[g]] BY DEF Decremented
<1> HIDE DEF dec, n
<1>10. CASE dec[h].refcount = 0
  <2> DEFINE bufs == [dec EXCEPT ![h].closedTs = now]
             R == [bufs |-> bufs, delayed |-> Scheduled(S.delayed, <<h>>)]
  <2>1. c[h] = 1 /\ dec[h] \in ColorBufferRef BY <1>3, <1>4, <1>5, <1>7, <1>10
  <2>2. DOMAIN bufs = DOMAIN S.bufs BY <1>7
  <2>3. ASSUME NEW g \in DOMAIN S.bufs
        PROVE  /\ bufs[g] \in ColorBufferRef /\ bufs[g].refcount = c[g] - n[g]
               /\ bufs[g].opened = S.bufs[g].opened
               /\ bufs[g].closedTs = IF g = h THEN now ELSE S.bufs[g].closedTs
    <3>1. bufs[g] = IF g = h THEN [dec[g] EXCEPT !.closedTs = now] ELSE dec[g]
      BY <1>7
    <3>2. \A r \in ColorBufferRef : /\ [r EXCEPT !.closedTs = now] \in ColorBufferRef
                                    /\ [r EXCEPT !.closedTs = now].refcount = r.refcount
                                    /\ [r EXCEPT !.closedTs = now].opened = r.opened
                                    /\ [r EXCEPT !.closedTs = now].closedTs = now
      BY DEF ColorBufferRef
    <3> HIDE DEF bufs
    <3> QED BY <1>7, <3>1, <3>2
  <2>4. bufs = [g \in DOMAIN S.bufs |-> bufs[g]] BY <1>7, <1>9
  <2> HIDE DEF bufs
  <2>5. bufs \in [DOMAIN S.bufs -> ColorBufferRef] BY <2>3, <2>4
  <2>6. PICK last : last = {h} OBVIOUS
  <2>7. <<h>> \in Orders(last)
    <3>1. Cardinality(last) = 1 BY <2>6, FS_Singleton
    <3>2. <<h>> \in [1 .. 1 -> last] BY <2>6
    <3>3. \A i, j \in 1 .. 1 : i = j OBVIOUS
    <3> QED BY <3>1, <3>2, <3>3 DEF Orders
  <2>8. last \in SUBSET DOMAIN S.bufs BY <1>5, <2>6
  <2>9. \A g \in last : /\ S.bufs[g].refcount > 0
                        /\ bufs[g].refcount = 0 /\ bufs[g].closedTs = now
    BY <1>3, <1>4, <1>5, <1>6, <2>1, <2>3, <2>6
  <2>10. ASSUME NEW g \in DOMAIN S.bufs \ last
        PROVE  /\ bufs[g].refcount = 0 <=> S.bufs[g].refcount = 0
               /\ bufs[g].opened = S.bufs[g].opened
               /\ bufs[g].closedTs = S.bufs[g].closedTs
    BY <1>3, <1>4, <1>6, <2>3, <2>6
  <2>11. PICK Q : Q = R OBVIOUS
  <2>12. TableTyped(Q) /\ Listed(Q, now) /\ (~GuestManaged => Complete(Q))
    BY <1>1, <2>5, <2>7, <2>8, <2>9, <2>10, <2>11, ScheduleTable
  <2>13. Counted(R, Minus(c, n))
    <3> SUFFICES ASSUME NEW g \in Handles
                 PROVE  c[g] - n[g] = IF g \in DOMAIN bufs THEN bufs[g].refcount ELSE 0
      BY DEF Counted, Minus
    <3>1. CASE g \in DOMAIN bufs BY <2>2, <2>3, <3>1
    <3>2. CASE g \notin DOMAIN bufs
      <4>1. c[g] = 0 BY <1>1, <2>2, <3>2 DEF Counted
      <4> QED BY <1>4, <3>2, <4>1
    <3> QED BY <3>1, <3>2
  <2> QED BY <1>8, <1>10, <2>11, <2>12, <2>13 DEF TableInv, bufs, n
<1>11. CASE dec[h].refcount # 0
  <2>1. LastClosed(S, n) = {}
    <3> SUFFICES ASSUME NEW g \in DOMAIN S.bufs, n[g] > 0, c[g] = n[g] PROVE FALSE
      BY <1>7
    <3>1. g = h BY <1>3, <1>6
    <3> QED BY <1>4, <1>7, <1>11, <3>1
  <2>2. Without(dec, {}) = dec BY <1>7, <1>9 DEF Without, Restrict
  <2>3. decColorBufferRefCountLocked(S, n) = [S EXCEPT !.bufs = dec]
    BY <2>1, <2>2 DEF decColorBufferRefCountLocked, dec, n
  <2>4. TableInv(decColorBufferRefCountLocked(S, n), Minus(c, n), now)
    BY <1>2, <1>3, <1>4, DecTable
  <2> QED BY <1>8, <1>11, <2>3, <2>4 DEF n
<1> QED BY <1>10, <1>11

(* A new buffer has no references, or the one of its creation.             *)
Creation == IF RefCountPipe \/ PreO THEN 1 ELSE 0

LEMMA WithBufferTable ==
  ASSUME NEW S, NEW c \in Counts, NEW t \in Nat, TableInv(S, c, t),
         NEW h \in Handles, h \notin DOMAIN S.bufs
  PROVE  /\ TableInv(WithBuffer(S, h), Plus(c, Times(h, Creation)), t)
         /\ h \in DOMAIN WithBuffer(S, h).bufs
         /\ DOMAIN WithBuffer(S, h).bufs = DOMAIN S.bufs \cup {h}
<1> DEFINE R == WithBuffer(S, h)
           new == [refcount |-> Creation, opened |-> FALSE, closedTs |-> 0]
<1>1. TableTyped(S) /\ Listed(S, t) /\ Counted(S, c) /\ (~GuestManaged => Complete(S))
  BY DEF TableInv
<1>2. /\ R.bufs = [g \in DOMAIN S.bufs \cup {h} |-> IF g = h THEN new ELSE S.bufs[g]]
      /\ R.delayed = S.delayed /\ R = [bufs |-> R.bufs, delayed |-> R.delayed]
  <2> DEFINE B == [g \in DOMAIN S.bufs \cup {h} |-> IF g = h THEN new ELSE S.bufs[g]]
  <2>1. R = [S EXCEPT !.bufs = B] BY DEF WithBuffer, Creation
  <2>2. S = [bufs |-> S.bufs, delayed |-> S.delayed] BY <1>1 DEF TableTyped
  <2> HIDE DEF B, R
  <2>3. R = [bufs |-> B, delayed |-> S.delayed] BY <2>1, <2>2
  <2> QED BY <2>3 DEF B
<1>3. new \in ColorBufferRef /\ new.refcount = Creation /\ ~new.opened /\ Creation \in Nat
  <2>1. Creation \in 0 .. RefMod - 1 /\ 0 \in 0 .. MaxTime BY BoundsAssumption DEF Creation
  <2> QED BY <2>1, BoundsAssumption DEF ColorBufferRef
<1> HIDE DEF new, R
<1>4. /\ DOMAIN R.bufs = DOMAIN S.bufs \cup {h} /\ R.bufs[h] = new
      /\ \A g \in DOMAIN S.bufs : g # h /\ R.bufs[g] = S.bufs[g]
  BY <1>2
<1>5. TableTyped(R)
  <2>1. R.bufs \in [DOMAIN R.bufs -> ColorBufferRef]
    <3>1. \A g \in DOMAIN R.bufs : R.bufs[g] \in ColorBufferRef BY <1>1, <1>3, <1>4, BufferFields
    <3> QED BY <1>2, <3>1
  <2> QED BY <1>1, <1>2, <1>4, <2>1 DEF TableTyped
<1>6. Listed(R, t)
  <2>1. ASSUME NEW i \in 1 .. Len(R.delayed), R.delayed[i].cb # 0
        PROVE  Unused(R, R.delayed[i])
    <3> DEFINE x == S.delayed[i]
    <3>1. Unused(S, x) /\ R.delayed[i] = x BY <1>1, <1>2, <2>1 DEF Listed
    <3> HIDE DEF x
    <3>2. x.cb \in DOMAIN S.bufs BY <3>1 DEF Unused
    <3> QED BY <1>4, <3>1, <3>2 DEF Unused
  <2> QED BY <1>1, <1>2, <2>1 DEF Listed
<1>7. Counted(R, Plus(c, Times(h, Creation)))
  <2> SUFFICES ASSUME NEW g \in Handles
               PROVE  c[g] + (IF g = h THEN Creation ELSE 0)
                        = IF g \in DOMAIN R.bufs THEN R.bufs[g].refcount ELSE 0
    BY DEF Counted, Plus, Times
  <2>1. c[g] \in Nat /\ c[h] = 0 BY <1>1 DEF Counted, Counts
  <2>2. CASE g = h BY <1>3, <1>4, <2>1, <2>2
  <2>3. CASE g # h BY <1>1, <1>4, <2>1, <2>3 DEF Counted
  <2> QED BY <2>2, <2>3
<1>8. ASSUME ~GuestManaged PROVE Complete(R)
  BY <1>1, <1>2, <1>3, <1>4, <1>8 DEF Complete
<1> QED BY <1>4, <1>5, <1>6, <1>7, <1>8 DEF TableInv, R

LEMMA ReleaseTable ==
  ASSUME NEW S, NEW c \in Counts, NEW n \in Counts, now \in 0 .. MaxTime,
         TableInv(S, c, now), \A h \in Handles : n[h] <= c[h], ~GuestManaged,
         NEW order \in Orders(LastClosed(S, n))
  PROVE  TableInv(Release(S, n, order), Minus(c, n), now)
<1>1. now \in Nat BY BoundsAssumption
<1>2. CASE RefCountPipe BY <1>1, <1>2, DecTable DEF Release
<1>3. CASE ~RefCountPipe BY <1>3, CloseTable DEF Release
<1> QED BY <1>2, <1>3

(* The operators add no handle to the table.                               *)
LEMMA NothingAdded ==
  ASSUME NEW S, S = [bufs |-> S.bufs, delayed |-> S.delayed], NEW n, NEW order,
         NEW h
  PROVE  /\ DOMAIN decColorBufferRefCountLocked(S, n).bufs \subseteq DOMAIN S.bufs
         /\ DOMAIN closeColorBufferLocked(S, n, FALSE, order).bufs \subseteq DOMAIN S.bufs
         /\ DOMAIN Release(S, n, order).bufs \subseteq DOMAIN S.bufs
         /\ DOMAIN decColorBufferRefCountNoDestroy(S, h).bufs \subseteq DOMAIN S.bufs
         /\ DOMAIN markOpened(S, h, n).bufs = DOMAIN S.bufs
<1>1. \A bufs, H : DOMAIN Without(bufs, H) \subseteq DOMAIN bufs BY DEF Without, Restrict
<1>2. \A m : DOMAIN Decremented(S.bufs, m) = DOMAIN S.bufs BY DEF Decremented
<1>3. DOMAIN decColorBufferRefCountLocked(S, n).bufs \subseteq DOMAIN S.bufs
  <2>1. decColorBufferRefCountLocked(S, n).bufs
          = Without(Decremented(S.bufs, n), LastClosed(S, n))
    BY DEF decColorBufferRefCountLocked
  <2> QED BY <1>1, <1>2, <2>1
<1>4. \A T : DOMAIN performDelayedColorBufferCloseLocked(T, FALSE).bufs \subseteq DOMAIN T.bufs
  BY <1>1 DEF performDelayedColorBufferCloseLocked
<1>5. DOMAIN closeColorBufferLocked(S, n, FALSE, order).bufs \subseteq DOMAIN S.bufs
  <2> DEFINE bufs == Decremented(S.bufs, n)
             last == LastClosed(S, n)
             T == IF Forced(FALSE)
                  THEN [bufs |-> Without(bufs, last),
                        delayed |-> eraseDelayedCloseColorBufferLocked(S.delayed, S.bufs, last)]
                  ELSE [bufs |-> [g \in DOMAIN bufs |->
                                    IF g \in last THEN [bufs[g] EXCEPT !.closedTs = now]
                                                  ELSE bufs[g]],
                        delayed |-> Scheduled(S.delayed, order)]
  <2>1. DOMAIN T.bufs \subseteq DOMAIN S.bufs
    <3>1. CASE Forced(FALSE)
      <4>1. T.bufs = Without(bufs, last) BY <3>1
      <4> QED BY <1>1, <1>2, <4>1
    <3>2. CASE ~Forced(FALSE)
      <4>1. DOMAIN T.bufs = DOMAIN bufs BY <3>2
      <4> QED BY <1>2, <4>1
    <3> QED BY <3>1, <3>2
  <2>2. closeColorBufferLocked(S, n, FALSE, order)
          = IF RefCountPipe \/ \A g \in DOMAIN S.bufs : n[g] = 0 THEN S
            ELSE performDelayedColorBufferCloseLocked(T, FALSE)
    BY DEF closeColorBufferLocked
  <2> HIDE DEF T
  <2> QED BY <1>4, <2>1, <2>2
<1>6. DOMAIN Release(S, n, order).bufs \subseteq DOMAIN S.bufs BY <1>3, <1>5 DEF Release
<1>7. DOMAIN decColorBufferRefCountNoDestroy(S, h).bufs \subseteq DOMAIN S.bufs
  <2> DEFINE bufs == Decremented(S.bufs, Once(h))
  <2>1. DOMAIN bufs = DOMAIN S.bufs BY <1>2
  <2>2. decColorBufferRefCountNoDestroy(S, h)
          = IF h \notin DOMAIN S.bufs THEN S
            ELSE IF bufs[h].refcount = 0
            THEN [bufs |-> [bufs EXCEPT ![h].closedTs = now],
                  delayed |-> Scheduled(S.delayed, <<h>>)]
            ELSE [S EXCEPT !.bufs = bufs]
    BY DEF decColorBufferRefCountNoDestroy
  <2> HIDE DEF bufs
  <2>3. [S EXCEPT !.bufs = bufs].bufs = bufs OBVIOUS
  <2> QED BY <2>1, <2>2, <2>3
<1>8. DOMAIN markOpened(S, h, n).bufs = DOMAIN S.bufs BY DEF markOpened
<1> QED BY <1>3, <1>5, <1>6, <1>7, <1>8

-----------------------------------------------------------------------------
(***************************************************************************)
(* The references to a handle, counted by where they are.                  *)
(***************************************************************************)
OwnerSet(H, h) == UNION {{<<"owner", p, k>> : k \in 1 .. H[p][h]} : p \in Owners}
Showing(W, h)  == {w \in DOMAIN W : W[w] = h}
WindowSet(W, h) == {<<"window", w>> : w \in Showing(W, h)}
PostSet(P, h)  == {<<"post", i>> : i \in {i \in 1 .. Len(P) : P[i] = h}}

OwnerCount(H, h)  == Cardinality(OwnerSet(H, h))
WindowCount(W, g, h) == IF g THEN 0 ELSE Cardinality(Showing(W, h))
PostCount(P, h)   == Cardinality(PostSet(P, h))
PipeCount(U, h)   == IF h \in U THEN 1 ELSE 0

AllRefs(H, W, P, U, g, h) ==
  OwnerSet(H, h) \cup (IF g THEN {} ELSE WindowSet(W, h)) \cup PostSet(P, h)
                 \cup (IF h \in U THEN {<<"pipe">>} ELSE {})
Total(H, W, P, U, g) ==
  [h \in Handles |-> OwnerCount(H, h) + WindowCount(W, g, h) + PostCount(P, h)
                                      + PipeCount(U, h)]

(* How many references each handle has in this state.                      *)
Referenced == Total(held, windows, posts, piped \cup destroys \cup leaked, GuestManaged)

LEMMA SegmentCount ==
  ASSUME NEW p, NEW n \in Nat
  PROVE  /\ IsFiniteSet({<<"owner", p, k>> : k \in 1 .. n})
         /\ Cardinality({<<"owner", p, k>> : k \in 1 .. n}) = n
<1> DEFINE T == {<<"owner", p, k>> : k \in 1 .. n}
           f == [k \in 1 .. n |-> <<"owner", p, k>>]
<1>1. IsFiniteSet(1 .. n) /\ Cardinality(1 .. n) = n BY FS_Interval
<1>2. f \in [1 .. n -> T] OBVIOUS
<1>3. \A j, k \in 1 .. n : f[j] = f[k] => j = k OBVIOUS
<1>4. \A x \in T : \E k \in 1 .. n : f[k] = x OBVIOUS
<1> HIDE DEF f, T
<1>5. f \in Injection(1 .. n, T) BY <1>2, <1>3 DEF Injection, IsInjective
<1>6. f \in Surjection(1 .. n, T) BY <1>2, <1>4 DEF Surjection
<1>7. ExistsBijection(1 .. n, T) BY <1>5, <1>6 DEF ExistsBijection, Bijection
<1>8. IsFiniteSet(T) /\ Cardinality(T) = Cardinality(1 .. n) BY <1>1, <1>7, FS_Bijection
<1> QED BY <1>1, <1>8 DEF T

LEMMA OwnersFinite ==
  ASSUME NEW H \in [Owners -> Counts], NEW h \in Handles
  PROVE  IsFiniteSet(OwnerSet(H, h)) /\ OwnerCount(H, h) \in Nat
<1> DEFINE seg == [p \in Owners |-> {<<"owner", p, k>> : k \in 1 .. H[p][h]}]
           T == {{<<"owner", p, k>> : k \in 1 .. H[p][h]} : p \in Owners}
<1>1. \A p \in Owners : H[p][h] \in Nat BY DEF Counts
<1>2. \A x \in T : IsFiniteSet(x)
  <2> SUFFICES ASSUME NEW p \in Owners
               PROVE  IsFiniteSet({<<"owner", p, k>> : k \in 1 .. H[p][h]})
    OBVIOUS
  <2>1. H[p][h] \in Nat BY <1>1
  <2> QED BY <2>1, SegmentCount
<1>3. seg \in [Owners -> T] /\ \A x \in T : \E p \in Owners : seg[p] = x OBVIOUS
<1>4. OwnerSet(H, h) = UNION T BY DEF OwnerSet
<1> HIDE DEF seg, T
<1>5. seg \in Surjection(Owners, T) BY <1>3 DEF Surjection
<1>6. IsFiniteSet(T) BY <1>5, OwnersAssumption, FS_Surjection
<1>7. IsFiniteSet(UNION T) BY <1>2, <1>6, FS_UNION
<1> QED BY <1>4, <1>7, FS_CardinalityType DEF OwnerCount

(* A function with another value at one place.                             *)
Changed(G, H, p, f) == G = [H EXCEPT ![p] = f]
ChangedEntry(G, H, p, h, x) == G = [H EXCEPT ![p][h] = x]

(* One process holds f[h] references instead of H[p][h].                   *)
LEMMA OwnerReplaced ==
  ASSUME NEW H \in [Owners -> Counts], NEW p \in Owners, NEW f \in Counts, NEW h \in Handles,
         NEW G, Changed(G, H, p, f)
  PROVE  /\ OwnerCount(G, h) = OwnerCount(H, h) - H[p][h] + f[h]
         /\ H[p][h] <= OwnerCount(H, h)
<1> DEFINE old == {<<"owner", p, k>> : k \in 1 .. H[p][h]}
           new == {<<"owner", p, k>> : k \in 1 .. f[h]}
           others == OwnerSet(H, h) \ old
<1>0. G = [H EXCEPT ![p] = f] BY DEF Changed
<1>1. H[p][h] \in Nat /\ f[h] \in Nat BY DEF Counts
<1>2. /\ IsFiniteSet(old) /\ Cardinality(old) = H[p][h]
      /\ IsFiniteSet(new) /\ Cardinality(new) = f[h]
  BY <1>1, SegmentCount
<1>3. IsFiniteSet(OwnerSet(H, h)) /\ OwnerCount(H, h) \in Nat BY OwnersFinite
<1>4. old \subseteq OwnerSet(H, h) BY DEF OwnerSet
<1>5. ASSUME NEW x PROVE x \in others <=> \E q \in Owners \ {p} : \E k \in 1 .. H[q][h] : x = <<"owner", q, k>>
  <2>1. x \in OwnerSet(H, h) <=> \E q \in Owners : \E k \in 1 .. H[q][h] : x = <<"owner", q, k>>
    BY DEF OwnerSet
  <2>2. x \in old <=> \E k \in 1 .. H[p][h] : x = <<"owner", p, k>> OBVIOUS
  <2> HIDE DEF old
  <2>3. ASSUME NEW q \in Owners \ {p}, NEW k \in 1 .. H[q][h], x = <<"owner", q, k>>
        PROVE  x \notin old
    BY <2>2, <2>3
  <2> QED BY <2>1, <2>2, <2>3
<1>6. OwnerSet(G, h) = others \cup new
  <2>1. \A q \in Owners \ {p} : G[q][h] = H[q][h] BY <1>0
  <2>2. G[p][h] = f[h] BY <1>0
  <2>3. ASSUME NEW x PROVE x \in OwnerSet(G, h) <=> x \in others \/ x \in new
    <3>1. x \in OwnerSet(G, h) <=> \E q \in Owners : \E k \in 1 .. G[q][h] : x = <<"owner", q, k>>
      BY DEF OwnerSet
    <3>2. x \in new <=> \E k \in 1 .. f[h] : x = <<"owner", p, k>> OBVIOUS
    <3> HIDE DEF others, new
    <3> QED BY <1>5, <2>1, <2>2, <3>1, <3>2
  <2> HIDE DEF others, new
  <2> QED BY <2>3
<1>7. others \cap new = {}
  <2> SUFFICES ASSUME NEW x \in new, x \in others PROVE FALSE OBVIOUS
  <2>1. PICK q \in Owners \ {p} : \E k \in 1 .. H[q][h] : x = <<"owner", q, k>> BY <1>5
  <2>2. \E k \in 1 .. f[h] : x = <<"owner", p, k>> OBVIOUS
  <2> HIDE DEF others, new
  <2> QED BY <2>1, <2>2
<1>8. IsFiniteSet(others) /\ Cardinality(others) = OwnerCount(H, h) - H[p][h]
      /\ Cardinality(others) \in Nat
  <2>1. OwnerSet(H, h) \cap old = old BY <1>4
  <2>2. /\ IsFiniteSet(others)
        /\ Cardinality(others) = Cardinality(OwnerSet(H, h)) - Cardinality(OwnerSet(H, h) \cap old)
    BY <1>3, FS_Difference
  <2>3. Cardinality(OwnerSet(H, h) \cap old) = H[p][h] BY <1>2, <2>1
  <2>4. Cardinality(others) \in Nat BY <2>2, FS_CardinalityType
  <2> HIDE DEF old, others
  <2> QED BY <2>2, <2>3, <2>4 DEF OwnerCount
<1> HIDE DEF others, new, old
<1>9. Cardinality(others \cup new) = OwnerCount(H, h) - H[p][h] + f[h]
  <2>1. Cardinality({}) = 0 BY FS_EmptySet
  <2>2. Cardinality(others \cup new)
          = Cardinality(others) + Cardinality(new) - Cardinality(others \cap new)
    BY <1>2, <1>8, FS_Union
  <2>3. Cardinality(others \cap new) = 0 BY <1>7, <2>1
  <2> QED BY <1>1, <1>2, <1>3, <1>8, <2>2, <2>3
<1>10. H[p][h] <= OwnerCount(H, h) BY <1>1, <1>3, <1>8
<1> QED BY <1>6, <1>9, <1>10 DEF OwnerCount

(* Surfaces.                                                               *)
Shows(W, V, h) == {w \in V \cap DOMAIN W : W[w] = h}

LEMMA ShowingFinite ==
  ASSUME NEW W, DOMAIN W \subseteq Windows, NEW h, NEW V
  PROVE  /\ IsFiniteSet(Showing(W, h)) /\ Cardinality(Showing(W, h)) \in Nat
         /\ IsFiniteSet(Shows(W, V, h)) /\ Cardinality(Shows(W, V, h)) \in Nat
<1>1. Showing(W, h) \in SUBSET Windows /\ Shows(W, V, h) \in SUBSET Windows
  BY DEF Showing, Shows
<1>2. IsFiniteSet(Windows) BY WindowsAssumption
<1>3. IsFiniteSet(Showing(W, h)) BY <1>1, <1>2, FS_Subset
<1>4. IsFiniteSet(Shows(W, V, h)) BY <1>1, <1>2, FS_Subset
<1> QED BY <1>3, <1>4, FS_CardinalityType

LEMMA WindowSetCount ==
  ASSUME NEW W, DOMAIN W \subseteq Windows, NEW h
  PROVE  /\ IsFiniteSet(WindowSet(W, h))
         /\ Cardinality(WindowSet(W, h)) = Cardinality(Showing(W, h))
<1> DEFINE f == [w \in Showing(W, h) |-> <<"window", w>>]
<1>1. f \in [Showing(W, h) -> WindowSet(W, h)] BY DEF WindowSet
<1>2. \A v, w \in Showing(W, h) : f[v] = f[w] => v = w OBVIOUS
<1>3. \A x \in WindowSet(W, h) : \E w \in Showing(W, h) : f[w] = x BY DEF WindowSet
<1> HIDE DEF f
<1>4. f \in Injection(Showing(W, h), WindowSet(W, h)) BY <1>1, <1>2 DEF Injection, IsInjective
<1>5. f \in Surjection(Showing(W, h), WindowSet(W, h)) BY <1>1, <1>3 DEF Surjection
<1>6. ExistsBijection(Showing(W, h), WindowSet(W, h))
  BY <1>4, <1>5 DEF ExistsBijection, Bijection
<1> QED BY <1>6, ShowingFinite, FS_Bijection

LEMMA WindowsRemoved ==
  ASSUME NEW W, DOMAIN W \subseteq Windows, NEW V, NEW h
  PROVE  /\ Cardinality(Showing(Without(W, V), h))
              = Cardinality(Showing(W, h)) - Cardinality(Shows(W, V, h))
         /\ Cardinality(Shows(W, V, h)) <= Cardinality(Showing(W, h))
<1>1. Showing(Without(W, V), h) = Showing(W, h) \ Shows(W, V, h)
  BY DEF Showing, Shows, Without, Restrict
<1>2. Showing(W, h) \cap Shows(W, V, h) = Shows(W, V, h) BY DEF Showing, Shows
<1>3. IsFiniteSet(Showing(W, h)) /\ Cardinality(Showing(W, h)) \in Nat
      /\ Cardinality(Shows(W, V, h)) \in Nat
  BY ShowingFinite
<1>4. /\ IsFiniteSet(Showing(W, h) \ Shows(W, V, h))
      /\ Cardinality(Showing(W, h) \ Shows(W, V, h))
           = Cardinality(Showing(W, h)) - Cardinality(Showing(W, h) \cap Shows(W, V, h))
  BY <1>3, FS_Difference
<1>5. Cardinality(Showing(W, h) \ Shows(W, V, h)) \in Nat BY <1>4, FS_CardinalityType
<1>6. Cardinality(Showing(W, h) \ Shows(W, V, h))
        = Cardinality(Showing(W, h)) - Cardinality(Shows(W, V, h))
  BY <1>2, <1>4
<1>7. Cardinality(Shows(W, V, h)) <= Cardinality(Showing(W, h)) BY <1>3, <1>5, <1>6
<1> QED BY <1>1, <1>6, <1>7

LEMMA WindowSwitched ==
  ASSUME NEW W, DOMAIN W \subseteq Windows, NEW w \in DOMAIN W, NEW g, NEW h,
         NEW G, Changed(G, W, w, g)
  PROVE  /\ Cardinality(Showing(G, h))
              = Cardinality(Showing(W, h)) - Cardinality(Shows(W, {w}, h))
                + (IF h = g THEN 1 ELSE 0)
         /\ Cardinality(Shows(W, {w}, h)) <= Cardinality(Showing(W, h))
<1> DEFINE rest == Showing(W, h) \ Shows(W, {w}, h)
<1>0. G = [W EXCEPT ![w] = g] BY DEF Changed
<1>1. Showing(Without(W, {w}), h) = rest
  BY DEF Showing, Shows, Without, Restrict
<1>2. /\ Cardinality(rest) = Cardinality(Showing(W, h)) - Cardinality(Shows(W, {w}, h))
      /\ Cardinality(Shows(W, {w}, h)) <= Cardinality(Showing(W, h))
  BY <1>1, WindowsRemoved
<1>3. IsFiniteSet(rest) BY ShowingFinite, FS_Difference
<1>4. w \notin rest BY DEF Showing, Shows
<1>5. \A v : v \in rest <=> v \in DOMAIN W /\ W[v] = h /\ v # w BY DEF Showing, Shows
<1>6. CASE h = g
  <2>1. Showing(G, h) = rest \cup {w} BY <1>0, <1>5, <1>6 DEF Showing
  <2>2. Cardinality(rest \cup {w}) = Cardinality(rest) + 1 BY <1>3, <1>4, FS_AddElement
  <2>3. Cardinality(Showing(G, h)) = Cardinality(rest) + 1 BY <2>1, <2>2
  <2> HIDE DEF rest
  <2> QED BY <1>2, <1>6, <2>3
<1>7. CASE h # g
  <2>1. Showing(G, h) = rest BY <1>0, <1>5, <1>7 DEF Showing
  <2>2. Cardinality(Showing(W, h)) \in Nat /\ Cardinality(Shows(W, {w}, h)) \in Nat
    BY ShowingFinite
  <2>3. Cardinality(Showing(G, h)) = Cardinality(rest) BY <2>1
  <2> HIDE DEF rest
  <2> QED BY <1>2, <1>7, <2>2, <2>3
<1> QED BY <1>6, <1>7

AddedUnbound(G, W, w) ==
  G = [v \in DOMAIN W \cup {w} |-> IF v = w THEN 0 ELSE W[v]]

LEMMA WindowAdded ==
  ASSUME NEW W, NEW w, w \notin DOMAIN W, NEW h \in Handles,
         NEW G, AddedUnbound(G, W, w)
  PROVE  Showing(G, h) = Showing(W, h)
<1>1. h # 0 BY DEF Handles
<1> QED BY <1>1 DEF Showing, AddedUnbound

(* Queued frames.                                                          *)
LEMMA PostsFinite ==
  ASSUME NEW P \in Seq(Handles), NEW h
  PROVE  IsFiniteSet(PostSet(P, h)) /\ PostCount(P, h) \in Nat
<1> DEFINE T == {i \in 1 .. Len(P) : P[i] = h}
           f == [i \in T |-> <<"post", i>>]
<1>1. IsFiniteSet(1 .. Len(P)) BY FS_Interval
<1>2. T \in SUBSET (1 .. Len(P)) OBVIOUS
<1>3. IsFiniteSet(T) BY <1>1, <1>2, FS_Subset
<1>4. f \in [T -> PostSet(P, h)] /\ \A x \in PostSet(P, h) : \E i \in T : f[i] = x
  BY DEF PostSet
<1> HIDE DEF f, T
<1>5. f \in Surjection(T, PostSet(P, h)) BY <1>4 DEF Surjection
<1>6. IsFiniteSet(PostSet(P, h)) BY <1>3, <1>5, FS_Surjection
<1> QED BY <1>6, FS_CardinalityType DEF PostCount

LEMMA PostAppended ==
  ASSUME NEW P \in Seq(Handles), NEW g \in Handles, NEW h
  PROVE  PostCount(Append(P, g), h) = PostCount(P, h) + (IF h = g THEN 1 ELSE 0)
<1> DEFINE n == Len(P) + 1
<1>1. Len(Append(P, g)) = n /\ Append(P, g)[n] = g
      /\ \A i \in 1 .. Len(P) : Append(P, g)[i] = P[i]
  OBVIOUS
<1>2. Len(P) \in Nat OBVIOUS
<1>3. IsFiniteSet(PostSet(P, h)) /\ PostCount(P, h) \in Nat BY PostsFinite
<1>4. <<"post", n>> \notin PostSet(P, h)
  <2>1. \A i \in 1 .. Len(P) : <<"post", n>> # <<"post", i>> BY <1>2
  <2> QED BY <2>1 DEF PostSet
<1>5. \A i : i \in 1 .. n <=> i \in 1 .. Len(P) \/ i = n BY <1>2
<1>6. n \notin 1 .. Len(P) BY <1>2
<1> HIDE DEF n
<1>7. CASE h = g
  <2>1. {i \in 1 .. n : Append(P, g)[i] = h} = {i \in 1 .. Len(P) : P[i] = h} \cup {n}
    BY <1>1, <1>5, <1>7
  <2>2. PostSet(Append(P, g), h) = PostSet(P, h) \cup {<<"post", n>>}
    BY <1>1, <2>1 DEF PostSet
  <2>3. Cardinality(PostSet(P, h) \cup {<<"post", n>>}) = Cardinality(PostSet(P, h)) + 1
    BY <1>3, <1>4, FS_AddElement
  <2> QED BY <1>7, <2>2, <2>3 DEF PostCount
<1>8. CASE h # g
  <2>1. {i \in 1 .. n : Append(P, g)[i] = h} = {i \in 1 .. Len(P) : P[i] = h}
    BY <1>1, <1>5, <1>8
  <2>2. PostSet(Append(P, g), h) = PostSet(P, h) BY <1>1, <2>1 DEF PostSet
  <2> QED BY <1>3, <1>8, <2>2 DEF PostCount
<1> QED BY <1>7, <1>8

LEMMA PostTaken ==
  ASSUME NEW P \in Seq(Handles), P # <<>>, NEW h
  PROVE  /\ PostCount(Tail(P), h) = PostCount(P, h) - (IF h = Head(P) THEN 1 ELSE 0)
         /\ h = Head(P) => PostCount(P, h) > 0
         /\ Tail(P) \in Seq(Handles) /\ Head(P) \in Handles
<1> DEFINE rest == PostSet(P, h) \ {<<"post", 1>>}
           f == [x \in PostSet(Tail(P), h) |-> <<"post", x[2] + 1>>]
<1>1. /\ Len(P) \in Nat /\ Len(P) > 0 /\ Len(Tail(P)) = Len(P) - 1
      /\ \A i \in 1 .. Len(P) - 1 : Tail(P)[i] = P[i + 1]
      /\ Head(P) = P[1] /\ Tail(P) \in Seq(Handles) /\ Head(P) \in Handles
  OBVIOUS
<1>2. /\ IsFiniteSet(PostSet(P, h)) /\ PostCount(P, h) \in Nat
      /\ IsFiniteSet(PostSet(Tail(P), h))
  BY <1>1, PostsFinite
<1>3. \A x : x \in PostSet(P, h) <=> \E i \in 1 .. Len(P) : P[i] = h /\ x = <<"post", i>>
  BY DEF PostSet
<1>4. \A x : x \in PostSet(Tail(P), h)
               <=> \E i \in 1 .. Len(P) - 1 : P[i + 1] = h /\ x = <<"post", i>>
  BY <1>1 DEF PostSet
<1>5. \A x : x \in rest <=> \E i \in 2 .. Len(P) : P[i] = h /\ x = <<"post", i>>
  <2> SUFFICES ASSUME NEW x
               PROVE  x \in rest <=> \E i \in 2 .. Len(P) : P[i] = h /\ x = <<"post", i>>
    OBVIOUS
  <2>1. ASSUME x \in rest PROVE \E i \in 2 .. Len(P) : P[i] = h /\ x = <<"post", i>>
    <3>1. PICK i \in 1 .. Len(P) : P[i] = h /\ x = <<"post", i>> BY <1>3, <2>1
    <3>2. i # 1 BY <2>1, <3>1
    <3>3. i \in 2 .. Len(P) BY <1>1, <3>2
    <3> QED BY <3>1, <3>3
  <2>2. ASSUME NEW i \in 2 .. Len(P), P[i] = h, x = <<"post", i>> PROVE x \in rest
    <3>1. i \in 1 .. Len(P) /\ i # 1 BY <1>1
    <3> QED BY <1>3, <2>2, <3>1
  <2> QED BY <2>1, <2>2
<1>6. f \in [PostSet(Tail(P), h) -> rest]
  <2> SUFFICES ASSUME NEW x \in PostSet(Tail(P), h) PROVE <<"post", x[2] + 1>> \in rest
    OBVIOUS
  <2>1. PICK i \in 1 .. Len(P) - 1 : P[i + 1] = h /\ x = <<"post", i>> BY <1>4
  <2>2. x[2] + 1 = i + 1 /\ i + 1 \in 2 .. Len(P) BY <1>1, <2>1
  <2> HIDE DEF rest
  <2> QED BY <1>5, <2>1, <2>2
<1>7. \A x, y \in PostSet(Tail(P), h) : f[x] = f[y] => x = y
  <2> SUFFICES ASSUME NEW x \in PostSet(Tail(P), h), NEW y \in PostSet(Tail(P), h),
                      <<"post", x[2] + 1>> = <<"post", y[2] + 1>>
               PROVE  x = y
    OBVIOUS
  <2>1. PICK i \in 1 .. Len(P) - 1 : x = <<"post", i>> BY <1>4
  <2>2. PICK j \in 1 .. Len(P) - 1 : y = <<"post", j>> BY <1>4
  <2>3. i + 1 = j + 1 BY <2>1, <2>2
  <2>4. i = j BY <1>1, <2>3
  <2> QED BY <2>1, <2>2, <2>4
<1>8. \A z \in rest : \E x \in PostSet(Tail(P), h) : f[x] = z
  <2> SUFFICES ASSUME NEW z \in rest
               PROVE  \E x \in PostSet(Tail(P), h) : <<"post", x[2] + 1>> = z
    OBVIOUS
  <2>1. PICK i \in 2 .. Len(P) : P[i] = h /\ z = <<"post", i>> BY <1>5
  <2>2. i - 1 \in 1 .. Len(P) - 1 /\ (i - 1) + 1 = i BY <1>1
  <2>3. <<"post", i - 1>> \in PostSet(Tail(P), h) BY <1>4, <2>1, <2>2
  <2>4. <<"post", <<"post", i - 1>>[2] + 1>> = z BY <2>1, <2>2
  <2> QED BY <2>3, <2>4
<1> HIDE DEF f
<1>9. f \in Injection(PostSet(Tail(P), h), rest) BY <1>6, <1>7 DEF Injection, IsInjective
<1>10. f \in Surjection(PostSet(Tail(P), h), rest) BY <1>6, <1>8 DEF Surjection
<1>11. ExistsBijection(PostSet(Tail(P), h), rest)
  BY <1>9, <1>10 DEF ExistsBijection, Bijection
<1>12. Cardinality(PostSet(Tail(P), h)) = Cardinality(rest)
  BY <1>2, <1>11, FS_Bijection
<1>13. /\ Cardinality(rest) = IF <<"post", 1>> \in PostSet(P, h)
                              THEN Cardinality(PostSet(P, h)) - 1
                              ELSE Cardinality(PostSet(P, h))
       /\ IsFiniteSet(rest)
  BY <1>2, FS_RemoveElement
<1>14. <<"post", 1>> \in PostSet(P, h) <=> h = Head(P)
  <2>1. \A i \in 1 .. Len(P) : <<"post", 1>> = <<"post", i>> => i = 1 OBVIOUS
  <2> QED BY <1>1, <1>3, <2>1
<1>15. Cardinality(rest) \in Nat BY <1>13, FS_CardinalityType
<1> QED BY <1>1, <1>2, <1>12, <1>13, <1>14, <1>15 DEF PostCount

(* The parts have nothing in common, so the counts add up.                 *)
LEMMA DisjointSum ==
  ASSUME NEW A, NEW B, IsFiniteSet(A), IsFiniteSet(B), A \cap B = {}
  PROVE  /\ IsFiniteSet(A \cup B)
         /\ Cardinality(A \cup B) = Cardinality(A) + Cardinality(B)
<1>1. Cardinality(A) \in Nat /\ Cardinality(B) \in Nat BY FS_CardinalityType
<1>2. /\ IsFiniteSet(A \cup B)
      /\ Cardinality(A \cup B) = Cardinality(A) + Cardinality(B) - Cardinality(A \cap B)
  BY FS_Union
<1>3. Cardinality(A \cap B) = 0 BY FS_EmptySet
<1> QED BY <1>1, <1>2, <1>3

LEMMA TotalCounts ==
  ASSUME NEW H \in [Owners -> Counts], NEW W, DOMAIN W \subseteq Windows,
         NEW P \in Seq(Handles), NEW U, NEW g \in BOOLEAN, NEW h \in Handles
  PROVE  /\ IsFiniteSet(AllRefs(H, W, P, U, g, h))
         /\ Cardinality(AllRefs(H, W, P, U, g, h)) = Total(H, W, P, U, g)[h]
         /\ OwnerCount(H, h) \in Nat /\ WindowCount(W, g, h) \in Nat
         /\ PostCount(P, h) \in Nat /\ PipeCount(U, h) \in Nat
<1> DEFINE A == OwnerSet(H, h)  B == IF g THEN {} ELSE WindowSet(W, h)
           C == PostSet(P, h)   D == IF h \in U THEN {<<"pipe">>} ELSE {}
<1>1. IsFiniteSet(A) /\ OwnerCount(H, h) \in Nat BY OwnersFinite
<1>2. IsFiniteSet(B) /\ Cardinality(B) = WindowCount(W, g, h) /\ WindowCount(W, g, h) \in Nat
  <2>1. CASE g BY <2>1, FS_EmptySet DEF WindowCount
  <2>2. CASE ~g BY <2>2, WindowSetCount, ShowingFinite DEF WindowCount
  <2> QED BY <2>1, <2>2
<1>3. IsFiniteSet(C) /\ PostCount(P, h) \in Nat BY PostsFinite
<1>4. IsFiniteSet(D) /\ Cardinality(D) = PipeCount(U, h) /\ PipeCount(U, h) \in Nat
  BY FS_EmptySet, FS_Singleton DEF PipeCount
<1>5. /\ \A x \in A : x[1] = "owner"
      /\ \A x \in B : x[1] = "window"
      /\ \A x \in C : x[1] = "post"
      /\ \A x \in D : x[1] = "pipe"
  <2>1. \A x \in A : x[1] = "owner" BY DEF OwnerSet
  <2>2. \A x \in B : x[1] = "window" BY DEF WindowSet
  <2>3. \A x \in C : x[1] = "post" BY DEF PostSet
  <2>4. \A x \in D : x[1] = "pipe" OBVIOUS
  <2> QED BY <2>1, <2>2, <2>3, <2>4
<1>6. AllRefs(H, W, P, U, g, h) = A \cup B \cup C \cup D BY DEF AllRefs
<1>7. Total(H, W, P, U, g)[h]
        = OwnerCount(H, h) + WindowCount(W, g, h) + PostCount(P, h) + PipeCount(U, h)
  BY DEF Total
<1>8. Cardinality(A) = OwnerCount(H, h) /\ Cardinality(C) = PostCount(P, h)
  BY DEF OwnerCount, PostCount
<1> HIDE DEF A, B, C, D
<1>9. A \cap B = {} /\ (A \cup B) \cap C = {} /\ (A \cup B \cup C) \cap D = {}
  <2>1. \A x \in A : x \notin B /\ x \notin C /\ x \notin D BY <1>5
  <2>2. \A x \in B : x \notin C /\ x \notin D BY <1>5
  <2>3. \A x \in C : x \notin D BY <1>5
  <2> QED BY <2>1, <2>2, <2>3
<1>10. IsFiniteSet(A \cup B) /\ Cardinality(A \cup B) = Cardinality(A) + Cardinality(B)
  BY <1>1, <1>2, <1>9, DisjointSum
<1>11. /\ IsFiniteSet(A \cup B \cup C)
       /\ Cardinality(A \cup B \cup C) = Cardinality(A \cup B) + Cardinality(C)
  BY <1>3, <1>9, <1>10, DisjointSum
<1>12. /\ IsFiniteSet(A \cup B \cup C \cup D)
       /\ Cardinality(A \cup B \cup C \cup D) = Cardinality(A \cup B \cup C) + Cardinality(D)
  BY <1>4, <1>9, <1>11, DisjointSum
<1> QED BY <1>1, <1>2, <1>3, <1>4, <1>6, <1>7, <1>8, <1>10, <1>11, <1>12

-----------------------------------------------------------------------------
(***************************************************************************)
(* The inductive invariant.  A handle is in one of the pipe's sets at a    *)
(* time, the next handle is fresh, and a host whose guest manages the      *)
(* buffers keeps no references for a process.                              *)
(***************************************************************************)
StateTyped ==
  /\ mode \in Modes
  /\ DOMAIN windows \subseteq Windows
  /\ windows \in [DOMAIN windows -> Handles \cup {0}]
  /\ windowsOf \in [Owners -> SUBSET Windows]
  /\ held \in [Owners -> Counts]
  /\ piped \subseteq Handles /\ destroys \subseteq Handles /\ leaked \subseteq Handles
  /\ posts \in Seq(Handles)
  /\ subWin \in BOOLEAN
  /\ lastHandle \in 0 .. MaxHandles
  /\ now \in 0 .. MaxTime
  /\ aborted \in BOOLEAN

PipeInv ==
  /\ piped \cap destroys = {} /\ piped \cap leaked = {} /\ destroys \cap leaked = {}
  /\ ~RefCountPipe => piped = {} /\ destroys = {} /\ leaked = {}

HandlesInv == ~GuestManaged => Live \subseteq 1 .. lastHandle

GuestInv == GuestManaged => \A p \in Owners \ {0} : held[p] = Zeros

IInv == StateTyped /\ TableInv(fb, Referenced, now) /\ PipeInv /\ HandlesInv /\ GuestInv

(* What the features are.                                                  *)
LEMMA ModeFacts ==
  ASSUME mode \in Modes
  PROVE  /\ RefCountPipe \in BOOLEAN /\ NoDelayClose \in BOOLEAN /\ PreO \in BOOLEAN
         /\ UseSubWindow \in BOOLEAN /\ GuestManaged \in BOOLEAN
         /\ GuestManaged => 0 \in Owners /\ NoDelayClose /\ ~RefCountPipe /\ ~PreO
<1>1. mode \in Mode BY ModesAssumption
<1>2. mode.guestManaged => /\ 0 \in Owners /\ mode.noDelayClose
                           /\ ~mode.refCountPipe /\ ~mode.preO
  BY ModesAssumption
<1> QED BY <1>1, <1>2 DEF Mode, RefCountPipe, NoDelayClose, PreO, UseSubWindow, GuestManaged

LEMMA ReferencedCounts ==
  ASSUME StateTyped
  PROVE  /\ Referenced \in Counts
         /\ \A h \in Handles :
              /\ OwnerCount(held, h) \in Nat /\ WindowCount(windows, GuestManaged, h) \in Nat
              /\ PostCount(posts, h) \in Nat
              /\ PipeCount(piped \cup destroys \cup leaked, h) \in Nat
              /\ Referenced[h] = OwnerCount(held, h) + WindowCount(windows, GuestManaged, h)
                                 + PostCount(posts, h)
                                 + PipeCount(piped \cup destroys \cup leaked, h)
<1>1. GuestManaged \in BOOLEAN BY ModeFacts DEF StateTyped
<1>2. \A h \in Handles :
              /\ OwnerCount(held, h) \in Nat /\ WindowCount(windows, GuestManaged, h) \in Nat
              /\ PostCount(posts, h) \in Nat
              /\ PipeCount(piped \cup destroys \cup leaked, h) \in Nat
  <2> SUFFICES ASSUME NEW h \in Handles
               PROVE  /\ OwnerCount(held, h) \in Nat /\ WindowCount(windows, GuestManaged, h) \in Nat
                      /\ PostCount(posts, h) \in Nat
                      /\ PipeCount(piped \cup destroys \cup leaked, h) \in Nat
    OBVIOUS
  <2>1. /\ held \in [Owners -> Counts] /\ DOMAIN windows \subseteq Windows
        /\ posts \in Seq(Handles)
    BY DEF StateTyped
  <2>2. PipeCount(piped \cup destroys \cup leaked, h) \in Nat BY DEF PipeCount
  <2>3. OwnerCount(held, h) \in Nat BY <2>1, OwnersFinite
  <2>4. PostCount(posts, h) \in Nat BY <2>1, PostsFinite
  <2>5. Cardinality(Showing(windows, h)) \in Nat BY <2>1, ShowingFinite
  <2> QED BY <2>2, <2>3, <2>4, <2>5 DEF WindowCount
<1>3. Referenced = [h \in Handles |->
                      OwnerCount(held, h) + WindowCount(windows, GuestManaged, h)
                      + PostCount(posts, h) + PipeCount(piped \cup destroys \cup leaked, h)]
  BY DEF Referenced, Total
<1>4. ASSUME NEW h \in Handles
      PROVE  /\ Referenced[h] = OwnerCount(held, h) + WindowCount(windows, GuestManaged, h)
                                + PostCount(posts, h)
                                + PipeCount(piped \cup destroys \cup leaked, h)
             /\ Referenced[h] \in Nat
  <2>1. Referenced[h] = OwnerCount(held, h) + WindowCount(windows, GuestManaged, h)
                          + PostCount(posts, h) + PipeCount(piped \cup destroys \cup leaked, h)
    BY <1>3
  <2>2. /\ OwnerCount(held, h) \in Nat /\ WindowCount(windows, GuestManaged, h) \in Nat
        /\ PostCount(posts, h) \in Nat
        /\ PipeCount(piped \cup destroys \cup leaked, h) \in Nat
    BY <1>2
  <2>3. \A i, j, k, l \in Nat : i + j + k + l \in Nat OBVIOUS
  <2>4. Referenced[h] \in Nat BY <2>1, <2>2, <2>3
  <2> QED BY <2>1, <2>4
<1>5. Referenced \in Counts
  <2>1. Referenced = [h \in Handles |-> Referenced[h]] BY <1>3
  <2> QED BY <1>4, <2>1 DEF Counts
<1> QED BY <1>2, <1>4, <1>5

LEMMA InitInv == Init => IInv
<1> SUFFICES ASSUME Init PROVE IInv OBVIOUS
<1>1. StateTyped
  <2>1. windows = <<>> /\ DOMAIN windows = {} BY DEF Init
  <2>2. held \in [Owners -> Counts] BY DEF Init, Counts
  <2>3. windows \in [DOMAIN windows -> Handles \cup {0}] BY <2>1
  <2>4. windowsOf \in [Owners -> SUBSET Windows] BY DEF Init
  <2>5. posts \in Seq(Handles) BY DEF Init
  <2>6. lastHandle \in 0 .. MaxHandles /\ now \in 0 .. MaxTime BY BoundsAssumption DEF Init
  <2>7. mode \in Modes /\ subWin \in BOOLEAN /\ aborted \in BOOLEAN
        /\ piped = {} /\ destroys = {} /\ leaked = {}
    BY DEF Init
  <2> QED BY <2>1, <2>2, <2>3, <2>4, <2>5, <2>6, <2>7 DEF StateTyped
<1>2. \A h \in Handles : Referenced[h] = 0
  <2> SUFFICES ASSUME NEW h \in Handles PROVE Referenced[h] = 0 OBVIOUS
  <2>1. OwnerCount(held, h) = 0
    <3>1. OwnerSet(held, h) = {} BY DEF Init, OwnerSet
    <3> QED BY <3>1, FS_EmptySet DEF OwnerCount
  <2>2. WindowCount(windows, GuestManaged, h) = 0
    <3>1. Showing(windows, h) = {} BY DEF Init, Showing
    <3> QED BY <3>1, FS_EmptySet DEF WindowCount
  <2>3. PostCount(posts, h) = 0
    <3>1. PostSet(posts, h) = {} BY DEF Init, PostSet
    <3> QED BY <3>1, FS_EmptySet DEF PostCount
  <2>4. PipeCount(piped \cup destroys \cup leaked, h) = 0 BY DEF Init, PipeCount
  <2>5. Referenced[h] = OwnerCount(held, h) + WindowCount(windows, GuestManaged, h)
                          + PostCount(posts, h) + PipeCount(piped \cup destroys \cup leaked, h)
    BY <1>1, ReferencedCounts
  <2> QED BY <2>1, <2>2, <2>3, <2>4, <2>5
<1>3. fb = [bufs |-> <<>>, delayed |-> <<>>] /\ fb.bufs = <<>> /\ DOMAIN fb.bufs = {}
      /\ fb.delayed = <<>> /\ Len(fb.delayed) = 0
  BY DEF Init
<1>4. TableInv(fb, Referenced, now)
  <2>1. TableTyped(fb) BY <1>3 DEF TableTyped
  <2>2. Listed(fb, now) BY <1>3 DEF Listed, Sorted
  <2>3. Counted(fb, Referenced) BY <1>2, <1>3 DEF Counted
  <2>4. Complete(fb) BY <1>3 DEF Complete
  <2> QED BY <2>1, <2>2, <2>3, <2>4 DEF TableInv
<1>5. PipeInv BY DEF Init, PipeInv
<1>6. HandlesInv BY <1>3 DEF HandlesInv, Live
<1>7. GuestInv BY DEF Init, GuestInv, Zeros
<1> QED BY <1>1, <1>4, <1>5, <1>6, <1>7 DEF IInv

(* A table that is right for its new counts is right in the next state.    *)
LEMMA TableCarried ==
  ASSUME NEW R, NEW c, TableInv(R, c, now), fb' = R, Referenced' = c,
         now' = now, mode' = mode
  PROVE  TableInv(fb, Referenced, now)'
BY DEF TableInv, GuestManaged

LEMMA CountsChanged ==
  ASSUME StateTyped, StateTyped', mode' = mode, NEW d \in [Handles -> Int],
         \A h \in Handles :
           OwnerCount(held', h) + WindowCount(windows', GuestManaged, h) + PostCount(posts', h)
             + PipeCount((piped \cup destroys \cup leaked)', h)
           = OwnerCount(held, h) + WindowCount(windows, GuestManaged, h) + PostCount(posts, h)
             + PipeCount(piped \cup destroys \cup leaked, h) + d[h]
  PROVE  Referenced' = [h \in Handles |-> Referenced[h] + d[h]]
<1>1. Referenced' = [h \in Handles |->
         OwnerCount(held', h) + WindowCount(windows', GuestManaged, h) + PostCount(posts', h)
           + PipeCount((piped \cup destroys \cup leaked)', h)]
  BY DEF Referenced, Total, GuestManaged
<1>2. \A h \in Handles : Referenced[h] = OwnerCount(held, h) + WindowCount(windows, GuestManaged, h)
                           + PostCount(posts, h) + PipeCount(piped \cup destroys \cup leaked, h)
  BY ReferencedCounts
<1> QED BY <1>1, <1>2

(* The sums of the references, by what changes.                            *)
LEMMA SumsPlus ==
  ASSUME StateTyped, StateTyped', mode' = mode, NEW n \in Counts,
         \A h \in Handles :
           OwnerCount(held', h) + WindowCount(windows', GuestManaged, h) + PostCount(posts', h)
             + PipeCount((piped \cup destroys \cup leaked)', h)
           = OwnerCount(held, h) + WindowCount(windows, GuestManaged, h) + PostCount(posts, h)
             + PipeCount(piped \cup destroys \cup leaked, h) + n[h]
  PROVE  Referenced' = Plus(Referenced, n)
<1>1. n \in [Handles -> Int] BY DEF Counts
<1>2. Referenced' = [h \in Handles |-> Referenced[h] + n[h]] BY <1>1, CountsChanged
<1> QED BY <1>2 DEF Plus

LEMMA SumsMinus ==
  ASSUME StateTyped, StateTyped', mode' = mode, NEW n \in Counts,
         \A h \in Handles :
           OwnerCount(held', h) + WindowCount(windows', GuestManaged, h) + PostCount(posts', h)
             + PipeCount((piped \cup destroys \cup leaked)', h)
           = OwnerCount(held, h) + WindowCount(windows, GuestManaged, h) + PostCount(posts, h)
             + PipeCount(piped \cup destroys \cup leaked, h) - n[h]
  PROVE  Referenced' = Minus(Referenced, n)
<1> DEFINE d == [h \in Handles |-> 0 - n[h]]
<1>1. \A h \in Handles : n[h] \in Nat /\ d[h] = 0 - n[h] BY DEF Counts
<1>2. d \in [Handles -> Int] BY <1>1
<1> HIDE DEF d
<1>3. \A h \in Handles :
        /\ OwnerCount(held, h) \in Nat /\ WindowCount(windows, GuestManaged, h) \in Nat
        /\ PostCount(posts, h) \in Nat /\ PipeCount(piped \cup destroys \cup leaked, h) \in Nat
        /\ Referenced[h] \in Nat
  BY ReferencedCounts DEF Counts
<1>4. \A h \in Handles :
           OwnerCount(held', h) + WindowCount(windows', GuestManaged, h) + PostCount(posts', h)
             + PipeCount((piped \cup destroys \cup leaked)', h)
           = OwnerCount(held, h) + WindowCount(windows, GuestManaged, h) + PostCount(posts, h)
             + PipeCount(piped \cup destroys \cup leaked, h) + d[h]
  <2> SUFFICES ASSUME NEW h \in Handles
               PROVE  OwnerCount(held, h) + WindowCount(windows, GuestManaged, h)
                        + PostCount(posts, h)
                        + PipeCount(piped \cup destroys \cup leaked, h) - n[h]
                      = OwnerCount(held, h) + WindowCount(windows, GuestManaged, h)
                        + PostCount(posts, h)
                        + PipeCount(piped \cup destroys \cup leaked, h) + d[h]
    OBVIOUS
  <2>1. PICK i \in Nat : i = OwnerCount(held, h) BY <1>3
  <2>2. PICK j \in Nat : j = WindowCount(windows, GuestManaged, h) BY <1>3
  <2>3. PICK k \in Nat : k = PostCount(posts, h) BY <1>3
  <2>4. PICK l \in Nat : l = PipeCount(piped \cup destroys \cup leaked, h) BY <1>3
  <2>5. PICK m \in Nat : n[h] = m /\ d[h] = 0 - m BY <1>1
  <2>6. i + j + k + l - m = i + j + k + l + (0 - m) OBVIOUS
  <2> QED BY <2>1, <2>2, <2>3, <2>4, <2>5, <2>6
<1>5. Referenced' = [h \in Handles |-> Referenced[h] + d[h]] BY <1>2, <1>4, CountsChanged
<1>6. \A h \in Handles : Referenced[h] + d[h] = Referenced[h] - n[h] BY <1>1, <1>3
<1> QED BY <1>5, <1>6 DEF Minus

(* A process takes a reference more, or one less.                          *)
LEMMA HeldPlus ==
  ASSUME StateTyped, StateTyped', mode' = mode, windows' = windows, posts' = posts,
         piped' = piped, destroys' = destroys, leaked' = leaked,
         NEW h \in Handles,
         \A g \in Handles :
           OwnerCount(held', g) = OwnerCount(held, g) + (IF g = h THEN 1 ELSE 0)
  PROVE  Referenced' = Plus(Referenced, Times(h, 1))
<1>1. Times(h, 1) \in Counts /\ \A g \in Handles : Times(h, 1)[g] = IF g = h THEN 1 ELSE 0
  BY DEF Times, Counts
<1>2. ASSUME NEW g \in Handles
      PROVE  OwnerCount(held', g) + WindowCount(windows', GuestManaged, g) + PostCount(posts', g)
               + PipeCount((piped \cup destroys \cup leaked)', g)
             = OwnerCount(held, g) + WindowCount(windows, GuestManaged, g) + PostCount(posts, g)
               + PipeCount(piped \cup destroys \cup leaked, g) + Times(h, 1)[g]
  <2>1. /\ OwnerCount(held, g) \in Nat /\ WindowCount(windows, GuestManaged, g) \in Nat
        /\ PostCount(posts, g) \in Nat /\ PipeCount(piped \cup destroys \cup leaked, g) \in Nat
    BY ReferencedCounts
  <2>2. OwnerCount(held', g) = OwnerCount(held, g) + Times(h, 1)[g] BY <1>1
  <2>3. \A i, j, k, l, m \in Nat : (i + m) + j + k + l = i + j + k + l + m OBVIOUS
  <2>4. Times(h, 1)[g] \in Nat BY <1>1
  <2> QED BY <2>1, <2>2, <2>3, <2>4
<1> QED BY <1>1, <1>2, SumsPlus

LEMMA HeldMinus ==
  ASSUME StateTyped, StateTyped', mode' = mode, windows' = windows, posts' = posts,
         piped' = piped, destroys' = destroys, leaked' = leaked,
         NEW h \in Handles,
         \A g \in Handles :
           OwnerCount(held', g) = OwnerCount(held, g) - (IF g = h THEN 1 ELSE 0)
  PROVE  Referenced' = Minus(Referenced, Times(h, 1))
<1>1. Times(h, 1) \in Counts /\ \A g \in Handles : Times(h, 1)[g] = IF g = h THEN 1 ELSE 0
  BY DEF Times, Counts
<1>2. ASSUME NEW g \in Handles
      PROVE  OwnerCount(held', g) + WindowCount(windows', GuestManaged, g) + PostCount(posts', g)
               + PipeCount((piped \cup destroys \cup leaked)', g)
             = OwnerCount(held, g) + WindowCount(windows, GuestManaged, g) + PostCount(posts, g)
               + PipeCount(piped \cup destroys \cup leaked, g) - Times(h, 1)[g]
  <2>1. /\ OwnerCount(held, g) \in Nat /\ WindowCount(windows, GuestManaged, g) \in Nat
        /\ PostCount(posts, g) \in Nat /\ PipeCount(piped \cup destroys \cup leaked, g) \in Nat
    BY ReferencedCounts
  <2>2. OwnerCount(held', g) = OwnerCount(held, g) - Times(h, 1)[g] BY <1>1
  <2>3. \A i, j, k, l, m \in Nat : (i - m) + j + k + l = i + j + k + l - m OBVIOUS
  <2>4. Times(h, 1)[g] \in Nat BY <1>1
  <2> QED BY <2>1, <2>2, <2>3, <2>4
<1> QED BY <1>1, <1>2, SumsMinus

(* What the step lemmas below have in common.                              *)
LEMMA StepKeeps ==
  ASSUME IInv, StateTyped', PipeInv', GuestInv', mode' = mode, now' = now,
         NEW R, NEW c, TableInv(R, c, now), fb' = R, Referenced' = c,
         ~GuestManaged => DOMAIN R.bufs \subseteq 1 .. lastHandle'
  PROVE  IInv'
<1>1. TableInv(fb, Referenced, now)' BY TableCarried
<1>2. HandlesInv' BY DEF HandlesInv, Live, GuestManaged
<1> QED BY <1>1, <1>2 DEF IInv

LEMMA InvFacts ==
  ASSUME IInv
  PROVE  /\ StateTyped /\ TableInv(fb, Referenced, now) /\ PipeInv /\ HandlesInv /\ GuestInv
         /\ TableTyped(fb) /\ Counted(fb, Referenced) /\ Listed(fb, now)
         /\ Referenced \in Counts /\ now \in Nat /\ now \in 0 .. MaxTime
         /\ fb = [bufs |-> fb.bufs, delayed |-> fb.delayed]
         /\ Live = DOMAIN fb.bufs
         /\ ~GuestManaged => DOMAIN fb.bufs \subseteq 1 .. lastHandle
         /\ mode \in Modes
<1>1. StateTyped /\ TableInv(fb, Referenced, now) BY DEF IInv
<1>2. Referenced \in Counts BY <1>1, ReferencedCounts
<1>3. now \in Nat /\ now \in 0 .. MaxTime BY <1>1, BoundsAssumption DEF StateTyped
<1>4. mode \in Modes BY <1>1 DEF StateTyped
<1> QED BY <1>1, <1>2, <1>3, <1>4 DEF IInv, TableInv, TableTyped, HandlesInv, Live

LEMMA BoundToCounts ==
  ASSUME StateTyped, NEW V
  PROVE  /\ BoundTo(V) \in Counts
         /\ \A h \in Handles : BoundTo(V)[h] = Cardinality(Shows(windows, V, h))
<1>1. DOMAIN windows \subseteq Windows BY DEF StateTyped
<1>2. \A h \in Handles : Cardinality(Shows(windows, V, h)) \in Nat BY <1>1, ShowingFinite
<1>3. BoundTo(V) = [h \in Handles |-> Cardinality(Shows(windows, V, h))] BY DEF BoundTo, Shows
<1> QED BY <1>2, <1>3 DEF Counts

LEMMA HeldEntry ==
  ASSUME NEW H \in [Owners -> Counts], NEW p \in Owners, NEW h \in Handles, NEW x \in Nat,
         NEW G, ChangedEntry(G, H, p, h, x)
  PROVE  /\ G \in [Owners -> Counts]
         /\ \A g \in Handles :
              /\ OwnerCount(G, g) = OwnerCount(H, g) + (IF g = h THEN x - H[p][h] ELSE 0)
              /\ H[p][g] \in Nat /\ H[p][g] <= OwnerCount(H, g)
<1> DEFINE f == [H[p] EXCEPT ![h] = x]
<1>1. H[p] \in [Handles -> Nat] BY DEF Counts
<1>2. G = [H EXCEPT ![p] = f] BY DEF ChangedEntry
<1>3. f \in [Handles -> Nat] /\ \A g \in Handles : f[g] = IF g = h THEN x ELSE H[p][g]
  BY <1>1
<1> HIDE DEF f
<1>4. G \in [Owners -> Counts] BY <1>2, <1>3 DEF Counts
<1>5. f \in Counts BY <1>3 DEF Counts
<1>6. \A g \in Handles : /\ OwnerCount(G, g) = OwnerCount(H, g) - H[p][g] + f[g]
                         /\ H[p][g] <= OwnerCount(H, g)
  <2> SUFFICES ASSUME NEW g \in Handles
               PROVE  /\ OwnerCount(G, g) = OwnerCount(H, g) - H[p][g] + f[g]
                      /\ H[p][g] <= OwnerCount(H, g)
    OBVIOUS
  <2>1. Changed(G, H, p, f) BY <1>2 DEF Changed
  <2> QED BY <2>1, <1>5, OwnerReplaced
<1>7. \A g \in Handles : OwnerCount(H, g) \in Nat /\ H[p][g] \in Nat BY <1>1, OwnersFinite
<1>8. ASSUME NEW g \in Handles
      PROVE  OwnerCount(G, g) = OwnerCount(H, g) + (IF g = h THEN x - H[p][h] ELSE 0)
  <2>1. OwnerCount(G, g) = OwnerCount(H, g) - H[p][g] + f[g]
        /\ OwnerCount(H, g) \in Nat /\ H[p][g] \in Nat
    BY <1>6, <1>7
  <2>2. CASE g = h
    <3>1. f[g] = x BY <1>3, <2>2
    <3> QED BY <2>1, <2>2, <3>1
  <2>3. CASE g # h
    <3>1. f[g] = H[p][g] BY <1>3, <2>3
    <3> QED BY <2>1, <2>3, <3>1
  <2> QED BY <2>2, <2>3
<1> QED BY <1>4, <1>6, <1>7, <1>8

-----------------------------------------------------------------------------
(***************************************************************************)
(* One lemma per call.                                                     *)
(***************************************************************************)
LEMMA OpenStep ==
  ASSUME IInv, NEW p \in Owners, NEW h \in Handles, openColorBuffer(p, h)
  PROVE  IInv'
<1> DEFINE c == Plus(Referenced, Times(h, 1))
<1> USE InvFacts
<1>1. /\ ~GuestManaged /\ h \in DOMAIN fb.bufs /\ fb.bufs[h].refcount < MaxRefs
      /\ fb' = markOpened(fb, h, 1) /\ held' = [held EXCEPT ![p][h] = held[p][h] + 1]
      /\ UNCHANGED <<surfaces, pipe, posts, host>>
  BY DEF openColorBuffer, WithinBounds, Live
<1>2. held \in [Owners -> Counts] BY DEF StateTyped
<1>3. held[p][h] \in Nat BY <1>2 DEF Counts
<1>4. /\ held' \in [Owners -> Counts]
      /\ \A g \in Handles :
           OwnerCount(held', g)
             = OwnerCount(held, g) + (IF g = h THEN 1 ELSE 0)
  <2>1. PICK x \in Nat : x = held[p][h] + 1 BY <1>3
  <2>2. ChangedEntry(held', held, p, h, x) BY <1>1, <2>1 DEF ChangedEntry
  <2>3. /\ held' \in [Owners -> Counts]
        /\ \A g \in Handles :
             OwnerCount(held', g) = OwnerCount(held, g) + (IF g = h THEN x - held[p][h] ELSE 0)
    BY <1>2, <2>2, HeldEntry
  <2>4. x - held[p][h] = 1 BY <1>3, <2>1
  <2> QED BY <2>3, <2>4
<1>5. StateTyped' BY <1>1, <1>4 DEF StateTyped, surfaces, pipe, host
<1>6. Referenced' = c
  BY <1>1, <1>2, <1>3, <1>4, <1>5, HeldPlus DEF surfaces, pipe, host
<1>7. TableInv(markOpened(fb, h, 1), c, now)
  <2>1. Referenced[h] + 1 < RefMod
    <3>1. fb.bufs[h].refcount = Referenced[h] /\ Referenced[h] \in Nat BY <1>1 DEF Counted, Counts
    <3> QED BY <1>1, <3>1, BoundsAssumption
  <2> QED BY <1>1, <2>1, OpenTable
<1>8. PipeInv' BY <1>1 DEF PipeInv, pipe, host, RefCountPipe
<1>9. GuestInv' BY <1>1 DEF GuestInv, GuestManaged, host
<1>10. DOMAIN markOpened(fb, h, 1).bufs \subseteq 1 .. lastHandle'
  BY <1>1, NothingAdded DEF host
<1> HIDE DEF c
<1> QED BY <1>1, <1>5, <1>6, <1>7, <1>8, <1>9, <1>10, StepKeeps DEF host

(* Surfaces and a process let go of what they hold.                        *)
LEMMA LetGo ==
  ASSUME StateTyped, StateTyped', mode' = mode, ~GuestManaged,
         posts' = posts, piped' = piped, destroys' = destroys, leaked' = leaked,
         NEW V, windows' = Without(windows, V), NEW m \in Counts, NEW n \in Counts,
         \A g \in Handles : /\ OwnerCount(held', g) = OwnerCount(held, g) - m[g]
                            /\ m[g] <= OwnerCount(held, g)
                            /\ n[g] = BoundTo(V)[g] + m[g]
  PROVE  /\ Referenced' = Minus(Referenced, n)
         /\ \A g \in Handles : n[g] <= Referenced[g]
<1> DEFINE W(g) == Cardinality(Showing(windows, g))
           S(g) == Cardinality(Shows(windows, V, g))
<1>1. DOMAIN windows \subseteq Windows BY DEF StateTyped
<1>2. \A g \in Handles : /\ Cardinality(Showing(windows', g)) = W(g) - S(g)
                         /\ S(g) <= W(g)
  BY <1>1, WindowsRemoved
<1>3. \A g \in Handles : BoundTo(V)[g] = S(g) BY BoundToCounts
<1>4. \A g \in Handles : W(g) \in Nat /\ S(g) \in Nat BY <1>1, ShowingFinite
<1>5. \A g \in Handles : /\ WindowCount(windows, GuestManaged, g) = W(g)
                         /\ WindowCount(windows', GuestManaged, g) = W(g) - S(g)
  BY <1>2 DEF WindowCount
<1> HIDE DEF W, S
<1>6. ASSUME NEW g \in Handles
      PROVE  /\ OwnerCount(held', g) + WindowCount(windows', GuestManaged, g) + PostCount(posts', g)
                  + PipeCount((piped \cup destroys \cup leaked)', g)
                = OwnerCount(held, g) + WindowCount(windows, GuestManaged, g) + PostCount(posts, g)
                  + PipeCount(piped \cup destroys \cup leaked, g) - n[g]
             /\ n[g] <= Referenced[g]
  <2>1. PICK i \in Nat : i = OwnerCount(held, g) BY ReferencedCounts
  <2>2. PICK k \in Nat : k = PostCount(posts, g) BY ReferencedCounts
  <2>3. PICK l \in Nat : l = PipeCount(piped \cup destroys \cup leaked, g) BY ReferencedCounts
  <2>4. PICK j \in Nat, s \in Nat : j = W(g) /\ s = S(g) BY <1>4
  <2>5. PICK x \in Nat : x = m[g] BY DEF Counts
  <2>6. /\ OwnerCount(held', g) = i - x /\ x <= i
        /\ WindowCount(windows, GuestManaged, g) = j
        /\ WindowCount(windows', GuestManaged, g) = j - s /\ s <= j
        /\ n[g] = s + x
    BY <1>2, <1>3, <1>5, <2>1, <2>4, <2>5
  <2>7. Referenced[g] = i + j + k + l
    <3>1. Referenced[g] = OwnerCount(held, g) + WindowCount(windows, GuestManaged, g)
                            + PostCount(posts, g) + PipeCount(piped \cup destroys \cup leaked, g)
      BY ReferencedCounts
    <3> QED BY <2>1, <2>2, <2>3, <2>6, <3>1
  <2>8. (i - x) + (j - s) + k + l = i + j + k + l - (s + x) /\ s + x <= i + j + k + l
    BY <2>6
  <2>9. PipeCount((piped \cup destroys \cup leaked)', g) = l /\ PostCount(posts', g) = k
    BY <2>2, <2>3
  <2> QED BY <2>1, <2>2, <2>3, <2>6, <2>7, <2>8, <2>9
<1>7. Referenced' = Minus(Referenced, n) BY <1>6, SumsMinus
<1> QED BY <1>6, <1>7

(* Where surfaces do not count, the references stay as they are.           *)
LEMMA SumsSame ==
  ASSUME StateTyped, StateTyped', mode' = mode, posts' = posts,
         (piped \cup destroys \cup leaked)' = piped \cup destroys \cup leaked,
         \A g \in Handles :
           /\ OwnerCount(held', g) = OwnerCount(held, g)
           /\ WindowCount(windows', GuestManaged, g) = WindowCount(windows, GuestManaged, g)
  PROVE  Referenced' = Referenced
<1>1. Referenced' = [h \in Handles |->
         OwnerCount(held', h) + WindowCount(windows', GuestManaged, h) + PostCount(posts', h)
           + PipeCount((piped \cup destroys \cup leaked)', h)]
  BY DEF Referenced, Total, GuestManaged
<1>2. Referenced = [h \in Handles |->
         OwnerCount(held, h) + WindowCount(windows, GuestManaged, h) + PostCount(posts, h)
           + PipeCount(piped \cup destroys \cup leaked, h)]
  BY DEF Referenced, Total
<1> QED BY <1>1, <1>2

LEMMA NoneHeld ==
  /\ Zeros \in Counts /\ \A h \in Handles : Zeros[h] = 0
BY DEF Zeros, Counts

LEMMA CloseStep ==
  ASSUME IInv, NEW p \in Owners, NEW h \in Handles, closeColorBuffer(p, h)
  PROVE  IInv'
<1> DEFINE c == Minus(Referenced, Once(h))
<1> USE InvFacts
<1>1. /\ ~RefCountPipe /\ held[p][h] > 0
      /\ held' = [held EXCEPT ![p][h] = held[p][h] - 1]
      /\ UNCHANGED <<surfaces, pipe, posts, host>>
  BY DEF closeColorBuffer
<1>2. PICK order \in Orders(LastClosed(fb, Once(h))) :
        fb' = closeColorBufferLocked(fb, Once(h), FALSE, order)
  BY DEF closeColorBuffer
<1>3. held \in [Owners -> Counts] /\ held[p][h] \in Nat /\ held[p] \in Counts
  BY DEF StateTyped, Counts
<1>4. /\ held' \in [Owners -> Counts]
      /\ \A g \in Handles :
           OwnerCount(held', g) = OwnerCount(held, g) - (IF g = h THEN 1 ELSE 0)
      /\ held[p][h] <= OwnerCount(held, h)
  <2>1. PICK x \in Nat : x = held[p][h] - 1 BY <1>1, <1>3
  <2>2. ChangedEntry(held', held, p, h, x) BY <1>1, <2>1 DEF ChangedEntry
  <2>3. /\ held' \in [Owners -> Counts]
        /\ \A g \in Handles :
             /\ OwnerCount(held', g) = OwnerCount(held, g) + (IF g = h THEN x - held[p][h] ELSE 0)
             /\ held[p][g] <= OwnerCount(held, g)
    BY <1>3, <2>2, HeldEntry
  <2>4. x - held[p][h] = -1 BY <1>3, <2>1
  <2>5. \A g \in Handles : OwnerCount(held, g) \in Nat BY ReferencedCounts
  <2> QED BY <2>3, <2>4, <2>5
<1>5. StateTyped' BY <1>1, <1>4 DEF StateTyped, surfaces, pipe, host
<1>6. Once(h) = Times(h, 1) /\ Once(h) \in Counts BY TimesCounts
<1>7. Referenced' = c
  BY <1>1, <1>4, <1>5, <1>6, HeldMinus DEF surfaces, pipe, host
<1>8. TableInv(closeColorBufferLocked(fb, Once(h), FALSE, order), c, now)
  <2>1. \A g \in Handles : Once(h)[g] <= Referenced[g]
    <3> SUFFICES ASSUME NEW g \in Handles PROVE Once(h)[g] <= Referenced[g] OBVIOUS
    <3>1. Referenced[g] \in Nat BY DEF Counts
    <3>2. CASE g = h
      <4>1. OwnerCount(held, h) <= Referenced[h] BY ReferencedCounts
      <4>2. OwnerCount(held, h) \in Nat BY ReferencedCounts
      <4>3. Once(h)[g] = 1 BY <3>2 DEF Once
      <4> QED BY <1>1, <1>3, <1>4, <3>1, <3>2, <4>1, <4>2, <4>3
    <3>3. CASE g # h
      <4>1. Once(h)[g] = 0 BY <3>3 DEF Once
      <4> QED BY <3>1, <4>1
    <3> QED BY <3>2, <3>3
  <2> QED BY <1>1, <1>6, <2>1, CloseTable
<1>9. PipeInv' BY <1>1 DEF PipeInv, pipe, host, RefCountPipe
<1>10. GuestInv'
  <2> SUFFICES ASSUME GuestManaged, NEW q \in Owners \ {0} PROVE held'[q] = Zeros
    BY <1>1 DEF GuestInv, GuestManaged, host
  <2>1. held[q] = Zeros BY DEF GuestInv
  <2>2. q # p BY <1>1, <2>1, NoneHeld
  <2> QED BY <1>1, <2>1, <2>2
<1>11. ~GuestManaged =>
         DOMAIN closeColorBufferLocked(fb, Once(h), FALSE, order).bufs \subseteq 1 .. lastHandle'
  BY <1>1, NothingAdded DEF host
<1> HIDE DEF c
<1> QED BY <1>1, <1>2, <1>5, <1>7, <1>8, <1>9, <1>10, <1>11, StepKeeps DEF host

LEMMA CreateWindowStep ==
  ASSUME IInv, NEW p \in Owners, NEW w \in Windows, createEmulatedEglWindowSurface(p, w)
  PROVE  IInv'
<1> USE InvFacts
<1>1. /\ w \notin DOMAIN windows
      /\ windows' = [v \in DOMAIN windows \cup {w} |-> IF v = w THEN 0 ELSE windows[v]]
      /\ windowsOf' = [windowsOf EXCEPT ![p] = windowsOf[p] \cup {w}]
      /\ UNCHANGED <<fb, held, pipe, posts, host>>
  BY DEF createEmulatedEglWindowSurface
<1>2. StateTyped'
  <2>1. DOMAIN windows' \subseteq Windows /\ windows' \in [DOMAIN windows' -> Handles \cup {0}]
    BY <1>1 DEF StateTyped
  <2>2. windowsOf' \in [Owners -> SUBSET Windows] BY <1>1 DEF StateTyped
  <2> QED BY <1>1, <2>1, <2>2 DEF StateTyped, pipe, host
<1>3. \A g \in Handles : Showing(windows', g) = Showing(windows, g)
  <2>1. AddedUnbound(windows', windows, w) BY <1>1 DEF AddedUnbound
  <2> QED BY <1>1, <2>1, WindowAdded
<1>4. Referenced' = Referenced
  <2>1. \A g \in Handles :
          WindowCount(windows', GuestManaged, g) = WindowCount(windows, GuestManaged, g)
    BY <1>3 DEF WindowCount
  <2> QED BY <1>1, <1>2, <2>1, SumsSame DEF pipe, host
<1>5. PipeInv' BY <1>1 DEF PipeInv, pipe, host, RefCountPipe
<1>6. GuestInv' BY <1>1 DEF GuestInv, GuestManaged, host
<1> QED BY <1>1, <1>2, <1>4, <1>5, <1>6, StepKeeps DEF host

(* Surfaces go, and what they showed is let go of.                         *)
LEMMA SurfacesGo ==
  ASSUME IInv, NEW V, NEW order \in Orders(LastClosed(fb, BoundTo(V))),
         fb' = Release(fb, BoundTo(V), order), windows' = Without(windows, V),
         windowsOf' \in [Owners -> SUBSET Windows],
         UNCHANGED <<held, pipe, posts, host>>
  PROVE  IInv'
<1> USE InvFacts
<1>1. BoundTo(V) \in Counts BY BoundToCounts
<1>2. StateTyped'
  <2>1. DOMAIN windows' \subseteq DOMAIN windows
        /\ windows' = [w \in DOMAIN windows' |-> windows[w]]
    BY DEF Without, Restrict
  <2>2. DOMAIN windows' \subseteq Windows /\ windows' \in [DOMAIN windows' -> Handles \cup {0}]
    BY <2>1 DEF StateTyped
  <2> QED BY <2>2 DEF StateTyped, pipe, host
<1>3. PipeInv' BY DEF PipeInv, pipe, host, RefCountPipe
<1>4. GuestInv' BY DEF GuestInv, GuestManaged, host
<1>5. CASE GuestManaged
  <2>1. fb' = fb BY <1>5 DEF Release
  <2>2. Referenced' = Referenced
    <3>1. \A g \in Handles :
            WindowCount(windows', GuestManaged, g) = WindowCount(windows, GuestManaged, g)
      BY <1>5 DEF WindowCount
    <3> QED BY <1>2, <3>1, SumsSame DEF pipe, host
  <2> QED BY <1>2, <1>3, <1>4, <1>5, <2>1, <2>2, StepKeeps DEF host
<1>6. CASE ~GuestManaged
  <2>1. \A g \in Handles : /\ OwnerCount(held', g) = OwnerCount(held, g) - Zeros[g]
                           /\ Zeros[g] <= OwnerCount(held, g)
                           /\ BoundTo(V)[g] = BoundTo(V)[g] + Zeros[g]
    <3> SUFFICES ASSUME NEW g \in Handles
                 PROVE  /\ OwnerCount(held', g) = OwnerCount(held, g) - Zeros[g]
                        /\ Zeros[g] <= OwnerCount(held, g)
                        /\ BoundTo(V)[g] = BoundTo(V)[g] + Zeros[g]
      OBVIOUS
    <3>1. OwnerCount(held, g) \in Nat BY ReferencedCounts
    <3>2. BoundTo(V)[g] \in Nat BY <1>1 DEF Counts
    <3>3. Zeros[g] = 0 BY NoneHeld
    <3> QED BY <3>1, <3>2, <3>3
  <2>2. /\ Referenced' = Minus(Referenced, BoundTo(V))
        /\ \A g \in Handles : BoundTo(V)[g] <= Referenced[g]
    BY <1>1, <1>2, <1>6, <2>1, NoneHeld, LetGo DEF pipe, host
  <2>3. TableInv(Release(fb, BoundTo(V), order), Minus(Referenced, BoundTo(V)), now)
    BY <1>1, <1>6, <2>2, ReleaseTable
  <2>4. DOMAIN Release(fb, BoundTo(V), order).bufs \subseteq 1 .. lastHandle'
    BY <1>6, NothingAdded DEF host
  <2> QED BY <1>2, <1>3, <1>4, <2>2, <2>3, <2>4, StepKeeps DEF host
<1> QED BY <1>5, <1>6

LEMMA DestroyWindowStep ==
  ASSUME IInv, NEW p \in Owners, NEW w \in Windows, destroyEmulatedEglWindowSurface(p, w)
  PROVE  IInv'
<1>1. PICK V : V = {w} OBVIOUS
<1>2. PICK order \in Orders(LastClosed(fb, BoundTo(V))) : fb' = Release(fb, BoundTo(V), order)
  BY <1>1 DEF destroyEmulatedEglWindowSurface
<1>3. windows' = Without(windows, V) /\ UNCHANGED <<held, pipe, posts, host>>
  BY <1>1 DEF destroyEmulatedEglWindowSurface
<1>4. windowsOf' \in [Owners -> SUBSET Windows]
  BY DEF destroyEmulatedEglWindowSurface, IInv, StateTyped
<1> QED BY <1>2, <1>3, <1>4, SurfacesGo

LEMMA DrainStep ==
  ASSUME IInv, drainGlRenderThreadSurfaces
  PROVE  IInv'
<1>1. PICK V : V = {w \in windowsOf[0] \cap DOMAIN windows : windows[w] # 0} OBVIOUS
<1>2. PICK order \in Orders(LastClosed(fb, BoundTo(V))) : fb' = Release(fb, BoundTo(V), order)
  BY <1>1 DEF drainGlRenderThreadSurfaces
<1>3. windows' = Without(windows, V) /\ UNCHANGED <<held, pipe, posts, host>>
  BY <1>1 DEF drainGlRenderThreadSurfaces
<1>4. windowsOf' \in [Owners -> SUBSET Windows]
  BY DEF drainGlRenderThreadSurfaces, IInv, StateTyped
<1> QED BY <1>2, <1>3, <1>4, SurfacesGo

LEMMA CleanupStep ==
  ASSUME IInv, NEW p \in Owners, cleanupProcGLObjects(p)
  PROVE  IInv'
<1> USE InvFacts
<1>1. PICK V, n : V = windowsOf[p] /\ n = OwnedBy(p) OBVIOUS
<1>2. PICK order \in Orders(LastClosed(fb, n)) : fb' = Release(fb, n, order)
  BY <1>1 DEF cleanupProcGLObjects
<1>3. /\ p # 0 /\ windows' = Without(windows, V)
      /\ windowsOf' = [windowsOf EXCEPT ![p] = {}]
      /\ held' = [held EXCEPT ![p] = Zeros]
      /\ UNCHANGED <<pipe, posts, host>>
  BY <1>1 DEF cleanupProcGLObjects
<1>4. held \in [Owners -> Counts] /\ held[p] \in Counts BY DEF StateTyped
<1>5. StateTyped'
  <2>1. DOMAIN windows' \subseteq DOMAIN windows
        /\ windows' = [w \in DOMAIN windows' |-> windows[w]]
    BY <1>3 DEF Without, Restrict
  <2>2. DOMAIN windows' \subseteq Windows /\ windows' \in [DOMAIN windows' -> Handles \cup {0}]
    BY <2>1 DEF StateTyped
  <2>3. windowsOf' \in [Owners -> SUBSET Windows] BY <1>3 DEF StateTyped
  <2>4. held' \in [Owners -> Counts] BY <1>3, <1>4, NoneHeld
  <2> QED BY <1>3, <2>2, <2>3, <2>4 DEF StateTyped, pipe, host
<1>6. PipeInv' BY <1>3 DEF PipeInv, pipe, host, RefCountPipe
<1>7. GuestInv' BY <1>3, <1>4 DEF GuestInv, GuestManaged, host
<1>8. \A g \in Handles : /\ OwnerCount(held', g) = OwnerCount(held, g) - held[p][g]
                         /\ held[p][g] <= OwnerCount(held, g)
  <2> SUFFICES ASSUME NEW g \in Handles
               PROVE  /\ OwnerCount(held', g) = OwnerCount(held, g) - held[p][g]
                      /\ held[p][g] <= OwnerCount(held, g)
    OBVIOUS
  <2>1. Changed(held', held, p, Zeros) BY <1>3 DEF Changed
  <2>2. /\ OwnerCount(held', g) = OwnerCount(held, g) - held[p][g] + Zeros[g]
        /\ held[p][g] <= OwnerCount(held, g)
    BY <1>4, <2>1, NoneHeld, OwnerReplaced
  <2>3. OwnerCount(held, g) \in Nat /\ held[p][g] \in Nat BY <1>4, ReferencedCounts DEF Counts
  <2>4. Zeros[g] = 0 BY NoneHeld
  <2> QED BY <2>2, <2>3, <2>4
<1>9. CASE GuestManaged
  <2>1. fb' = fb BY <1>2, <1>9 DEF Release
  <2>2. \A g \in Handles : OwnerCount(held', g) = OwnerCount(held, g)
    <3>1. held[p] = Zeros BY <1>3, <1>9 DEF GuestInv
    <3>2. held' = held BY <1>3, <1>4, <3>1
    <3> QED BY <3>2
  <2>3. Referenced' = Referenced
    <3>1. \A g \in Handles :
            WindowCount(windows', GuestManaged, g) = WindowCount(windows, GuestManaged, g)
      BY <1>9 DEF WindowCount
    <3> QED BY <1>3, <1>5, <2>2, <3>1, SumsSame DEF pipe, host
  <2> QED BY <1>3, <1>5, <1>6, <1>7, <1>9, <2>1, <2>3, StepKeeps DEF host
<1>10. CASE ~GuestManaged
  <2>1. BoundTo(V) \in Counts BY BoundToCounts
  <2>2. n \in Counts /\ \A g \in Handles : n[g] = BoundTo(V)[g] + held[p][g]
    <3>1. n = [g \in Handles |-> BoundTo(V)[g] + held[p][g]] BY <1>1 DEF OwnedBy
    <3>2. \A g \in Handles : BoundTo(V)[g] \in Nat /\ held[p][g] \in Nat BY <1>4, <2>1 DEF Counts
    <3>3. \A g \in Handles : BoundTo(V)[g] + held[p][g] \in Nat BY <3>2
    <3> QED BY <3>1, <3>3 DEF Counts
  <2>3. PICK m \in Counts : m = held[p] BY <1>4
  <2>4. /\ Referenced' = Minus(Referenced, n)
        /\ \A g \in Handles : n[g] <= Referenced[g]
    BY <1>3, <1>5, <1>8, <1>10, <2>2, <2>3, LetGo DEF pipe, host
  <2>5. TableInv(Release(fb, n, order), Minus(Referenced, n), now)
    BY <1>10, <2>2, <2>4, ReleaseTable
  <2>6. DOMAIN Release(fb, n, order).bufs \subseteq 1 .. lastHandle'
    BY <1>3, <1>10, NothingAdded DEF host
  <2> QED BY <1>2, <1>3, <1>5, <1>6, <1>7, <2>4, <2>5, <2>6, StepKeeps DEF host
<1> QED BY <1>9, <1>10

LEMMA SetWindowStep ==
  ASSUME IInv, NEW w \in Windows, NEW h \in Handles,
         setEmulatedEglWindowSurfaceColorBuffer(w, h)
  PROVE  IInv'
<1> USE InvFacts
<1>1. PICK k \in Nat : k = IF GuestManaged THEN 0 ELSE 1 OBVIOUS
<1>2. PICK S : S = markOpened(fb, h, k) OBVIOUS
<1>3. PICK n : n = BoundTo({w}) OBVIOUS
<1>4. /\ w \in DOMAIN windows /\ h \in DOMAIN fb.bufs /\ fb.bufs[h].refcount < MaxRefs
      /\ \E order \in Orders(LastClosed(S, n)) : fb' = Release(S, n, order)
      /\ windows' = [windows EXCEPT ![w] = h]
      /\ UNCHANGED <<windowsOf, held, pipe, posts, host>>
  BY <1>1, <1>2, <1>3 DEF setEmulatedEglWindowSurfaceColorBuffer, WithinBounds, Live
<1>5. PICK order \in Orders(LastClosed(S, n)) : fb' = Release(S, n, order) BY <1>4
<1>6. n \in Counts BY <1>3, BoundToCounts
<1>7. StateTyped'
  <2>1. DOMAIN windows' \subseteq Windows /\ windows' \in [DOMAIN windows' -> Handles \cup {0}]
    BY <1>4 DEF StateTyped
  <2> QED BY <1>4, <2>1 DEF StateTyped, pipe, host
<1>8. PipeInv' BY <1>4 DEF PipeInv, pipe, host, RefCountPipe
<1>9. GuestInv' BY <1>4 DEF GuestInv, GuestManaged, host
<1>10. TableInv(S, Plus(Referenced, Times(h, k)), now)
  <2>1. fb.bufs[h].refcount = Referenced[h] /\ Referenced[h] \in Nat BY <1>4 DEF Counted, Counts
  <2>2. Referenced[h] + k < RefMod BY <1>1, <1>4, <2>1, BoundsAssumption
  <2>3. k > 0 \/ GuestManaged BY <1>1
  <2> QED BY <1>2, <1>4, <2>2, <2>3, OpenTable
<1>11. S = [bufs |-> S.bufs, delayed |-> S.delayed] /\ DOMAIN S.bufs = DOMAIN fb.bufs
  BY <1>2, NothingAdded DEF markOpened
<1>12. CASE GuestManaged
  <2>1. fb' = S BY <1>5, <1>12 DEF Release
  <2>2. Plus(Referenced, Times(h, k)) = Referenced
    <3>1. \A g \in Handles : Referenced[g] + Times(h, k)[g] = Referenced[g]
      BY <1>1, <1>12 DEF Times, Counts
    <3>2. Referenced = [g \in Handles |-> Referenced[g]] BY DEF Counts
    <3> QED BY <3>1, <3>2 DEF Plus
  <2>3. Referenced' = Referenced
    <3>1. \A g \in Handles :
            WindowCount(windows', GuestManaged, g) = WindowCount(windows, GuestManaged, g)
      BY <1>12 DEF WindowCount
    <3> QED BY <1>4, <1>7, <3>1, SumsSame DEF pipe, host
  <2> QED BY <1>4, <1>7, <1>8, <1>9, <1>10, <1>12, <2>1, <2>2, <2>3, StepKeeps DEF host
<1>13. CASE ~GuestManaged
  <2>1. k = 1 BY <1>1, <1>13
  <2>2. PICK t : t = Times(h, k) OBVIOUS
  <2>3. t \in Counts /\ \A g \in Handles : t[g] = IF g = h THEN 1 ELSE 0
    BY <2>1, <2>2 DEF Times, Counts
  <2>4. Plus(Referenced, t) \in Counts
        /\ \A g \in Handles : Plus(Referenced, t)[g] = Referenced[g] + t[g]
    BY <2>3, CountsPlus
  <2>5. ASSUME NEW g \in Handles
        PROVE  /\ WindowCount(windows', GuestManaged, g)
                    = WindowCount(windows, GuestManaged, g) - n[g] + t[g]
               /\ n[g] <= WindowCount(windows, GuestManaged, g)
    <3>1. Changed(windows', windows, w, h) BY <1>4 DEF Changed
    <3>2. DOMAIN windows \subseteq Windows BY DEF StateTyped
    <3>3. PICK V : V = {w} OBVIOUS
    <3>4. /\ Cardinality(Showing(windows', g))
               = Cardinality(Showing(windows, g)) - Cardinality(Shows(windows, {w}, g))
                 + (IF g = h THEN 1 ELSE 0)
          /\ Cardinality(Shows(windows, {w}, g)) <= Cardinality(Showing(windows, g))
      BY <1>4, <3>1, <3>2, WindowSwitched
    <3>5. n[g] = Cardinality(Shows(windows, V, g)) BY <1>3, <3>3, BoundToCounts
    <3>6. n[g] = Cardinality(Shows(windows, {w}, g)) BY <3>3, <3>5
    <3>7. t[g] = IF g = h THEN 1 ELSE 0 BY <2>3
    <3> QED BY <1>13, <3>4, <3>6, <3>7 DEF WindowCount
  <2>6. ASSUME NEW g \in Handles
        PROVE  /\ OwnerCount(held', g) + WindowCount(windows', GuestManaged, g)
                    + PostCount(posts', g) + PipeCount((piped \cup destroys \cup leaked)', g)
                  = OwnerCount(held, g) + WindowCount(windows, GuestManaged, g)
                    + PostCount(posts, g) + PipeCount(piped \cup destroys \cup leaked, g)
                    + (t[g] - n[g])
               /\ n[g] <= Plus(Referenced, t)[g]
    <3>1. PICK i \in Nat : i = OwnerCount(held, g) BY ReferencedCounts
    <3>2. PICK j \in Nat : j = WindowCount(windows, GuestManaged, g) BY ReferencedCounts
    <3>3. PICK l \in Nat : l = PostCount(posts, g) BY ReferencedCounts
    <3>4. PICK m \in Nat : m = PipeCount(piped \cup destroys \cup leaked, g) BY ReferencedCounts
    <3>5. PICK x \in Nat, y \in Nat : x = n[g] /\ y = t[g] BY <1>6, <2>3 DEF Counts
    <3>6. WindowCount(windows', GuestManaged, g) = j - x + y /\ x <= j BY <2>5, <3>2, <3>5
    <3>7. OwnerCount(held', g) = i /\ PostCount(posts', g) = l
          /\ PipeCount((piped \cup destroys \cup leaked)', g) = m
      BY <1>4, <3>1, <3>3, <3>4 DEF pipe
    <3>8. Plus(Referenced, t)[g] = i + j + l + m + y
      <4>1. Referenced[g] = OwnerCount(held, g) + WindowCount(windows, GuestManaged, g)
                            + PostCount(posts, g) + PipeCount(piped \cup destroys \cup leaked, g)
        BY ReferencedCounts
      <4> QED BY <2>4, <3>1, <3>2, <3>3, <3>4, <3>5, <4>1
    <3>9. i + (j - x + y) + l + m = i + j + l + m + (y - x) /\ x <= i + j + l + m + y
      BY <3>6
    <3> QED BY <3>1, <3>2, <3>3, <3>4, <3>5, <3>6, <3>7, <3>8, <3>9
  <2>7. Referenced' = Minus(Plus(Referenced, t), n)
    <3> DEFINE d == [g \in Handles |-> t[g] - n[g]]
    <3>1. \A g \in Handles : t[g] \in Nat /\ n[g] \in Nat /\ Referenced[g] \in Nat
      BY <1>6, <2>3 DEF Counts
    <3>2. d \in [Handles -> Int] /\ \A g \in Handles : d[g] = t[g] - n[g] BY <3>1
    <3> HIDE DEF d
    <3>3. \A g \in Handles :
            OwnerCount(held', g) + WindowCount(windows', GuestManaged, g)
                    + PostCount(posts', g) + PipeCount((piped \cup destroys \cup leaked)', g)
                  = OwnerCount(held, g) + WindowCount(windows, GuestManaged, g)
                    + PostCount(posts, g) + PipeCount(piped \cup destroys \cup leaked, g)
                    + d[g]
      BY <2>6, <3>2
    <3>4. Referenced' = [g \in Handles |-> Referenced[g] + d[g]]
      BY <1>4, <1>7, <3>2, <3>3, CountsChanged DEF host
    <3>5. \A g \in Handles : Referenced[g] + d[g] = Plus(Referenced, t)[g] - n[g]
      BY <2>4, <3>1, <3>2
    <3> QED BY <3>4, <3>5 DEF Minus
  <2>8. TableInv(Release(S, n, order), Minus(Plus(Referenced, t), n), now)
    BY <1>6, <1>10, <1>13, <2>2, <2>4, <2>6, ReleaseTable
  <2>9. DOMAIN Release(S, n, order).bufs \subseteq 1 .. lastHandle'
    BY <1>4, <1>11, <1>13, NothingAdded DEF host
  <2> QED BY <1>4, <1>5, <1>7, <1>8, <1>9, <2>7, <2>8, <2>9, StepKeeps DEF host
<1> QED BY <1>12, <1>13

(* A frame takes a reference to the queue, or gives it back at once.       *)
LEMMA PostStep ==
  ASSUME IInv, NEW h \in Handles, postImpl(h)
  PROVE  IInv'
<1> DEFINE S == markOpened(fb, h, 1)  c == Plus(Referenced, Times(h, 1))
<1> USE InvFacts
<1>1. /\ h \in DOMAIN fb.bufs /\ fb.bufs[h].refcount < MaxRefs
      /\ UNCHANGED <<surfaces, held, pipe, host>>
  BY DEF postImpl, WithinBounds, Live
<1>2. /\ Times(h, 1) \in Counts /\ Once(h) = Times(h, 1)
      /\ \A g \in Handles : Times(h, 1)[g] = IF g = h THEN 1 ELSE 0
  BY DEF Times, Once, Counts
<1>3. TableInv(S, c, now)
  <2>1. fb.bufs[h].refcount = Referenced[h] /\ Referenced[h] \in Nat BY <1>1 DEF Counted, Counts
  <2>2. Referenced[h] + 1 < RefMod BY <1>1, <2>1, BoundsAssumption
  <2> QED BY <1>1, <2>2, OpenTable
<1>4. S = [bufs |-> S.bufs, delayed |-> S.delayed] /\ DOMAIN S.bufs = DOMAIN fb.bufs
  BY NothingAdded DEF markOpened
<1>5. PipeInv' BY <1>1 DEF PipeInv, pipe, host, RefCountPipe
<1>6. GuestInv' BY <1>1 DEF GuestInv, GuestManaged, host
<1>7. posts \in Seq(Handles) BY DEF StateTyped
<1>8. CASE subWin
  <2>1. fb' = S /\ posts' = Append(posts, h) BY <1>8 DEF postImpl
  <2>2. posts' \in Seq(Handles) BY <1>7, <2>1
  <2>3. StateTyped' BY <1>1, <2>2 DEF StateTyped, surfaces, pipe, host
  <2>4. ASSUME NEW g \in Handles
        PROVE  OwnerCount(held', g) + WindowCount(windows', GuestManaged, g) + PostCount(posts', g)
                 + PipeCount((piped \cup destroys \cup leaked)', g)
               = OwnerCount(held, g) + WindowCount(windows, GuestManaged, g) + PostCount(posts, g)
                 + PipeCount(piped \cup destroys \cup leaked, g) + Times(h, 1)[g]
    <3>1. PICK i \in Nat : i = OwnerCount(held, g) BY ReferencedCounts
    <3>2. PICK j \in Nat : j = WindowCount(windows, GuestManaged, g) BY ReferencedCounts
    <3>3. PICK l \in Nat : l = PostCount(posts, g) BY ReferencedCounts
    <3>4. PICK m \in Nat : m = PipeCount(piped \cup destroys \cup leaked, g) BY ReferencedCounts
    <3>5. PICK x \in Nat : x = Times(h, 1)[g] BY <1>2 DEF Counts
    <3>6. PostCount(posts', g) = l + x
      <4>1. PostCount(posts', g) = PostCount(posts, g) + (IF g = h THEN 1 ELSE 0)
        BY <1>7, <2>1, PostAppended
      <4> QED BY <1>2, <3>3, <3>5, <4>1
    <3>7. OwnerCount(held', g) = i /\ WindowCount(windows', GuestManaged, g) = j
          /\ PipeCount((piped \cup destroys \cup leaked)', g) = m
      BY <1>1, <3>1, <3>2, <3>4 DEF surfaces, pipe
    <3>8. i + j + (l + x) + m = i + j + l + m + x OBVIOUS
    <3> QED BY <3>1, <3>2, <3>3, <3>4, <3>5, <3>6, <3>7, <3>8
  <2>5. Referenced' = c BY <1>1, <1>2, <2>3, <2>4, SumsPlus DEF host
  <2> HIDE DEF S, c
  <2>6. ~GuestManaged => DOMAIN S.bufs \subseteq 1 .. lastHandle' BY <1>1, <1>4 DEF host
  <2> QED BY <1>1, <1>3, <1>5, <1>6, <2>1, <2>3, <2>5, <2>6, StepKeeps DEF host
<1>9. CASE ~subWin
  <2>1. fb' = decColorBufferRefCountLocked(S, Once(h)) /\ posts' = posts BY <1>9 DEF postImpl
  <2>2. StateTyped' BY <1>1, <2>1 DEF StateTyped, surfaces, pipe, host
  <2>3. Referenced' = Referenced
    <3>1. held' = held /\ windows' = windows /\ mode' = mode
          /\ (piped \cup destroys \cup leaked)' = piped \cup destroys \cup leaked
      BY <1>1 DEF surfaces, pipe, host
    <3> QED BY <2>1, <2>2, <3>1, SumsSame
  <2>4. /\ c \in Counts /\ \A g \in Handles : Once(h)[g] <= c[g]
        /\ Minus(c, Once(h)) = Referenced
    <3>1. /\ c \in Counts /\ \A g \in Handles : c[g] = Referenced[g] + Times(h, 1)[g]
      BY <1>2, CountsPlus
    <3>2. \A g \in Handles : Referenced[g] \in Nat /\ Times(h, 1)[g] \in Nat
      BY <1>2 DEF Counts
    <3>3. Referenced = [g \in Handles |-> Referenced[g]] BY DEF Counts
    <3> HIDE DEF c
    <3>4. \A g \in Handles : Once(h)[g] <= c[g] /\ c[g] - Once(h)[g] = Referenced[g]
      BY <1>2, <3>1, <3>2
    <3> QED BY <3>1, <3>3, <3>4 DEF Minus
  <2> HIDE DEF S, c
  <2>5. TableInv(decColorBufferRefCountLocked(S, Once(h)), Referenced, now)
    <3>1. TableInv(decColorBufferRefCountLocked(S, Once(h)), Minus(c, Once(h)), now)
      BY <1>2, <1>3, <2>4, DecTable
    <3> QED BY <2>4, <3>1
  <2>6. ~GuestManaged =>
          DOMAIN decColorBufferRefCountLocked(S, Once(h)).bufs \subseteq 1 .. lastHandle'
    BY <1>1, <1>4, NothingAdded DEF host
  <2> QED BY <1>1, <1>5, <1>6, <2>1, <2>2, <2>3, <2>5, <2>6, StepKeeps DEF host
<1> QED BY <1>8, <1>9

LEMMA PostWorkerStep ==
  ASSUME IInv, postWorkerFunc
  PROVE  IInv'
<1> USE InvFacts
<1>1. posts \in Seq(Handles) /\ posts # <<>> BY DEF StateTyped, postWorkerFunc
<1>2. PICK h : h = Head(posts) OBVIOUS
<1>3. /\ posts' = Tail(posts) /\ fb' = decColorBufferRefCountNoDestroy(fb, h)
      /\ UNCHANGED <<surfaces, held, pipe, host>>
  BY <1>2 DEF postWorkerFunc
<1>4. h \in Handles /\ posts' \in Seq(Handles) BY <1>1, <1>2, <1>3, PostTaken
<1>5. /\ Once(h) \in Counts
      /\ \A g \in Handles : Once(h)[g] = IF g = h THEN 1 ELSE 0
  BY <1>4 DEF Once, Counts
<1>6. StateTyped' BY <1>3, <1>4 DEF StateTyped, surfaces, pipe, host
<1>7. PipeInv' BY <1>3 DEF PipeInv, pipe, host, RefCountPipe
<1>8. GuestInv' BY <1>3 DEF GuestInv, GuestManaged, host
<1>9. Referenced[h] > 0
  <2>1. PostCount(posts, h) > 0 BY <1>1, <1>2, PostTaken
  <2> QED BY <1>4, <2>1, ReferencedCounts
<1>10. ASSUME NEW g \in Handles
       PROVE  OwnerCount(held', g) + WindowCount(windows', GuestManaged, g) + PostCount(posts', g)
                + PipeCount((piped \cup destroys \cup leaked)', g)
              = OwnerCount(held, g) + WindowCount(windows, GuestManaged, g) + PostCount(posts, g)
                + PipeCount(piped \cup destroys \cup leaked, g) - Once(h)[g]
  <2>1. PICK i \in Nat : i = OwnerCount(held, g) BY ReferencedCounts
  <2>2. PICK j \in Nat : j = WindowCount(windows, GuestManaged, g) BY ReferencedCounts
  <2>3. PICK l \in Nat : l = PostCount(posts, g) BY ReferencedCounts
  <2>4. PICK m \in Nat : m = PipeCount(piped \cup destroys \cup leaked, g) BY ReferencedCounts
  <2>5. PICK x \in Nat : x = Once(h)[g] BY <1>5 DEF Counts
  <2>6. PostCount(posts', g) = l - x
    <3>1. PostCount(posts', g) = PostCount(posts, g) - (IF g = h THEN 1 ELSE 0)
      BY <1>1, <1>2, <1>3, PostTaken
    <3> QED BY <1>5, <2>3, <2>5, <3>1
  <2>7. OwnerCount(held', g) = i /\ WindowCount(windows', GuestManaged, g) = j
        /\ PipeCount((piped \cup destroys \cup leaked)', g) = m
    BY <1>3, <2>1, <2>2, <2>4 DEF surfaces, pipe
  <2>8. i + j + (l - x) + m = i + j + l + m - x OBVIOUS
  <2> QED BY <2>1, <2>2, <2>3, <2>4, <2>5, <2>6, <2>7, <2>8
<1>11. Referenced' = Minus(Referenced, Once(h)) BY <1>3, <1>5, <1>6, <1>10, SumsMinus DEF host
<1>12. TableInv(decColorBufferRefCountNoDestroy(fb, h), Minus(Referenced, Once(h)), now)
  BY <1>4, <1>9, NoDestroyTable
<1>13. ~GuestManaged =>
         DOMAIN decColorBufferRefCountNoDestroy(fb, h).bufs \subseteq 1 .. lastHandle'
  BY <1>3, NothingAdded DEF host
<1> QED BY <1>3, <1>6, <1>7, <1>8, <1>11, <1>12, <1>13, StepKeeps DEF host

(* Steps that leave the table and its references alone.                    *)
LEMMA QuietStep ==
  ASSUME IInv, StateTyped', PipeInv', fb' = fb, held' = held,
         UNCHANGED <<surfaces, posts, mode, lastHandle, now>>,
         (piped \cup destroys \cup leaked)' = piped \cup destroys \cup leaked
  PROVE  IInv'
<1> USE InvFacts
<1>1. GuestInv' BY DEF GuestInv, GuestManaged
<1>2. Referenced' = Referenced BY SumsSame DEF surfaces
<1> QED BY <1>1, <1>2, StepKeeps

LEMMA SubWindowStep ==
  ASSUME IInv, setupSubWindow \/ removeSubWindow
  PROVE  IInv'
<1>1. /\ subWin' \in BOOLEAN
      /\ UNCHANGED <<mode, fb, surfaces, held, pipe, posts, lastHandle, now, aborted>>
  BY DEF setupSubWindow, removeSubWindow
<1>2. StateTyped' BY <1>1, InvFacts DEF StateTyped, surfaces, pipe
<1>3. PipeInv' BY <1>1, InvFacts DEF PipeInv, pipe, RefCountPipe
<1> QED BY <1>1, <1>2, <1>3, QuietStep DEF pipe

(* The pipe's reference goes to the channel, or is lost.                   *)
LEMMA LastReferenceStep ==
  ASSUME IInv, NEW h \in Handles, onLastColorBufferRef(h)
  PROVE  IInv'
<1>1. /\ h \in piped /\ piped' = piped \ {h}
      /\ \/ destroys' = destroys \cup {h} /\ leaked' = leaked
         \/ leaked' = leaked \cup {h} /\ destroys' = destroys
      /\ UNCHANGED <<fb, surfaces, held, posts, host>>
  BY DEF onLastColorBufferRef
<1>2. StateTyped' BY <1>1, InvFacts DEF StateTyped, surfaces, host
<1>3. PipeInv'
  <2>1. PipeInv BY InvFacts
  <2> QED BY <1>1, <2>1 DEF PipeInv, host, RefCountPipe
<1>4. (piped \cup destroys \cup leaked)' = piped \cup destroys \cup leaked BY <1>1
<1> QED BY <1>1, <1>2, <1>3, <1>4, QuietStep DEF host

(* A sweep drops the references whose handles were sent.                   *)
Sent == [h \in Handles |-> IF h \in destroys THEN 1 ELSE 0]

LEMMA SweptTable ==
  ASSUME IInv
  PROVE  /\ Sent \in Counts /\ \A h \in Handles : Sent[h] <= Referenced[h]
         /\ TableInv(sweepColorBuffersLocked(fb), Minus(Referenced, Sent), now)
         /\ Minus(Referenced, Sent) \in Counts
         /\ \A h \in Handles : Minus(Referenced, Sent)[h] = Referenced[h] - Sent[h]
         /\ DOMAIN sweepColorBuffersLocked(fb).bufs \subseteq DOMAIN fb.bufs
         /\ \A h \in Handles :
              PipeCount(piped \cup leaked, h)
                = PipeCount(piped \cup destroys \cup leaked, h) - Sent[h]
<1> USE InvFacts
<1>1. Sent \in Counts /\ \A h \in Handles : Sent[h] = IF h \in destroys THEN 1 ELSE 0
  BY DEF Sent, Counts
<1>2. \A h \in Handles : PipeCount(piped \cup leaked, h)
                           = PipeCount(piped \cup destroys \cup leaked, h) - Sent[h]
  BY <1>1 DEF PipeCount, PipeInv
<1>3. ASSUME NEW h \in Handles PROVE Sent[h] <= Referenced[h]
  <2>1. PICK i \in Nat : i = OwnerCount(held, h) BY ReferencedCounts
  <2>2. PICK j \in Nat : j = WindowCount(windows, GuestManaged, h) BY ReferencedCounts
  <2>3. PICK l \in Nat : l = PostCount(posts, h) BY ReferencedCounts
  <2>4. PICK m \in Nat : m = PipeCount(piped \cup destroys \cup leaked, h) BY ReferencedCounts
  <2>5. PICK x \in Nat : x = Sent[h] BY <1>1 DEF Counts
  <2>6. x <= m BY <1>1, <2>4, <2>5 DEF PipeCount
  <2>7. Referenced[h] = OwnerCount(held, h) + WindowCount(windows, GuestManaged, h)
                        + PostCount(posts, h) + PipeCount(piped \cup destroys \cup leaked, h)
    BY ReferencedCounts
  <2>8. x <= i + j + l + m BY <2>6
  <2> QED BY <2>1, <2>2, <2>3, <2>4, <2>5, <2>7, <2>8
<1>4. sweepColorBuffersLocked(fb) = decColorBufferRefCountLocked(fb, Sent)
  BY DEF sweepColorBuffersLocked, Sent
<1>5. TableInv(sweepColorBuffersLocked(fb), Minus(Referenced, Sent), now)
  BY <1>1, <1>3, <1>4, DecTable
<1>6. DOMAIN sweepColorBuffersLocked(fb).bufs \subseteq DOMAIN fb.bufs
  BY <1>4, NothingAdded
<1>7. /\ Minus(Referenced, Sent) \in Counts
      /\ \A h \in Handles : Minus(Referenced, Sent)[h] = Referenced[h] - Sent[h]
  BY <1>1, <1>3, CountsMinus
<1> QED BY <1>1, <1>2, <1>3, <1>5, <1>6, <1>7

LEMMA SweepStep ==
  ASSUME IInv, sweepFromContext
  PROVE  IInv'
<1> USE InvFacts
<1>1. /\ fb' = sweepColorBuffersLocked(fb) /\ destroys' = {}
      /\ UNCHANGED <<surfaces, held, piped, leaked, posts, host>>
  BY DEF sweepFromContext
<1>2. StateTyped' BY <1>1 DEF StateTyped, surfaces, host
<1>3. PipeInv' BY <1>1 DEF PipeInv, host, RefCountPipe
<1>4. GuestInv' BY <1>1 DEF GuestInv, GuestManaged, host
<1>5. ASSUME NEW g \in Handles
      PROVE  OwnerCount(held', g) + WindowCount(windows', GuestManaged, g) + PostCount(posts', g)
               + PipeCount((piped \cup destroys \cup leaked)', g)
             = OwnerCount(held, g) + WindowCount(windows, GuestManaged, g) + PostCount(posts, g)
               + PipeCount(piped \cup destroys \cup leaked, g) - Sent[g]
  <2>1. PICK i \in Nat : i = OwnerCount(held, g) BY ReferencedCounts
  <2>2. PICK j \in Nat : j = WindowCount(windows, GuestManaged, g) BY ReferencedCounts
  <2>3. PICK l \in Nat : l = PostCount(posts, g) BY ReferencedCounts
  <2>4. PICK m \in Nat : m = PipeCount(piped \cup destroys \cup leaked, g) BY ReferencedCounts
  <2>5. PICK x \in Nat : x = Sent[g] BY SweptTable DEF Counts
  <2>6. PipeCount((piped \cup destroys \cup leaked)', g) = m - x
    <3>1. (piped \cup destroys \cup leaked)' = piped \cup leaked BY <1>1
    <3>2. PipeCount(piped \cup leaked, g) = m - x BY <2>4, <2>5, SweptTable
    <3> QED BY <3>1, <3>2
  <2>7. OwnerCount(held', g) = i /\ WindowCount(windows', GuestManaged, g) = j
        /\ PostCount(posts', g) = l
    BY <1>1, <2>1, <2>2, <2>3 DEF surfaces
  <2>8. i + j + l + (m - x) = i + j + l + m - x OBVIOUS
  <2> QED BY <2>1, <2>2, <2>3, <2>4, <2>5, <2>6, <2>7, <2>8
<1>6. Referenced' = Minus(Referenced, Sent) BY <1>1, <1>2, <1>5, SweptTable, SumsMinus DEF host
<1>7. ~GuestManaged => DOMAIN sweepColorBuffersLocked(fb).bufs \subseteq 1 .. lastHandle'
  BY <1>1, SweptTable DEF host
<1> QED BY <1>1, <1>2, <1>3, <1>4, <1>6, <1>7, SweptTable, StepKeeps DEF host

LEMMA TickStep ==
  ASSUME IInv, Tick
  PROVE  IInv'
<1> USE InvFacts
<1>1. /\ now < MaxTime /\ now' = now + 1
      /\ UNCHANGED <<mode, fb, surfaces, held, pipe, posts, subWin, lastHandle, aborted>>
  BY DEF Tick
<1>2. now' \in 0 .. MaxTime /\ now' \in Nat /\ now <= now' BY <1>1, BoundsAssumption
<1>3. StateTyped' BY <1>1, <1>2 DEF StateTyped, surfaces, pipe
<1>4. PipeInv' BY <1>1 DEF PipeInv, pipe, RefCountPipe
<1>5. GuestInv' BY <1>1 DEF GuestInv, GuestManaged
<1>6. HandlesInv' BY <1>1 DEF HandlesInv, GuestManaged, Live
<1>7. Referenced' = Referenced BY <1>1, <1>3, SumsSame DEF surfaces, pipe
<1>8. Listed(fb, now')
  <2>1. \A i \in 1 .. Len(fb.delayed) : fb.delayed[i].ts \in Nat /\ fb.delayed[i].ts <= now
    BY EntryFields DEF Listed
  <2>2. \A i \in 1 .. Len(fb.delayed) : fb.delayed[i].ts <= now' BY <1>2, <2>1
  <2> QED BY <2>2 DEF Listed
<1>9. TableInv(fb, Referenced, now)'
  BY <1>1, <1>7, <1>8 DEF TableInv, GuestManaged
<1> QED BY <1>3, <1>4, <1>5, <1>6, <1>9 DEF IInv

LEMMA CreateStep ==
  ASSUME IInv, NEW p \in Owners, createColorBuffer(p)
  PROVE  IInv'
<1> USE InvFacts
<1>1. PICK h : h = lastHandle + 1 OBVIOUS
<1>2. PICK S : S = sweepColorBuffersLocked(fb) OBVIOUS
<1>3. /\ ~GuestManaged /\ h \in Handles /\ lastHandle' = h
      /\ fb' = WithBuffer(S, h) /\ destroys' = {}
      /\ piped' = IF RefCountPipe THEN piped \cup {h} ELSE piped
      /\ held' = IF PreO /\ ~RefCountPipe THEN [held EXCEPT ![p][h] = 1] ELSE held
      /\ UNCHANGED <<mode, surfaces, leaked, posts, subWin, now, aborted>>
  BY <1>1, <1>2 DEF createColorBuffer
<1>4. lastHandle \in Nat /\ lastHandle' \in 0 .. MaxHandles /\ h \notin 1 .. lastHandle
      /\ 1 .. lastHandle' = (1 .. lastHandle) \cup {h}
  BY <1>1, <1>3, BoundsAssumption DEF StateTyped, Handles
<1>5. h \notin DOMAIN fb.bufs BY <1>3, <1>4
<1>6. Referenced[h] = 0 BY <1>3, <1>5 DEF Counted
<1>7. held \in [Owners -> Counts] BY DEF StateTyped
<1>8. OwnerCount(held, h) = 0 /\ PipeCount(piped \cup destroys \cup leaked, h) = 0
  <2>1. PICK i \in Nat : i = OwnerCount(held, h) BY <1>3, ReferencedCounts
  <2>2. PICK j \in Nat : j = WindowCount(windows, GuestManaged, h) BY <1>3, ReferencedCounts
  <2>3. PICK l \in Nat : l = PostCount(posts, h) BY <1>3, ReferencedCounts
  <2>4. PICK m \in Nat : m = PipeCount(piped \cup destroys \cup leaked, h)
    BY <1>3, ReferencedCounts
  <2>5. Referenced[h] = OwnerCount(held, h) + WindowCount(windows, GuestManaged, h)
                        + PostCount(posts, h) + PipeCount(piped \cup destroys \cup leaked, h)
    BY <1>3, ReferencedCounts
  <2>6. i + j + l + m = 0 BY <1>6, <2>1, <2>2, <2>3, <2>4, <2>5
  <2>7. i = 0 /\ m = 0 BY <2>6
  <2> QED BY <2>1, <2>4, <2>7
<1>9. h \notin piped /\ h \notin destroys /\ h \notin leaked BY <1>8 DEF PipeCount
<1>10. PICK x : x = Times(h, Creation) OBVIOUS
<1>11. Creation \in Nat /\ x \in Counts /\ \A g \in Handles : x[g] = IF g = h THEN Creation ELSE 0
  <2>1. Creation \in Nat BY DEF Creation
  <2> QED BY <1>10, <2>1 DEF Times, Counts
<1>12. ASSUME PreO /\ ~RefCountPipe
      PROVE  /\ held' \in [Owners -> Counts]
             /\ \A g \in Handles :
                  OwnerCount(held', g) + PipeCount((piped \cup destroys \cup leaked)', g)
                    = OwnerCount(held, g) + PipeCount(piped \cup leaked, g) + x[g]
  <2>1. ChangedEntry(held', held, p, h, 1) BY <1>3, <1>12 DEF ChangedEntry
  <2>2. /\ held' \in [Owners -> Counts]
        /\ \A g \in Handles :
             /\ OwnerCount(held', g) = OwnerCount(held, g) + (IF g = h THEN 1 - held[p][h] ELSE 0)
             /\ held[p][g] \in Nat /\ held[p][g] <= OwnerCount(held, g)
    BY <1>3, <1>7, <2>1, HeldEntry
  <2>3. held[p][h] = 0 BY <1>3, <1>8, <2>2
  <2>4. Creation = 1 BY <1>12 DEF Creation
  <2>5. \A g \in Handles : OwnerCount(held', g) = OwnerCount(held, g) + x[g]
    BY <1>11, <2>2, <2>3, <2>4
  <2>6. (piped \cup destroys \cup leaked)' = piped \cup leaked BY <1>3, <1>12
  <2>7. /\ held' \in [Owners -> Counts]
        /\ \A g \in Handles :
             OwnerCount(held', g) + PipeCount((piped \cup destroys \cup leaked)', g)
               = OwnerCount(held, g) + PipeCount(piped \cup leaked, g) + x[g]
    <3> SUFFICES ASSUME NEW g \in Handles
                 PROVE  OwnerCount(held', g) + PipeCount((piped \cup destroys \cup leaked)', g)
                          = OwnerCount(held, g) + PipeCount(piped \cup leaked, g) + x[g]
      BY <2>2
    <3>1. OwnerCount(held, g) \in Nat /\ PipeCount(piped \cup leaked, g) \in Nat /\ x[g] \in Nat
      BY <1>11, ReferencedCounts DEF PipeCount, Counts
    <3>2. PipeCount((piped \cup destroys \cup leaked)', g) = PipeCount(piped \cup leaked, g)
      BY <2>6
    <3>3. OwnerCount(held', g) = OwnerCount(held, g) + x[g] BY <2>5
    <3>4. \A i, j, k \in Nat : (i + k) + j = i + j + k OBVIOUS
    <3> QED BY <3>1, <3>2, <3>3, <3>4
  <2> QED BY <2>7
<1>13. ASSUME ~(PreO /\ ~RefCountPipe)
      PROVE  /\ held' \in [Owners -> Counts]
             /\ \A g \in Handles :
                  OwnerCount(held', g) + PipeCount((piped \cup destroys \cup leaked)', g)
                    = OwnerCount(held, g) + PipeCount(piped \cup leaked, g) + x[g]
  <2>1. held' = held BY <1>3, <1>13
  <2>2. ASSUME NEW g \in Handles
        PROVE  PipeCount((piped \cup destroys \cup leaked)', g)
                 = PipeCount(piped \cup leaked, g) + x[g]
    <3>1. CASE RefCountPipe
      <4>1. (piped \cup destroys \cup leaked)' = piped \cup leaked \cup {h} BY <1>3, <3>1
      <4>2. Creation = 1 BY <3>1 DEF Creation
      <4>3. PipeCount(piped \cup leaked \cup {h}, g) = PipeCount(piped \cup leaked, g) + x[g]
        BY <1>9, <1>11, <4>2 DEF PipeCount
      <4> QED BY <4>1, <4>3
    <3>2. CASE ~RefCountPipe
      <4>1. (piped \cup destroys \cup leaked)' = piped \cup leaked BY <1>3, <3>2
      <4>2. Creation = 0 BY <1>13, <3>2 DEF Creation
      <4>3. x[g] = 0 BY <1>11, <4>2
      <4>4. PICK j \in Nat : j = PipeCount(piped \cup leaked, g) BY DEF PipeCount
      <4>5. PipeCount(piped \cup leaked, g) = PipeCount(piped \cup leaked, g) + x[g]
        <5>1. j = j + 0 BY <4>4
        <5> QED BY <4>3, <4>4, <5>1
      <4>6. PipeCount((piped \cup destroys \cup leaked)', g) = PipeCount(piped \cup leaked, g)
        BY <4>1
      <4> QED BY <4>5, <4>6
    <3> QED BY <3>1, <3>2
  <2>3. ASSUME NEW g \in Handles
        PROVE  OwnerCount(held', g) + PipeCount((piped \cup destroys \cup leaked)', g)
                 = OwnerCount(held, g) + PipeCount(piped \cup leaked, g) + x[g]
    <3>1. PICK i \in Nat : i = OwnerCount(held, g) BY ReferencedCounts
    <3>2. PICK j \in Nat : j = PipeCount(piped \cup leaked, g) BY DEF PipeCount
    <3>3. PICK k \in Nat : k = x[g] BY <1>11 DEF Counts
    <3>4. PipeCount((piped \cup destroys \cup leaked)', g) = j + k BY <2>2, <3>2, <3>3
    <3>5. OwnerCount(held', g) = i BY <2>1, <3>1
    <3>6. i + (j + k) = i + j + k OBVIOUS
    <3> QED BY <3>1, <3>2, <3>3, <3>4, <3>5, <3>6
  <2> QED BY <1>7, <2>1, <2>3
<1>14. /\ held' \in [Owners -> Counts]
       /\ \A g \in Handles :
            OwnerCount(held', g) + PipeCount((piped \cup destroys \cup leaked)', g)
              = OwnerCount(held, g) + PipeCount(piped \cup leaked, g) + x[g]
  BY <1>12, <1>13
<1>15. StateTyped'
  <2>1. piped' \subseteq Handles BY <1>3 DEF StateTyped
  <2> QED BY <1>3, <1>4, <1>14, <2>1 DEF StateTyped, surfaces
<1>16. PipeInv' BY <1>3, <1>9 DEF PipeInv, RefCountPipe
<1>17. GuestInv' BY <1>3 DEF GuestInv, GuestManaged
<1>18. Referenced' = Plus(Minus(Referenced, Sent), x)
  <2> DEFINE d == [g \in Handles |-> x[g] - Sent[g]]
  <2>1. \A g \in Handles : x[g] \in Nat /\ Sent[g] \in Nat /\ Referenced[g] \in Nat
    BY <1>11, SweptTable DEF Counts
  <2>2. d \in [Handles -> Int] /\ \A g \in Handles : d[g] = x[g] - Sent[g] BY <2>1
  <2> HIDE DEF d
  <2>3. ASSUME NEW g \in Handles
        PROVE  OwnerCount(held', g) + WindowCount(windows', GuestManaged, g) + PostCount(posts', g)
                 + PipeCount((piped \cup destroys \cup leaked)', g)
               = OwnerCount(held, g) + WindowCount(windows, GuestManaged, g) + PostCount(posts, g)
                 + PipeCount(piped \cup destroys \cup leaked, g) + d[g]
    <3>1. PICK i \in Nat : i = OwnerCount(held, g) BY ReferencedCounts
    <3>2. PICK j \in Nat : j = WindowCount(windows, GuestManaged, g) BY ReferencedCounts
    <3>3. PICK l \in Nat : l = PostCount(posts, g) BY ReferencedCounts
    <3>4. PICK m \in Nat : m = PipeCount(piped \cup destroys \cup leaked, g) BY ReferencedCounts
    <3>5. PICK y \in Nat, s \in Nat : y = x[g] /\ s = Sent[g] BY <2>1
    <3>6. PipeCount(piped \cup leaked, g) = m - s BY <3>4, <3>5, SweptTable
    <3>7. WindowCount(windows', GuestManaged, g) = j /\ PostCount(posts', g) = l
      BY <1>3, <3>2, <3>3 DEF surfaces
    <3>8. PICK u \in Nat : u = PipeCount((piped \cup destroys \cup leaked)', g)
      BY DEF PipeCount
    <3>9. PICK o : o = OwnerCount(held', g) OBVIOUS
    <3>10. o \in Nat BY <1>14, <3>9, OwnersFinite
    <3>11. o + u = i + (m - s) + y BY <1>14, <3>1, <3>5, <3>6, <3>8, <3>9
    <3>12. o + j + l + u = i + j + l + m + (y - s) BY <3>10, <3>11
    <3>13. d[g] = y - s BY <2>2, <3>5
    <3> QED BY <3>1, <3>2, <3>3, <3>4, <3>7, <3>8, <3>9, <3>12, <3>13
  <2>4. Referenced' = [g \in Handles |-> Referenced[g] + d[g]]
    BY <1>3, <1>15, <2>2, <2>3, CountsChanged
  <2>5. \A g \in Handles : Referenced[g] + d[g] = Minus(Referenced, Sent)[g] + x[g]
    BY <2>1, <2>2, SweptTable
  <2> QED BY <2>4, <2>5 DEF Plus
<1>19. /\ TableInv(WithBuffer(S, h), Plus(Minus(Referenced, Sent), x), now)
       /\ DOMAIN WithBuffer(S, h).bufs = DOMAIN S.bufs \cup {h}
  <2>1. h \notin DOMAIN S.bufs BY <1>2, <1>5, SweptTable
  <2> QED BY <1>2, <1>3, <1>10, <2>1, SweptTable, WithBufferTable
<1>20. DOMAIN WithBuffer(S, h).bufs \subseteq 1 .. lastHandle'
  BY <1>2, <1>3, <1>4, <1>19, SweptTable
<1> QED BY <1>3, <1>15, <1>16, <1>17, <1>18, <1>19, <1>20, StepKeeps

LEMMA CreateWithHandleStep ==
  ASSUME IInv, NEW h \in Handles, createColorBufferWithHandle(h)
  PROVE  IInv'
<1> USE InvFacts
<1>1. /\ GuestManaged /\ held[0][h] = 0 /\ destroys' = {}
      /\ UNCHANGED <<mode, surfaces, piped, leaked, posts, subWin, lastHandle, now>>
  BY DEF createColorBufferWithHandle
<1>2. 0 \in Owners /\ ~RefCountPipe /\ ~PreO BY <1>1, ModeFacts
<1>3. destroys = {} /\ destroys' = destroys BY <1>1, <1>2 DEF PipeInv
<1>4. PipeInv' BY <1>1, <1>3 DEF PipeInv, RefCountPipe
<1>5. held \in [Owners -> Counts] BY DEF StateTyped
<1>6. CASE h \in Live
  <2>1. aborted' = TRUE /\ UNCHANGED <<fb, held>> BY <1>6 DEF createColorBufferWithHandle
  <2>2. StateTyped' BY <1>1, <1>3, <2>1 DEF StateTyped, surfaces
  <2> QED BY <1>1, <1>3, <1>4, <2>1, <2>2, QuietStep
<1>7. CASE h \notin Live
  <2>1. PICK S : S = sweepColorBuffersLocked(fb) OBVIOUS
  <2>2. PICK R : R = WithBuffer(S, h) OBVIOUS
  <2>3. /\ fb' = markOpened(R, h, 1) /\ held' = [held EXCEPT ![0][h] = 1]
        /\ UNCHANGED aborted
    BY <1>7, <2>1, <2>2 DEF createColorBufferWithHandle
  <2>4. ChangedEntry(held', held, 0, h, 1) BY <2>3 DEF ChangedEntry
  <2>5. /\ held' \in [Owners -> Counts]
        /\ \A g \in Handles :
             OwnerCount(held', g) = OwnerCount(held, g) + (IF g = h THEN 1 ELSE 0)
    <3>1. PICK p \in Owners, y \in Nat : p = 0 /\ y = 1 BY <1>2
    <3>2. ChangedEntry(held', held, p, h, y) BY <2>4, <3>1
    <3>3. /\ held' \in [Owners -> Counts]
          /\ \A g \in Handles :
               OwnerCount(held', g) = OwnerCount(held, g) + (IF g = h THEN y - held[p][h] ELSE 0)
      BY <1>5, <3>2, HeldEntry
    <3>4. y - held[p][h] = 1 BY <1>1, <3>1
    <3> QED BY <3>3, <3>4
  <2>6. StateTyped' BY <1>1, <2>3, <2>5, <1>3 DEF StateTyped, surfaces
  <2>7. Referenced' = Plus(Referenced, Times(h, 1))
    BY <1>1, <1>3, <2>5, <2>6, HeldPlus DEF surfaces
  <2>8. GuestInv'
    <3> SUFFICES ASSUME NEW q \in Owners \ {0} PROVE held'[q] = Zeros
      BY DEF GuestInv
    <3>1. held[q] = Zeros BY <1>1 DEF GuestInv
    <3> QED BY <1>5, <2>3, <3>1
  <2>9. Creation = 0 BY <1>2 DEF Creation
  <2>10. PICK s : s = Minus(Referenced, Sent) OBVIOUS
  <2>11. s = Referenced
    <3>1. \A g \in Handles : Sent[g] = 0 BY <1>3 DEF Sent
    <3>2. \A g \in Handles : Referenced[g] - Sent[g] = Referenced[g] BY <3>1 DEF Counts
    <3>3. Referenced = [g \in Handles |-> Referenced[g]] BY DEF Counts
    <3> QED BY <2>10, <3>2, <3>3 DEF Minus
  <2>12. /\ TableInv(S, Referenced, now) /\ h \notin DOMAIN S.bufs
    BY <1>7, <2>1, <2>10, <2>11, SweptTable
  <2>13. TableInv(R, Plus(Referenced, Times(h, Creation)), now) /\ h \in DOMAIN R.bufs
    BY <2>2, <2>12, WithBufferTable
  <2>14. Plus(Referenced, Times(h, Creation)) = Referenced
    <3>1. \A g \in Handles : Referenced[g] + Times(h, Creation)[g] = Referenced[g]
      BY <2>9 DEF Times, Counts
    <3>2. Referenced = [g \in Handles |-> Referenced[g]] BY DEF Counts
    <3> QED BY <3>1, <3>2 DEF Plus
  <2>15. TableInv(markOpened(R, h, 1), Plus(Referenced, Times(h, 1)), now)
    <3>1. Referenced[h] = 0 BY <2>12 DEF TableInv, Counted
    <3>2. Referenced[h] + 1 < RefMod BY <3>1, BoundsAssumption
    <3>3. TableInv(R, Referenced, now) BY <2>13, <2>14
    <3> QED BY <2>13, <3>2, <3>3, OpenTable
  <2> QED BY <1>1, <1>4, <2>3, <2>6, <2>7, <2>8, <2>15, StepKeeps
<1> QED BY <1>6, <1>7

-----------------------------------------------------------------------------
(***************************************************************************)
(* The theorems.                                                           *)
(***************************************************************************)
LEMMA StepInv == IInv /\ [Next]_vars => IInv'
<1> SUFFICES ASSUME IInv, [Next]_vars PROVE IInv' OBVIOUS
<1>1. ASSUME NEW p \in Owners, createColorBuffer(p) PROVE IInv' BY <1>1, CreateStep
<1>2. ASSUME NEW p \in Owners, cleanupProcGLObjects(p) PROVE IInv' BY <1>2, CleanupStep
<1>3. ASSUME NEW p \in Owners, NEW h \in Handles, openColorBuffer(p, h) PROVE IInv'
  BY <1>3, OpenStep
<1>4. ASSUME NEW p \in Owners, NEW h \in Handles, closeColorBuffer(p, h) PROVE IInv'
  BY <1>4, CloseStep
<1>5. ASSUME NEW p \in Owners, NEW w \in Windows, createEmulatedEglWindowSurface(p, w)
      PROVE  IInv'
  BY <1>5, CreateWindowStep
<1>6. ASSUME NEW p \in Owners, NEW w \in Windows, destroyEmulatedEglWindowSurface(p, w)
      PROVE  IInv'
  BY <1>6, DestroyWindowStep
<1>7. ASSUME NEW h \in Handles, createColorBufferWithHandle(h) PROVE IInv'
  BY <1>7, CreateWithHandleStep
<1>8. ASSUME NEW h \in Handles, postImpl(h) PROVE IInv' BY <1>8, PostStep
<1>9. ASSUME NEW h \in Handles, onLastColorBufferRef(h) PROVE IInv'
  BY <1>9, LastReferenceStep
<1>10. ASSUME NEW h \in Handles, NEW w \in Windows, setEmulatedEglWindowSurfaceColorBuffer(w, h)
       PROVE  IInv'
  BY <1>10, SetWindowStep
<1>11. ASSUME drainGlRenderThreadSurfaces PROVE IInv' BY <1>11, DrainStep
<1>12. ASSUME setupSubWindow \/ removeSubWindow PROVE IInv' BY <1>12, SubWindowStep
<1>13. ASSUME sweepFromContext PROVE IInv' BY <1>13, SweepStep
<1>14. ASSUME postWorkerFunc PROVE IInv' BY <1>14, PostWorkerStep
<1>15. ASSUME Tick PROVE IInv' BY <1>15, TickStep
<1>16. ASSUME UNCHANGED vars PROVE IInv'
  <2>1. StateTyped' BY <1>16, InvFacts DEF StateTyped, vars, surfaces, pipe, host
  <2>2. PipeInv' BY <1>16, InvFacts DEF PipeInv, vars, pipe, host, RefCountPipe
  <2> QED BY <1>16, <2>1, <2>2, QuietStep DEF vars, surfaces, pipe, host
<1> QED
  BY <1>1, <1>2, <1>3, <1>4, <1>5, <1>6, <1>7, <1>8, <1>9, <1>10, <1>11, <1>12,
     <1>13, <1>14, <1>15, <1>16 DEF Next, Call

LEMMA InductiveInvariant == Spec => []IInv
BY InitInv, StepInv, PTL DEF Spec

(* What refers to a handle is what was counted.                            *)
LEMMA HoldersCounted ==
  ASSUME IInv, NEW h \in Handles
  PROVE  /\ IsFiniteSet(Holders(h)) /\ Cardinality(Holders(h)) = Referenced[h]
<1> USE InvFacts
<1>1. Holders(h)
        = AllRefs(held, windows, posts, piped \cup destroys \cup leaked, GuestManaged, h)
  BY DEF Holders, OwnerRefs, WindowRefs, PostRefs, PipeRefs, AllRefs, OwnerSet, WindowSet,
         Showing, PostSet
<1>2. /\ held \in [Owners -> Counts] /\ DOMAIN windows \subseteq Windows
      /\ posts \in Seq(Handles)
  BY DEF StateTyped
<1>3. GuestManaged \in BOOLEAN BY ModeFacts
<1> QED BY <1>1, <1>2, <1>3, TotalCounts DEF Referenced

(* The variables of FrameBuffer keep their types.                          *)
THEOREM Typing == Spec => []TypeOK
<1>1. IInv => TypeOK
  <2> SUFFICES ASSUME IInv PROVE TypeOK OBVIOUS
  <2>1. StateTyped /\ TableTyped(fb) BY InvFacts
  <2>2. held \in [Owners -> [Handles -> Nat]] BY <2>1 DEF StateTyped, Counts
  <2> QED BY <2>1, <2>2 DEF TypeOK, StateTyped, TableTyped
<1> QED BY <1>1, InductiveInvariant, PTL

(* The count of a buffer is the number of things that refer to it, for any *)
(* number of processes, surfaces and queued frames: closing, rebinding,    *)
(* process cleanup, posting and sweeping neither drop a reference twice    *)
(* nor forget one.                                                         *)
THEOREM CountIsExact == Spec => []RefcountExact
<1>1. IInv => RefcountExact
  <2> SUFFICES ASSUME IInv, NEW h \in Live
               PROVE  fb.bufs[h].refcount = Cardinality(Holders(h))
    BY DEF RefcountExact
  <2>1. h \in Handles /\ h \in DOMAIN fb.bufs BY InvFacts DEF TableTyped
  <2>2. fb.bufs[h].refcount = Referenced[h] BY <2>1, InvFacts DEF Counted
  <2> QED BY <2>1, <2>2, HoldersCounted
<1> QED BY <1>1, InductiveInvariant, PTL

(* A buffer something refers to is in the table, so the frame that the     *)
(* post worker takes from its queue is still there.                        *)
THEOREM NothingDangles == Spec => []ReferencedStaysAlive
<1>1. IInv => ReferencedStaysAlive
  <2> SUFFICES ASSUME IInv, NEW h \in Handles, Holders(h) # {} PROVE h \in Live
    BY DEF ReferencedStaysAlive
  <2>1. IsFiniteSet(Holders(h)) /\ Cardinality(Holders(h)) = Referenced[h] BY HoldersCounted
  <2>2. Referenced[h] # 0 BY <2>1, FS_EmptySet
  <2> QED BY <2>2, InvFacts DEF Counted
<1> QED BY <1>1, InductiveInvariant, PTL

(* The delayed list names each unused buffer that was opened or closed     *)
(* once, at the time of its closing, and no buffer in use: what the        *)
(* collector erases is never referred to.                                  *)
THEOREM CollectorTakesUnused == Spec => []DelayedExactly
<1>1. IInv => DelayedExactly
  <2> SUFFICES ASSUME IInv, NEW h \in Handles
               PROVE  /\ \A i \in Delayed(h) : /\ h \in Live
                                               /\ fb.bufs[h].refcount = 0
                                               /\ fb.bufs[h].closedTs = fb.delayed[i].ts
                      /\ \A i, j \in Delayed(h) : i = j
                      /\ /\ ~GuestManaged
                         /\ h \in Live /\ fb.bufs[h].opened /\ fb.bufs[h].refcount = 0
                         => Delayed(h) # {}
    BY DEF DelayedExactly
  <2>1. h # 0 BY DEF Handles
  <2>2. Listed(fb, now) BY InvFacts
  <2>3. \A i \in Delayed(h) : Unused(fb, fb.delayed[i]) /\ fb.delayed[i].cb = h
    BY <2>1, <2>2 DEF Delayed, Listed
  <2>4. \A i, j \in Delayed(h) : i = j BY <2>1, <2>2 DEF Delayed, Listed
  <2>5. ASSUME ~GuestManaged, h \in Live, fb.bufs[h].opened, fb.bufs[h].refcount = 0
        PROVE  Delayed(h) # {}
    <3>1. Complete(fb) BY <2>5 DEF IInv, TableInv
    <3> QED BY <2>5, <3>1, InvFacts DEF Complete, Delayed
  <2> QED BY <2>3, <2>4, <2>5, InvFacts DEF Unused
<1> QED BY <1>1, InductiveInvariant, PTL

-----------------------------------------------------------------------------
(***************************************************************************)
(* Ids that the guest gives out are free: without a window no frame is     *)
(* queued, and a guest-managed host keeps no buffer that nobody refers to. *)
(***************************************************************************)
AllUsed(S) == \A h \in DOMAIN S.bufs : S.bufs[h].refcount # 0

HeadlessInv ==
  /\ aborted => GuestManaged /\ UseSubWindow
  /\ GuestManaged /\ ~UseSubWindow => posts = <<>> /\ ~subWin /\ AllUsed(fb)

(* References that go leave no buffer behind that nobody refers to: those  *)
(* whose last one goes are dropped with it.                                *)
LEMMA DecUsed ==
  ASSUME NEW S, NEW c \in Counts, NEW n \in Counts, TableTyped(S), Counted(S, c),
         \A h \in Handles : n[h] <= c[h], AllUsed(S),
         NEW h \in DOMAIN Without(Decremented(S.bufs, n), LastClosed(S, n))
  PROVE  Without(Decremented(S.bufs, n), LastClosed(S, n))[h].refcount # 0
<1> DEFINE dec == Decremented(S.bufs, n)  last == LastClosed(S, n)
<1>1. /\ DOMAIN dec = DOMAIN S.bufs
      /\ \A g \in DOMAIN S.bufs : dec[g].refcount = c[g] - n[g]
      /\ last = {g \in DOMAIN S.bufs : n[g] > 0 /\ c[g] = n[g]}
  BY DecrementedBufs
<1> HIDE DEF dec, last
<1>2. h \in DOMAIN dec \ last /\ Without(dec, last)[h] = dec[h] BY DEF Without, Restrict, dec, last
<1>3. h \in Handles /\ c[h] \in Nat /\ n[h] \in Nat /\ n[h] <= c[h] /\ c[h] # 0
  BY <1>1, <1>2 DEF TableTyped, Counted, Counts, AllUsed
<1>4. c[h] - n[h] # 0 BY <1>1, <1>2, <1>3
<1> QED BY <1>1, <1>2, <1>4 DEF dec, last

(* So with a close that keeps nothing for later (NoDelayClose).             *)
LEMMA CloseUsed ==
  ASSUME NEW S, NEW c \in Counts, NEW n \in Counts, TableTyped(S), Counted(S, c),
         \A h \in Handles : n[h] <= c[h], AllUsed(S), NoDelayClose, NEW order
  PROVE  AllUsed(closeColorBufferLocked(S, n, FALSE, order))
<1> DEFINE left == Without(Decremented(S.bufs, n), LastClosed(S, n))
           closed == [bufs |-> left,
                      delayed |-> eraseDelayedCloseColorBufferLocked(S.delayed, S.bufs,
                                                                     LastClosed(S, n))]
           R == performDelayedColorBufferCloseLocked(closed, FALSE)
<1>1. \/ closeColorBufferLocked(S, n, FALSE, order) = S
      \/ closeColorBufferLocked(S, n, FALSE, order) = R
  BY DEF closeColorBufferLocked, Forced
<1>2. AllUsed(R)
  <2>1. PICK X : R.bufs = Without(closed.bufs, X) BY DEF performDelayedColorBufferCloseLocked
  <2>2. closed.bufs = left OBVIOUS
  <2>3. \A h \in DOMAIN left : left[h].refcount # 0 BY DecUsed
  <2> HIDE DEF left, closed, R
  <2> QED BY <2>1, <2>2, <2>3 DEF AllUsed, Without, Restrict
<1> QED BY <1>1, <1>2

(* Every step keeps it; only the host modes without a window have work.    *)
LEMMA HeadlessStep ==
  ASSUME IInv, HeadlessInv, Next
  PROVE  HeadlessInv'
<1> USE InvFacts
<1>1. mode' = mode /\ ~aborted
  BY DEF Next, Call, createColorBuffer, cleanupProcGLObjects, openColorBuffer, closeColorBuffer,
         createEmulatedEglWindowSurface, destroyEmulatedEglWindowSurface,
         createColorBufferWithHandle, postImpl, onLastColorBufferRef,
         setEmulatedEglWindowSurfaceColorBuffer, drainGlRenderThreadSurfaces, setupSubWindow,
         removeSubWindow, sweepFromContext, postWorkerFunc, Tick, host
<1>2. GuestManaged' = GuestManaged /\ UseSubWindow' = UseSubWindow
  BY <1>1 DEF GuestManaged, UseSubWindow
<1>3. CASE ~GuestManaged
  <2>1. ~aborted'
    BY <1>1, <1>3
    DEF Next, Call, createColorBuffer, cleanupProcGLObjects, openColorBuffer, closeColorBuffer,
         createEmulatedEglWindowSurface, destroyEmulatedEglWindowSurface,
         createColorBufferWithHandle, postImpl, onLastColorBufferRef,
         setEmulatedEglWindowSurfaceColorBuffer, drainGlRenderThreadSurfaces, setupSubWindow,
         removeSubWindow, sweepFromContext, postWorkerFunc, Tick, host
  <2> QED BY <1>2, <1>3, <2>1 DEF HeadlessInv
<1>4. CASE GuestManaged /\ UseSubWindow BY <1>2, <1>4 DEF HeadlessInv
<1>5. CASE GuestManaged /\ ~UseSubWindow
  <2>1. /\ posts = <<>> /\ ~subWin /\ AllUsed(fb) /\ NoDelayClose /\ ~RefCountPipe /\ ~PreO
        /\ piped = {} /\ destroys = {} /\ leaked = {} /\ 0 \in Owners
    BY <1>5, ModeFacts DEF HeadlessInv, PipeInv
  <2> SUFFICES ~aborted' /\ posts' = <<>> /\ ~subWin' /\ AllUsed(fb') BY <1>2 DEF HeadlessInv
  <2>2. ASSUME NEW p \in Owners, NEW h \in Handles, closeColorBuffer(p, h)
        PROVE  ~aborted' /\ posts' = <<>> /\ ~subWin' /\ AllUsed(fb')
    <3>1. PICK order \in Orders(LastClosed(fb, Once(h))) :
            fb' = closeColorBufferLocked(fb, Once(h), FALSE, order)
      BY <2>2 DEF closeColorBuffer
    <3>2. /\ held[p][h] > 0 /\ UNCHANGED <<posts, host>> BY <2>2 DEF closeColorBuffer
    <3>3. Once(h) \in Counts BY TimesCounts
    <3>4. \A g \in Handles : Once(h)[g] <= Referenced[g]
      <4> SUFFICES ASSUME NEW g \in Handles PROVE Once(h)[g] <= Referenced[g] OBVIOUS
      <4>1. Referenced[g] \in Nat BY DEF Counts
      <4>2. held \in [Owners -> Counts] BY DEF StateTyped
      <4>3. held[p][h] \in Nat /\ held[p][h] <= OwnerCount(held, h)
        <5>1. PICK G : ChangedEntry(G, held, p, h, 0) BY DEF ChangedEntry
        <5>2. 0 \in Nat OBVIOUS
        <5> QED BY <4>2, <5>1, <5>2, HeldEntry
      <4>4. OwnerCount(held, h) \in Nat /\ OwnerCount(held, h) <= Referenced[h]
        BY ReferencedCounts
      <4>5. CASE g = h
        <5>1. Once(h)[g] = 1 BY <4>5 DEF Once
        <5> QED BY <3>2, <4>1, <4>3, <4>4, <4>5, <5>1
      <4>6. CASE g # h
        <5>1. Once(h)[g] = 0 BY <4>6 DEF Once
        <5> QED BY <4>1, <5>1
      <4> QED BY <4>5, <4>6
    <3>5. AllUsed(fb') BY <2>1, <3>1, <3>3, <3>4, CloseUsed
    <3> QED BY <1>1, <2>1, <3>2, <3>5 DEF host
  <2>3. ASSUME NEW h \in Handles, createColorBufferWithHandle(h)
        PROVE  ~aborted' /\ posts' = <<>> /\ ~subWin' /\ AllUsed(fb')
    <3>1. h \notin Live
      <4> SUFFICES ASSUME h \in Live PROVE FALSE OBVIOUS
      <4>1. held[0][h] = 0 BY <2>3 DEF createColorBufferWithHandle
      <4>2. \A q \in Owners : held[q][h] = 0
        BY <1>5, <4>1, NoneHeld DEF GuestInv
      <4>3. Holders(h) = {}
        <5>1. OwnerRefs(h) = {} BY <4>2 DEF OwnerRefs
        <5>2. WindowRefs(h) = {} BY <1>5 DEF WindowRefs
        <5>3. PostRefs(h) = {} /\ PipeRefs(h) = {} BY <2>1 DEF PostRefs, PipeRefs
        <5> QED BY <5>1, <5>2, <5>3 DEF Holders
      <4>4. Referenced[h] = 0 BY <4>3, HoldersCounted, FS_EmptySet
      <4> QED BY <2>1, <4>4 DEF AllUsed, Counted, Live
    <3>2. PICK S : S = sweepColorBuffersLocked(fb) OBVIOUS
    <3>3. PICK R : R = WithBuffer(S, h) OBVIOUS
    <3>4. fb' = markOpened(R, h, 1) /\ UNCHANGED <<posts, subWin, aborted>>
      BY <2>3, <3>1, <3>2, <3>3 DEF createColorBufferWithHandle
    <3>5. PICK s \in Counts : /\ s = Sent
                              /\ TableTyped(S) /\ AllUsed(S) /\ h \notin DOMAIN S.bufs
      <4>1. /\ Sent \in Counts /\ \A g \in Handles : Sent[g] <= Referenced[g]
            /\ TableInv(S, Minus(Referenced, Sent), now)
            /\ DOMAIN S.bufs \subseteq DOMAIN fb.bufs
        BY <3>2, SweptTable
      <4>2. S.bufs = Without(Decremented(fb.bufs, Sent), LastClosed(fb, Sent))
        BY <3>2 DEF sweepColorBuffersLocked, decColorBufferRefCountLocked, Sent
      <4>3. AllUsed(S) BY <2>1, <4>1, <4>2, DecUsed DEF AllUsed
      <4> QED BY <3>1, <4>1, <4>3 DEF TableInv, Live
    <3>6. /\ DOMAIN R.bufs = DOMAIN S.bufs \cup {h}
          /\ \A g \in DOMAIN S.bufs : R.bufs[g] = S.bufs[g]
          /\ R.bufs[h].refcount = 0
      <4>1. S = [bufs |-> S.bufs, delayed |-> S.delayed] BY <3>5 DEF TableTyped
      <4>2. R.bufs = [g \in DOMAIN S.bufs \cup {h} |->
                        IF g = h THEN [refcount |-> 0, opened |-> FALSE, closedTs |-> 0]
                                 ELSE S.bufs[g]]
        BY <2>1, <3>3, <4>1 DEF WithBuffer
      <4> QED BY <3>5, <4>2
    <3>7. /\ DOMAIN fb'.bufs = DOMAIN S.bufs \cup {h}
          /\ \A g \in DOMAIN S.bufs : fb'.bufs[g] = S.bufs[g]
          /\ fb'.bufs[h].refcount = 1
      <4>1. (0 + 1) % RefMod = 1 BY BoundsAssumption
      <4>2. fb'.bufs = [R.bufs EXCEPT ![h] = [refcount |-> (R.bufs[h].refcount + 1) % RefMod,
                                              opened |-> TRUE, closedTs |-> 0]]
        BY <3>4 DEF markOpened
      <4> QED BY <3>5, <3>6, <4>1, <4>2
    <3>8. AllUsed(fb') BY <3>5, <3>7 DEF AllUsed
    <3> QED BY <1>1, <2>1, <3>4, <3>8
  <2>4. ASSUME NEW h \in Handles, postImpl(h)
        PROVE  ~aborted' /\ posts' = <<>> /\ ~subWin' /\ AllUsed(fb')
    <3> DEFINE S == markOpened(fb, h, 1)  c == Plus(Referenced, Times(h, 1))
    <3>1. /\ h \in DOMAIN fb.bufs /\ fb.bufs[h].refcount < MaxRefs
          /\ fb' = decColorBufferRefCountLocked(S, Once(h)) /\ UNCHANGED <<posts, host>>
      BY <2>1, <2>4 DEF postImpl, WithinBounds, Live
    <3>2. /\ fb.bufs[h].refcount = Referenced[h] /\ Referenced[h] \in Nat /\ h \in Handles
          /\ Referenced[h] + 1 < RefMod
      BY <3>1, BoundsAssumption DEF Counted, Counts
    <3>3. TableInv(S, c, now) BY <3>1, <3>2, OpenTable
    <3>4. /\ Times(h, 1) \in Counts /\ Once(h) = Times(h, 1)
          /\ \A g \in Handles : Times(h, 1)[g] = IF g = h THEN 1 ELSE 0
      BY DEF Times, Once, Counts
    <3>5. c \in Counts /\ \A g \in Handles : c[g] = Referenced[g] + Times(h, 1)[g]
      BY <3>4, CountsPlus
    <3>6. \A g \in Handles : Referenced[g] \in Nat BY DEF Counts
    <3>7. AllUsed(S)
      <4>1. /\ DOMAIN S.bufs = DOMAIN fb.bufs
            /\ \A g \in DOMAIN fb.bufs : g # h => S.bufs[g] = fb.bufs[g]
            /\ S.bufs[h].refcount = (fb.bufs[h].refcount + 1) % RefMod
        BY <3>1 DEF markOpened
      <4>2. (fb.bufs[h].refcount + 1) % RefMod # 0
        <5>1. fb.bufs[h].refcount + 1 \in 0 .. RefMod - 1 BY <3>2, BoundsAssumption
        <5> QED BY <3>2, <5>1, SmallMod
      <4> HIDE DEF S
      <4> QED BY <2>1, <4>1, <4>2 DEF AllUsed
    <3> HIDE DEF S, c
    <3>8. \A g \in Handles : Once(h)[g] <= c[g] BY <3>4, <3>5, <3>6
    <3>9. fb'.bufs = Without(Decremented(S.bufs, Once(h)), LastClosed(S, Once(h)))
      <4>1. S = [bufs |-> S.bufs, delayed |-> S.delayed] BY <3>3 DEF TableInv, TableTyped
      <4> QED BY <3>1, <4>1 DEF decColorBufferRefCountLocked
    <3>10. AllUsed(fb') BY <3>3, <3>4, <3>5, <3>7, <3>8, <3>9, DecUsed DEF AllUsed, TableInv
    <3> QED BY <1>1, <2>1, <3>1, <3>10 DEF host
  <2>5. ASSUME NEW w \in Windows, NEW h \in Handles, setEmulatedEglWindowSurfaceColorBuffer(w, h)
        PROVE  ~aborted' /\ posts' = <<>> /\ ~subWin' /\ AllUsed(fb')
    <3>1. /\ fb' = markOpened(fb, h, 0) /\ h \in DOMAIN fb.bufs /\ UNCHANGED <<posts, host>>
      BY <1>5, <2>5 DEF setEmulatedEglWindowSurfaceColorBuffer, Release, Live
    <3>2. /\ DOMAIN fb'.bufs = DOMAIN fb.bufs
          /\ \A g \in DOMAIN fb.bufs : g # h => fb'.bufs[g] = fb.bufs[g]
          /\ fb'.bufs[h].refcount = (fb.bufs[h].refcount + 0) % RefMod
      BY <3>1 DEF markOpened
    <3>3. (fb.bufs[h].refcount + 0) % RefMod = fb.bufs[h].refcount
      <4>1. PICK x \in 0 .. RefMod - 1 : x = fb.bufs[h].refcount BY <3>1, BufferFields
      <4>2. x + 0 = x BY BoundsAssumption
      <4> QED BY <4>1, <4>2, SmallMod
    <3>4. AllUsed(fb') BY <2>1, <3>2, <3>3 DEF AllUsed
    <3> QED BY <1>1, <2>1, <3>1, <3>4 DEF host
  <2>6. ASSUME fb' = fb /\ UNCHANGED <<posts, subWin, aborted>>
        PROVE  ~aborted' /\ posts' = <<>> /\ ~subWin' /\ AllUsed(fb')
    BY <1>1, <2>1, <2>6
  <2>7. ASSUME NEW p \in Owners, NEW w \in Windows,
               \/ createEmulatedEglWindowSurface(p, w) \/ destroyEmulatedEglWindowSurface(p, w)
        PROVE  fb' = fb /\ UNCHANGED <<posts, subWin, aborted>>
    BY <1>5, <2>7
    DEF createEmulatedEglWindowSurface, destroyEmulatedEglWindowSurface, Release, host
  <2>8. ASSUME NEW p \in Owners, cleanupProcGLObjects(p)
        PROVE  fb' = fb /\ UNCHANGED <<posts, subWin, aborted>>
    BY <1>5, <2>8 DEF cleanupProcGLObjects, Release, host
  <2>9. ASSUME drainGlRenderThreadSurfaces \/ Tick
        PROVE  fb' = fb /\ UNCHANGED <<posts, subWin, aborted>>
    BY <1>5, <2>9 DEF drainGlRenderThreadSurfaces, Tick, Release, host
  <2>10. /\ \A p \in Owners : ~createColorBuffer(p)
         /\ \A p \in Owners, h \in Handles : ~openColorBuffer(p, h)
         /\ \A h \in Handles : ~onLastColorBufferRef(h)
         /\ ~setupSubWindow /\ ~removeSubWindow /\ ~sweepFromContext /\ ~postWorkerFunc
    BY <1>5, <2>1 DEF createColorBuffer, openColorBuffer, onLastColorBufferRef, setupSubWindow,
                      removeSubWindow, sweepFromContext, postWorkerFunc
  <2> QED
    BY <2>2, <2>3, <2>4, <2>5, <2>6, <2>7, <2>8, <2>9, <2>10 DEF Next, Call
<1> QED BY <1>3, <1>4, <1>5, ModeFacts

(* Without a window on the host, the id of a new virtio-gpu resource is    *)
(* free once the guest has let go of it: creating the buffer never aborts. *)
THEOREM FreedIdsAreFree == Spec => []HeadlessReuse
<1>1. Init => HeadlessInv
  BY DEF Init, HeadlessInv, AllUsed
<1>2. IInv /\ HeadlessInv /\ [Next]_vars => HeadlessInv'
  <2>1. CASE UNCHANGED vars
    BY <2>1 DEF HeadlessInv, AllUsed, vars, host, GuestManaged, UseSubWindow
  <2> QED BY <2>1, HeadlessStep
<1>3. HeadlessInv => HeadlessReuse BY DEF HeadlessInv, HeadlessReuse
<1> QED BY <1>1, <1>2, <1>3, InductiveInvariant, PTL DEF Spec
=============================================================================
