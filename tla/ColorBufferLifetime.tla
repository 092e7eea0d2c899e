------------------------ MODULE ColorBufferLifetime -------------------------
(***************************************************************************)
(* host/FrameBuffer.cpp: the table of color buffers, their reference       *)
(* counts, and the list of buffers whose removal is delayed.               *)
(*                                                                         *)
(* References come from guest processes (openColorBuffer), from window     *)
(* surfaces (a surface refers to the buffer it renders to), from frames    *)
(* queued to the post worker, and, with the RefCountPipe feature, from the *)
(* guest's pipe.  The guest and the render threads call under m_lock, so   *)
(* one call is one action; the post worker drops its reference under       *)
(* m_colorBufferMapLock alone, on its own thread, some time later.         *)
(*                                                                         *)
(* Every public method returns early once m_shuttingDown is set, and on an *)
(* unknown handle; those calls change nothing and are stuttering steps.    *)
(*                                                                         *)
(* Two things are assumed of the guest that the code does not check.  A    *)
(* thread without a puid closes a buffer no more often than it opened it,  *)
(* and a guest that manages the buffers itself makes and opens them with   *)
(* resources only, not with createColorBuffer and openColorBuffer.         *)
(***************************************************************************)
EXTENDS Integers, Sequences, FiniteSets, Functions

CONSTANTS
  MaxHandles,       \* bound: handles given out (genHandle_locked does not wrap)
  Windows,          \* window surfaces
  Owners,           \* puids; 0 is a thread without one
  Modes,            \* the feature sets a host can be started with
  DestroyCapacity,  \* kMaxOutstandingColorBufferDestroys of the channel
  RefMod,           \* refcount is an unsigned of that many values
  MaxRefs,          \* bound: references to one buffer
  MaxDelayed,       \* bound: the list's length when a buffer is taken back
  MaxPosts,         \* bound: frames queued to the post worker
  MaxTime           \* bound: the clock

ASSUME BoundsAssumption ==
  /\ MaxHandles \in Nat /\ MaxTime \in Nat /\ MaxPosts \in Nat
  /\ MaxDelayed \in Nat
  /\ MaxRefs \in Nat /\ RefMod \in Nat /\ MaxRefs + 1 < RefMod
  /\ DestroyCapacity \in Nat
ASSUME OwnersAssumption == Owners \subseteq Nat /\ IsFiniteSet(Owners)
ASSUME WindowsAssumption == IsFiniteSet(Windows)

(* The features the code reads once, when the FrameBuffer is made (the     *)
(* last of them when the first virtio-gpu resource is).                    *)
Mode == [refCountPipe : BOOLEAN,   \* m_refCountPipeEnabled
         noDelayClose : BOOLEAN,   \* m_noDelayCloseColorBufferEnabled
         preO : BOOLEAN,           \* 0 < apiLevel < 26
         useSubWindow : BOOLEAN,   \* m_useSubWindow
         guestManaged : BOOLEAN]   \* m_guestManagedColorBufferLifetime

(* Only the virtio-gpu renderer lets the guest manage the buffers, and it  *)
(* sets the features: RefCountPipe is off and NoDelayCloseColorBuffer on   *)
(* (virtio-gpu-gfxstream-renderer.cpp:2085).                               *)
ASSUME ModesAssumption ==
  /\ Modes \subseteq Mode
  /\ \A m \in Modes :
       m.guestManaged => /\ 0 \in Owners /\ m.noDelayClose
                         /\ ~m.refCountPipe /\ ~m.preO

VARIABLES
  mode,         \* the features of this host
  fb,           \* bufs: m_colorbuffers; delayed: m_colorBufferDelayedCloseList
  windows,      \* m_windows: existing surface -> its color buffer, 0 for none
  windowsOf,    \* m_procOwnedEmulatedEglWindowSurfaces, and m_windowSet for 0
  held,         \* m_procOwnedColorBuffers; for 0, what the guest still holds
  piped,        \* handles the guest's pipe still refers to
  destroys,     \* mOutstandingColorBufferDestroys
  leaked,       \* handles onLastColorBufferRef could not send
  posts,        \* m_postThread's queue of PostCmd::Post
  subWin,       \* m_subWin # 0
  lastHandle,   \* s_nextHandle
  now,          \* getUnixTimeUs
  aborted       \* GFXSTREAM_ABORT: the handle is in use

surfaces == <<windows, windowsOf>>
pipe == <<piped, destroys, leaked>>
host == <<mode, subWin, lastHandle, now, aborted>>
vars == <<fb, surfaces, held, pipe, posts, host>>

RefCountPipe == mode.refCountPipe
NoDelayClose == mode.noDelayClose
PreO == mode.preO
UseSubWindow == mode.useSubWindow
GuestManaged == mode.guestManaged

Handles == 1 .. MaxHandles
ColorBufferRef ==
  [refcount : 0 .. RefMod - 1, opened : BOOLEAN, closedTs : 0 .. MaxTime]
CloseInfo == [ts : 0 .. MaxTime, cb : Handles \cup {0}]

TypeOK ==
  /\ mode \in Modes
  /\ DOMAIN fb.bufs \subseteq Handles
  /\ fb.bufs \in [DOMAIN fb.bufs -> ColorBufferRef]
  /\ fb.delayed \in Seq(CloseInfo)
  /\ DOMAIN windows \subseteq Windows
  /\ windows \in [DOMAIN windows -> Handles \cup {0}]
  /\ windowsOf \in [Owners -> SUBSET Windows]
  /\ held \in [Owners -> [Handles -> Nat]]
  /\ piped \subseteq Handles /\ destroys \subseteq Handles
  /\ leaked \subseteq Handles
  /\ posts \in Seq(Handles)
  /\ subWin \in BOOLEAN
  /\ lastHandle \in 0 .. MaxHandles
  /\ now \in 0 .. MaxTime
  /\ aborted \in BOOLEAN

Live == DOMAIN fb.bufs

Init ==
  /\ mode \in Modes
  /\ fb = [bufs |-> <<>>, delayed |-> <<>>]
  /\ windows = <<>>
  /\ windowsOf = [p \in Owners |-> {}]
  /\ held = [p \in Owners |-> [h \in Handles |-> 0]]
  /\ piped = {} /\ destroys = {} /\ leaked = {}
  /\ posts = <<>>
  /\ subWin = FALSE
  /\ lastHandle = 0
  /\ now = 0
  /\ aborted = FALSE

-----------------------------------------------------------------------------
(***************************************************************************)
(* The private operations on the table, as functions from one value S of   *)
(* fb to the next.  n says how many times each handle is closed, so that a *)
(* process cleanup is one application of the same operators.               *)
(***************************************************************************)
Once(h) == [g \in Handles |-> IF g = h THEN 1 ELSE 0]

Without(bufs, H) == Restrict(bufs, DOMAIN bufs \ H)

(* The handles whose count comes down to 0. *)
LastClosed(S, n) == {h \in DOMAIN S.bufs : S.bufs[h].refcount \in 1 .. n[h]}

Decremented(bufs, n) ==
  [h \in DOMAIN bufs |->
     [bufs[h] EXCEPT !.refcount = (bufs[h].refcount - n[h]) % RefMod]]

Orders(H) ==
  {s \in [1 .. Cardinality(H) -> H] :
     \A i, j \in 1 .. Cardinality(H) : s[i] = s[j] => i = j}

(* std::lower_bound by ts: the partition point of an ordered list, and on  *)
(* a list that is not ordered, what the halving search ends at.            *)
PartitionPoints(list, ts) ==
  {i \in 1 .. Len(list) + 1 : /\ \A j \in 1 .. i - 1 : list[j].ts < ts
                             /\ \A j \in i .. Len(list) : list[j].ts >= ts}

HalvingSearch(list, ts) ==
  LET search[first \in 1 .. Len(list) + 1, n \in 0 .. Len(list)] ==
        IF n = 0 THEN first
        ELSE IF list[first + n \div 2].ts < ts
             THEN search[first + n \div 2 + 1, n - n \div 2 - 1]
             ELSE search[first, n \div 2]
  IN  search[1, Len(list)]

LowerBound(list, ts) ==
  LET cut == PartitionPoints(list, ts)
  IN  IF cut # {} THEN CHOOSE i \in cut : TRUE ELSE HalvingSearch(list, ts)

(* eraseDelayedCloseColorBufferLocked clears the first entry of h among    *)
(* those with the given ts that start at the lower bound.                  *)
Hits(list, h, ts) ==
  {i \in LowerBound(list, ts) .. Len(list) :
     /\ list[i].cb = h
     /\ \A j \in LowerBound(list, ts) .. i : list[j].ts = ts
     /\ \A j \in LowerBound(list, ts) .. i - 1 : list[j].cb # h}

eraseDelayedCloseColorBufferLocked(list, bufs, H) ==
  [i \in 1 .. Len(list) |->
     IF \E h \in H : i \in Hits(list, h, bufs[h].closedTs)
     THEN [list[i] EXCEPT !.cb = 0]
     ELSE list[i]]

(* markOpened, after n references were added to h *)
markOpened(S, h, n) ==
  [bufs |-> [S.bufs EXCEPT ![h] =
               [refcount |-> (@.refcount + n) % RefMod,
                opened |-> TRUE, closedTs |-> 0]],
   delayed |-> eraseDelayedCloseColorBufferLocked(S.delayed, S.bufs, {h})]

(* "kColorBufferClosingDelaySec", added to a ts that counts microseconds   *)
ClosingDelay == 1

Expired(S, forced, k) ==
  \A i \in 1 .. k : forced \/ S.delayed[i].ts + ClosingDelay <= now

performDelayedColorBufferCloseLocked(S, forced) ==
  LET k == CHOOSE k \in 0 .. Len(S.delayed) :
             /\ Expired(S, forced, k)
             /\ k < Len(S.delayed) => ~Expired(S, forced, k + 1)
  IN  [bufs |-> Without(S.bufs, {S.delayed[i].cb : i \in 1 .. k}),
       delayed |-> SubSeq(S.delayed, k + 1, Len(S.delayed))]

Scheduled(list, order) ==
  list \o [i \in 1 .. Len(order) |-> [ts |-> now, cb |-> order[i]]]

ForcedByCaller(forced) == forced   \* variant: the feature is forgotten

Forced(forced) == forced \/ NoDelayClose

(* closeColorBufferLocked, n[h] times for each h.  order is the order in   *)
(* which the handles of LastClosed(S, n) are reached.                      *)
closeColorBufferLocked(S, n, forced, order) ==
  LET last == LastClosed(S, n)
      bufs == Decremented(S.bufs, n)
      closed ==
        IF Forced(forced)
        THEN [bufs |-> Without(bufs, last),
              delayed |->
                eraseDelayedCloseColorBufferLocked(S.delayed, S.bufs, last)]
        ELSE [bufs |-> [h \in DOMAIN bufs |->
                          IF h \in last THEN [bufs[h] EXCEPT !.closedTs = now]
                                        ELSE bufs[h]],
              delayed |-> Scheduled(S.delayed, order)]
  IN  IF RefCountPipe \/ \A h \in DOMAIN S.bufs : n[h] = 0 THEN S
      ELSE performDelayedColorBufferCloseLocked(closed, FALSE)

(* decColorBufferRefCountLocked, n[h] times for each h *)
decColorBufferRefCountLocked(S, n) ==
  [S EXCEPT !.bufs = Without(Decremented(S.bufs, n), LastClosed(S, n))]

decNoDestroyForgetting(S, h) ==   \* variant: a count of 0 is not remembered
  IF h \in DOMAIN S.bufs THEN [S EXCEPT !.bufs = Decremented(S.bufs, Once(h))]
  ELSE S

decColorBufferRefCountNoDestroy(S, h) ==
  LET bufs == Decremented(S.bufs, Once(h))
  IN  IF h \notin DOMAIN S.bufs THEN S
      ELSE IF bufs[h].refcount = 0
      THEN [bufs |-> [bufs EXCEPT ![h].closedTs = now],
            delayed |-> Scheduled(S.delayed, <<h>>)]
      ELSE [S EXCEPT !.bufs = bufs]

sweepNothing(S) == S   \* variant: the channel is emptied, the counts stay

sweepColorBuffersLocked(S) ==
  decColorBufferRefCountLocked(
    S, [h \in Handles |-> IF h \in destroys THEN 1 ELSE 0])

(* What a window surface, or several, does with the buffers it lets go of. *)
Release(S, n, order) ==
  IF GuestManaged THEN S
  ELSE IF RefCountPipe THEN decColorBufferRefCountLocked(S, n)
  ELSE closeColorBufferLocked(S, n, FALSE, order)

BoundTo(W) ==
  [h \in Handles |->
     Cardinality({w \in W \cap DOMAIN windows : windows[w] = h})]

-----------------------------------------------------------------------------
Zeros == [h \in Handles |-> 0]

WithinBounds(h) ==
  fb.bufs[h].refcount < MaxRefs /\ Len(fb.delayed) < MaxDelayed

WithBuffer(S, h) ==
  LET new == [refcount |-> IF RefCountPipe \/ PreO THEN 1 ELSE 0,
              opened |-> FALSE, closedTs |-> 0]
  IN  [S EXCEPT !.bufs = [g \in DOMAIN S.bufs \cup {h} |->
                            IF g = h THEN new ELSE S.bufs[g]]]

createColorBuffer(p) ==
  LET h == lastHandle + 1 IN
  /\ ~GuestManaged   \* assumed of the guest
  /\ h \in Handles
  /\ lastHandle' = h
  /\ fb' = WithBuffer(sweepColorBuffersLocked(fb), h)
  /\ destroys' = {}
  /\ piped' = IF RefCountPipe THEN piped \cup {h} ELSE piped
  /\ held' = IF PreO /\ ~RefCountPipe THEN [held EXCEPT ![p][h] = 1] ELSE held
  /\ UNCHANGED <<mode, surfaces, leaked, posts, subWin, now, aborted>>

(* A virtio-gpu resource: the guest picks the id, and the host creates and *)
(* opens the color buffer in one command.  A taken id aborts the host.     *)
createColorBufferWithHandle(h) ==
  /\ GuestManaged
  /\ held[0][h] = 0
  /\ IF h \in Live
     THEN aborted' = TRUE /\ UNCHANGED <<fb, held>>
     ELSE /\ fb' = markOpened(WithBuffer(sweepColorBuffersLocked(fb), h), h, 1)
          /\ held' = [held EXCEPT ![0][h] = 1]
          /\ UNCHANGED aborted
  /\ destroys' = {}
  /\ UNCHANGED <<mode, surfaces, piped, leaked, posts, subWin, lastHandle,
                 now>>

openColorBuffer(p, h) ==
  /\ ~RefCountPipe
  /\ ~GuestManaged   \* assumed of the guest
  /\ h \in Live /\ WithinBounds(h)
  /\ fb' = markOpened(fb, h, 1)
  /\ held' = [held EXCEPT ![p][h] = @ + 1]
  /\ UNCHANGED <<surfaces, pipe, posts, host>>

closeColorBufferUnchecked(p, h) ==   \* variant: whoever opened it
  /\ ~RefCountPipe
  /\ \E order \in Orders(LastClosed(fb, Once(h))) :
       fb' = closeColorBufferLocked(fb, Once(h), FALSE, order)
  /\ held' = [held EXCEPT ![p][h] = @ - 1]
  /\ UNCHANGED <<surfaces, pipe, posts, host>>

(* A puid closes what m_procOwnedColorBuffers says it opened.  A thread    *)
(* without one is not checked: for it the guard is the assumption above.   *)
closeColorBuffer(p, h) ==
  /\ ~RefCountPipe
  /\ held[p][h] > 0
  /\ \E order \in Orders(LastClosed(fb, Once(h))) :
       fb' = closeColorBufferLocked(fb, Once(h), FALSE, order)
  /\ held' = [held EXCEPT ![p][h] = @ - 1]
  /\ UNCHANGED <<surfaces, pipe, posts, host>>

createEmulatedEglWindowSurface(p, w) ==
  /\ w \in Windows \ DOMAIN windows
  /\ windows' = [v \in DOMAIN windows \cup {w} |->
                   IF v = w THEN 0 ELSE windows[v]]
  /\ windowsOf' = [windowsOf EXCEPT ![p] = @ \cup {w}]
  /\ UNCHANGED <<fb, held, pipe, posts, host>>

destroyEmulatedEglWindowSurface(p, w) ==
  /\ w \in windowsOf[p]
  /\ \E order \in Orders(LastClosed(fb, BoundTo({w}))) :
       fb' = Release(fb, BoundTo({w}), order)
  /\ windows' = Without(windows, {w})
  /\ windowsOf' = [windowsOf EXCEPT ![p] = @ \ {w}]
  /\ UNCHANGED <<held, pipe, posts, host>>

setEmulatedEglWindowSurfaceColorBuffer(w, h) ==
  LET S == markOpened(fb, h, IF GuestManaged THEN 0 ELSE 1) IN
  /\ w \in DOMAIN windows
  /\ h \in Live /\ WithinBounds(h)
  /\ \E order \in Orders(LastClosed(S, BoundTo({w}))) :
       fb' = Release(S, BoundTo({w}), order)
  /\ windows' = [windows EXCEPT ![w] = h]
  /\ UNCHANGED <<windowsOf, held, pipe, posts, host>>

(* A thread without a puid exits: its surfaces that show a buffer go, the  *)
(* others are only forgotten.                                              *)
drainGlRenderThreadSurfaces ==
  LET shown == {w \in windowsOf[0] \cap DOMAIN windows : windows[w] # 0} IN
  /\ 0 \in Owners
  /\ windowsOf[0] # {}
  /\ \E order \in Orders(LastClosed(fb, BoundTo(shown))) :
       fb' = Release(fb, BoundTo(shown), order)
  /\ windows' = Without(windows, shown)
  /\ windowsOf' = [windowsOf EXCEPT ![0] = {}]
  /\ UNCHANGED <<held, pipe, posts, host>>

OwnedOnce(p) ==   \* variant: a handle opened twice is closed once
  [h \in Handles |->
     BoundTo(windowsOf[p])[h] + IF held[p][h] > 0 THEN 1 ELSE 0]

(* How often the cleanup of process p closes each handle. *)
OwnedBy(p) == [h \in Handles |-> BoundTo(windowsOf[p])[h] + held[p][h]]

cleanupProcGLObjects(p) ==
  /\ p # 0
  /\ windowsOf[p] # {} \/ held[p] # Zeros
  /\ \E order \in Orders(LastClosed(fb, OwnedBy(p))) :
       fb' = Release(fb, OwnedBy(p), order)
  /\ windows' = Without(windows, windowsOf[p])
  /\ windowsOf' = [windowsOf EXCEPT ![p] = {}]
  /\ held' = [held EXCEPT ![p] = Zeros]
  /\ UNCHANGED <<pipe, posts, host>>

postUncounted(h) ==   \* variant: a queued frame holds no reference
  LET S == markOpened(fb, h, 0) IN
  /\ h \in Live /\ WithinBounds(h)
  /\ IF subWin
     THEN /\ Len(posts) < MaxPosts
          /\ fb' = S /\ posts' = Append(posts, h)
     ELSE fb' = S /\ UNCHANGED posts
  /\ UNCHANGED <<surfaces, held, pipe, host>>

postImpl(h) ==
  LET S == markOpened(fb, h, 1) IN
  /\ h \in Live /\ WithinBounds(h)
  /\ IF subWin
     THEN /\ Len(posts) < MaxPosts
          /\ fb' = S /\ posts' = Append(posts, h)
     ELSE /\ fb' = decColorBufferRefCountLocked(S, Once(h))
          /\ UNCHANGED posts
  /\ UNCHANGED <<surfaces, held, pipe, host>>

(* The post worker's thread: the frame is shown, then its reference goes.  *)
postWorkerFunc ==
  /\ posts # <<>>
  /\ posts' = Tail(posts)
  /\ fb' = decColorBufferRefCountNoDestroy(fb, Head(posts))
  /\ UNCHANGED <<surfaces, held, pipe, host>>

setupSubWindow ==
  /\ UseSubWindow /\ ~subWin
  /\ subWin' = TRUE
  /\ UNCHANGED <<mode, fb, surfaces, held, pipe, posts, lastHandle, now,
                 aborted>>

removeSubWindow ==
  /\ UseSubWindow /\ subWin
  /\ subWin' = FALSE
  /\ UNCHANGED <<mode, fb, surfaces, held, pipe, posts, lastHandle, now,
                 aborted>>

(* The pipe that counted the guest's references to h has closed. *)
onLastColorBufferRef(h) ==
  /\ h \in piped
  /\ piped' = piped \ {h}
  /\ IF Cardinality(destroys) < DestroyCapacity
     THEN destroys' = destroys \cup {h} /\ UNCHANGED leaked
     ELSE leaked' = leaked \cup {h} /\ UNCHANGED destroys
  /\ UNCHANGED <<fb, surfaces, held, posts, host>>

(* destroyEmulatedEglContext, or bindContext when it unbinds *)
sweepFromContext ==
  /\ destroys # {}
  /\ fb' = sweepColorBuffersLocked(fb)
  /\ destroys' = {}
  /\ UNCHANGED <<surfaces, held, piped, leaked, posts, host>>

Tick ==
  /\ now < MaxTime
  /\ now' = now + 1
  /\ UNCHANGED <<mode, fb, surfaces, held, pipe, posts, subWin, lastHandle,
                 aborted>>

Call ==
  \/ \E p \in Owners :
       \/ createColorBuffer(p)
       \/ cleanupProcGLObjects(p)
       \/ \E h \in Handles : openColorBuffer(p, h) \/ closeColorBuffer(p, h)
       \/ \E w \in Windows : \/ createEmulatedEglWindowSurface(p, w)
                             \/ destroyEmulatedEglWindowSurface(p, w)
  \/ \E h \in Handles :
       \/ createColorBufferWithHandle(h)
       \/ postImpl(h)
       \/ onLastColorBufferRef(h)
       \/ \E w \in Windows : setEmulatedEglWindowSurfaceColorBuffer(w, h)
  \/ drainGlRenderThreadSurfaces
  \/ setupSubWindow \/ removeSubWindow
  \/ sweepFromContext

Next == ~aborted /\ (Call \/ postWorkerFunc \/ Tick)

Spec == Init /\ [][Next]_vars

(* The worker thread drains its queue, and the guest goes on using GL. *)
FairSpec == Spec /\ WF_vars(~aborted /\ postWorkerFunc)
                 /\ WF_vars(~aborted /\ sweepFromContext)

-----------------------------------------------------------------------------
(* Everything that refers to h; a handle that could not be sent to the     *)
(* channel keeps its reference for good.                                   *)
OwnerRefs(h) ==
  UNION {{<<"owner", p, k>> : k \in 1 .. held[p][h]} : p \in Owners}
WindowRefs(h) ==
  IF GuestManaged THEN {}
  ELSE {<<"window", w>> : w \in {w \in DOMAIN windows : windows[w] = h}}
PostRefs(h) == {<<"post", i>> : i \in {i \in 1 .. Len(posts) : posts[i] = h}}
PipeRefs(h) ==
  IF h \in piped \cup destroys \cup leaked THEN {<<"pipe">>} ELSE {}
Holders(h) == OwnerRefs(h) \cup WindowRefs(h) \cup PostRefs(h) \cup PipeRefs(h)

(* The count of a buffer is the number of things that refer to it: no      *)
(* path, of closing, rebinding, process cleanup, posting or sweeping,      *)
(* drops a reference twice or forgets one.                                 *)
RefcountExact ==
  ~aborted => \A h \in Live : fb.bufs[h].refcount = Cardinality(Holders(h))

(* A buffer something refers to is in the table.  For a queued frame this  *)
(* is memory safety: the post worker follows a bare ColorBuffer pointer.   *)
ReferencedStaysAlive == \A h \in Handles : Holders(h) # {} => h \in Live

(* The delayed list has one entry, with the time of its closing, for each  *)
(* buffer that was used, came back to count 0 and is still in the table,   *)
(* and none for a buffer in use: the collector erases whatever the list    *)
(* names, without a look at its count, and finds nothing that it does not  *)
(* name.  This is what closeColorBufferLocked does, which never looks at   *)
(* opened.  FrameBuffer.h:749-756 and FrameBuffer.cpp:1593-1595 would have *)
(* only buffers on the list that were never opened, and the others erased  *)
(* at once; such a table would satisfy this too.                           *)
Delayed(h) == {i \in 1 .. Len(fb.delayed) : fb.delayed[i].cb = h}
DelayedExactly ==
  \A h \in Handles :
    /\ \A i \in Delayed(h) : /\ h \in Live
                             /\ fb.bufs[h].refcount = 0
                             /\ fb.bufs[h].closedTs = fb.delayed[i].ts
    /\ \A i, j \in Delayed(h) : i = j
    /\ /\ ~GuestManaged   \* a surface takes an entry and adds no reference
       /\ h \in Live /\ fb.bufs[h].opened /\ fb.bufs[h].refcount = 0
       => Delayed(h) # {}

(* FrameBuffer.cpp:1116: the id of a new resource is free on the host once *)
(* the guest has let go of it, so creating it never aborts.                *)
HeadlessReuse == ~UseSubWindow => ~aborted

(* Once the guest's last pipe reference was sent to the channel, the       *)
(* buffer goes as soon as no surface shows it.                             *)
HeadlessLastReferenceErases ==
  \A h \in Handles :
    h \in destroys /\ ~UseSubWindow ~> h \notin Live \/ WindowRefs(h) # {}

(* The same with a window on the host: FrameBuffer.h:687 has the post      *)
(* thread leave the destruction to a later step.                           *)
LastReferenceErases ==
  \A h \in Handles : h \in destroys ~> h \notin Live \/ WindowRefs(h) # {}

=============================================================================
