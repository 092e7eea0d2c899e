----------------------- MODULE ColorBufferSnapshots -------------------------
(***************************************************************************)
(* FrameBuffer::onSave and onLoad over the table of ColorBufferLifetime.   *)
(*                                                                         *)
(* Render threads are stopped around both calls, and the threads of the    *)
(* machine that is thrown away have exited before onLoad, which leaves no  *)
(* surface in a thread's m_windowSet.  Nothing waits for the post worker:  *)
(* frames may be queued at a save, and those queued before a load are      *)
(* shown after it and drop a reference in the table that was loaded.       *)
(***************************************************************************)
EXTENDS ColorBufferLifetime

CONSTANTS
  NoSnapshot,
  AgeMod,        \* putBe32: the microseconds a saved age can tell apart
  MaxOff         \* bound: how far a count is off when it is saved

ASSUME AgeModAssumption == AgeMod \in Nat \ {0}
ASSUME MaxOffAssumption == MaxOff \in Nat

VARIABLES
  snapshot,      \* the stream, with the guest's own state beside it
  loading,       \* where onLoad is: "no", "loaded" or "reposted"
  stale,         \* history: frames at the head of posts from before the load
  off            \* history: references saved or dropped with no holder

history == <<stale, off>>
snapVars == <<vars, snapshot, loading, history>>

SnapInit ==
  /\ Init
  /\ snapshot = NoSnapshot
  /\ loading = "no"
  /\ stale = 0 /\ off = Zeros

SavedWithoutCount(cb) == [refcount |-> 0, opened |-> cb.opened,   \* variant
                          age |-> (now - cb.closedTs) % AgeMod]

(* What is saved of a closing time is how long ago it was, in 32 bits. *)
SavedBuffer(cb) == [refcount |-> cb.refcount, opened |-> cb.opened,
                    age |-> (now - cb.closedTs) % AgeMod]

Saved(bufs) == [h \in DOMAIN bufs |-> SavedBuffer(bufs[h])]

StaleRefs == {<<"post", i>> : i \in 1 .. stale}

(* References of h that the table counts and nobody will let go of after a *)
(* load: frames that are queued, and a destroy that is still in            *)
(* mOutstandingColorBufferDestroys, which is neither swept nor saved.      *)
Orphaned(h) ==
  Cardinality(PostRefs(h) \ StaleRefs) + (IF h \in destroys THEN 1 ELSE 0)

onSave ==
  /\ loading = "no"
  /\ snapshot = NoSnapshot   \* bound: one snapshot at a time
  /\ \A h \in Handles : off[h] \in -MaxOff .. MaxOff
  /\ snapshot' = [bufs |-> Saved(fb.bufs), windows |-> windows,
                  windowsOf |-> windowsOf, held |-> held, piped |-> piped,
                  leaked |-> leaked,
                  off |-> [h \in Handles |->
                            IF h \in Live THEN off[h] + Orphaned(h) ELSE 0]]
  /\ UNCHANGED <<vars, loading, history>>

(* The buffers of the snapshot; those without a reference are scheduled,   *)
(* in the order in which an unordered map was saved.                       *)
Loaded(bufs, order) ==
  LET ts(h) == now - bufs[h].age
  IN  [bufs |-> [h \in DOMAIN bufs |-> [refcount |-> bufs[h].refcount,
                                        opened |-> bufs[h].opened,
                                        closedTs |-> ts(h)]],
       delayed |-> [i \in 1 .. Len(order) |-> [ts |-> ts(order[i]), cb |-> order[i]]]]

(* Whatever the cleanup erases, m_colorbuffers and the list are cleared    *)
(* after it.  m_lock is held until onLoad returns; the post worker and its *)
(* queue are left as they are.                                             *)
onLoad ==
  /\ loading = "no" /\ loading' = "loaded"
  /\ snapshot # NoSnapshot
  /\ 0 \in Owners => windowsOf[0] = {}
  /\ \E order \in Orders({h \in DOMAIN snapshot.bufs : snapshot.bufs[h].refcount = 0}) :
       fb' = Loaded(snapshot.bufs, order)
  /\ windows' = snapshot.windows /\ windowsOf' = snapshot.windowsOf
  /\ held' = snapshot.held /\ piped' = snapshot.piped
  /\ destroys' = {} /\ leaked' = snapshot.leaked
  /\ stale' = Len(posts) /\ off' = snapshot.off
  /\ snapshot' = NoSnapshot   \* bound: a snapshot is loaded once
  /\ UNCHANGED <<posts, host>>

(* The end of onLoad.  m_lastPostedColorBuffer is not followed: it may be  *)
(* any buffer, or none.                                                    *)
repost ==
  /\ loading = "loaded"
  /\ \/ /\ \E h \in Live : postImpl(h)
        /\ loading' = IF subWin THEN "reposted" ELSE "no"
     \/ UNCHANGED vars /\ loading' = "no"
  /\ UNCHANGED <<snapshot, history>>

(* postImplSync returns when its frame was shown, after those before it.   *)
postImplSync ==
  /\ loading = "reposted" /\ loading' = "no"
  /\ Len(posts) <= 1
  /\ UNCHANGED <<vars, snapshot, history>>

(* The worker drops the reference of a frame whichever table it is in.     *)
Worker ==
  /\ ~aborted /\ postWorkerFunc
  /\ stale' = IF stale = 0 THEN 0 ELSE stale - 1
  /\ off' = IF stale # 0 /\ Head(posts) \in Live
            THEN [off EXCEPT ![Head(posts)] = @ - 1]
            ELSE off
  /\ UNCHANGED <<snapshot, loading>>

SnapNext ==
  \/ onSave \/ onLoad \/ repost \/ postImplSync
  \/ Worker
  \/ ~aborted /\ Tick /\ UNCHANGED <<snapshot, loading, history>>
  \/ /\ ~aborted /\ loading = "no"
     /\ Call
     /\ UNCHANGED <<snapshot, loading, history>>

SnapSpec == SnapInit /\ [][SnapNext]_snapVars

-----------------------------------------------------------------------------
(* Over saves and loads at any moment, the count of a buffer is off by     *)
(* exactly the frames and destroys that were under way at the save, less   *)
(* the frames from before the load that were shown after it.  Everything   *)
(* else, of owners, surfaces and pipe, is counted as before the save.      *)
OffByOrphans ==
  ~aborted =>
    \A h \in Live :
      fb.bufs[h].refcount =
        (Cardinality(Holders(h) \ StaleRefs) + off[h]) % RefMod

=============================================================================
