------------------------ MODULE RenderChannelProofs -------------------------
(***************************************************************************)
(* Proofs about RenderChannel, for every stream of the guest, any          *)
(* capacities of the queues and any number of saves and loads.             *)
(*                                                                         *)
(* A sequence that is cut in two places, in the read buffer and the queue  *)
(* or in the queue and the thread's hands, is described element by element *)
(* (Joined): the first part says how the calls move the cut, the second    *)
(* that the invariant IInv is inductive, and the last what follows.        *)
(***************************************************************************)
EXTENDS RenderChannel, SequenceTheorems, TLAPS

-----------------------------------------------------------------------------
(***************************************************************************)
(* Numbered sequences in two parts: s and then t are a + 1, ..., b.        *)
(***************************************************************************)
Joined(s, t, a, b) ==
  /\ Len(s) + Len(t) = b - a
  /\ \A i \in 1 .. Len(s) : s[i] = a + i
  /\ \A j \in 1 .. Len(t) : t[j] = a + Len(s) + j

LEMMA JoinedNumbered ==
  ASSUME NEW s \in Seq(Int), NEW t \in Seq(Int), NEW a \in Int, NEW b \in Int,
         Joined(s, t, a, b)
  PROVE  s \o t = Numbered(a, b)
<1> DEFINE u == s \o t  v == Numbered(a, b)
<1>1. b - a \in Nat BY DEF Joined
<1>2. u \in Seq(Int) /\ Len(u) = b - a BY DEF Joined
<1>3. v \in Seq(Int) /\ Len(v) = b - a BY <1>1 DEF Numbered
<1>4. ASSUME NEW i \in 1 .. b - a PROVE u[i] = v[i]
  <2>1. v[i] = a + i BY <1>1 DEF Numbered
  <2>2. CASE i <= Len(s)
    <3>1. i \in 1 .. Len(s) /\ u[i] = s[i] BY <2>2
    <3> QED BY <3>1, <2>1 DEF Joined
  <2>3. CASE i > Len(s)
    <3>1. u[i] = t[i - Len(s)] BY <2>3, <1>2
    <3>2. i - Len(s) \in 1 .. Len(t) BY <2>3 DEF Joined
    <3>3. t[i - Len(s)] = a + Len(s) + (i - Len(s)) BY <3>2 DEF Joined
    <3> QED BY <3>1, <3>3, <2>1
  <2>4. i \in Int /\ Len(s) \in Nat BY <1>1
  <2> HIDE DEF u, v
  <2> QED BY <2>2, <2>3, <2>4
<1> HIDE DEF u, v
<1>5. u = v BY <1>2, <1>3, <1>4, SeqEqual
<1> QED BY <1>5 DEF u, v

LEMMA JoinedEmpty ==
  ASSUME NEW a \in Int
  PROVE  Joined(<<>>, <<>>, a, a)
BY DEF Joined

(* The reader of the second part moves its head to the first.              *)
LEMMA JoinedMove ==
  ASSUME NEW S, NEW s \in Seq(S), NEW t \in Seq(S), NEW a \in Int, NEW b \in Int,
         t # <<>>, Joined(s, t, a, b)
  PROVE  Joined(Append(s, Head(t)), Tail(t), a, b)
<1>1. Len(t) > 0 /\ Head(t) = t[1] /\ Len(Tail(t)) = Len(t) - 1
  BY DEF Joined
<1>2. \A j \in 1 .. Len(t) - 1 : Tail(t)[j] = t[j + 1] BY <1>1
<1>3. Len(Append(s, Head(t))) = Len(s) + 1 BY <1>1
<1>4. \A i \in 1 .. Len(s) : Append(s, Head(t))[i] = s[i] BY <1>1
<1>5. Append(s, Head(t))[Len(s) + 1] = t[1] BY <1>1
<1>6. t[1] = a + Len(s) + 1 BY <1>1 DEF Joined
<1>7. ASSUME NEW i \in 1 .. Len(s) + 1 PROVE Append(s, Head(t))[i] = a + i
  <2>1. CASE i = Len(s) + 1 BY <2>1, <1>5, <1>6
  <2>2. CASE i # Len(s) + 1 BY <2>2, <1>4 DEF Joined
  <2> QED BY <2>1, <2>2
<1>8. ASSUME NEW j \in 1 .. Len(t) - 1
      PROVE  Tail(t)[j] = a + (Len(s) + 1) + j
  <2>1. j + 1 \in 1 .. Len(t) BY <1>1
  <2>2. t[j + 1] = a + Len(s) + (j + 1) BY <2>1 DEF Joined
  <2> QED BY <2>2, <1>2
<1>9. Len(s) + Len(t) = b - a BY DEF Joined
<1>10. (Len(s) + 1) + (Len(t) - 1) = b - a BY <1>9, <1>1
<1> QED BY <1>1, <1>3, <1>7, <1>8, <1>10 DEF Joined

(* The writer appends the next number.                                     *)
LEMMA JoinedGrow ==
  ASSUME NEW S, NEW s \in Seq(S), NEW t \in Seq(S), NEW a \in Int, NEW b \in Int,
         b + 1 \in S, Joined(s, t, a, b)
  PROVE  Joined(s, Append(t, b + 1), a, b + 1)
BY DEF Joined

(* The first part is consumed from the front.                              *)
LEMMA JoinedDrop ==
  ASSUME NEW S, NEW s \in Seq(S), NEW t \in Seq(S), NEW a \in Int, NEW b \in Int,
         NEW k \in 0 .. Len(s), Joined(s, t, a, b)
  PROVE  Joined(SubSeq(s, k + 1, Len(s)), t, a + k, b)
<1> DEFINE u == SubSeq(s, k + 1, Len(s))
<1>1. Len(u) = Len(s) - k /\ \A i \in 1 .. Len(s) - k : u[i] = s[k + i]
  OBVIOUS
<1>2. ASSUME NEW i \in 1 .. Len(s) - k PROVE u[i] = (a + k) + i
  <2>1. k + i \in 1 .. Len(s) OBVIOUS
  <2>2. s[k + i] = a + (k + i) BY <2>1 DEF Joined
  <2> QED BY <1>1, <2>2
<1>3. ASSUME NEW j \in 1 .. Len(t) PROVE t[j] = (a + k) + Len(u) + j
  <2>1. t[j] = a + Len(s) + j BY DEF Joined
  <2> QED BY <2>1, <1>1
<1>4. Len(u) + Len(t) = b - (a + k)
  <2>1. Len(s) + Len(t) = b - a BY DEF Joined
  <2> QED BY <2>1, <1>1
<1> HIDE DEF u
<1>5. Joined(u, t, a + k, b) BY <1>1, <1>2, <1>3, <1>4 DEF Joined
<1> QED BY <1>5 DEF u

LEMMA JoinedTail ==
  ASSUME NEW S, NEW s \in Seq(S), NEW t \in Seq(S), NEW a \in Int, NEW b \in Int,
         s # <<>>, Joined(s, t, a, b)
  PROVE  Joined(Tail(s), t, a + 1, b)
<1>1. Tail(s) = SubSeq(s, 1 + 1, Len(s)) /\ 1 \in 0 .. Len(s) OBVIOUS
<1> QED BY <1>1, JoinedDrop

(* An empty second part is replaced by the numbers that follow.            *)
LEMMA JoinedFresh ==
  ASSUME NEW S, NEW s \in Seq(S), NEW a \in Int, NEW b \in Int, NEW n \in Nat,
         Joined(s, <<>>, a, b)
  PROVE  Joined(s, Numbered(b, b + n), a, b + n)
<1> DEFINE d == Numbered(b, b + n)
<1>1. d = [i \in 1 .. n |-> b + i] /\ Len(d) = n BY DEF Numbered
<1>2. Len(s) = b - a BY DEF Joined
<1>3. ASSUME NEW j \in 1 .. n PROVE d[j] = a + Len(s) + j
  BY <1>1, <1>2
<1>4. \A i \in 1 .. Len(s) : s[i] = a + i BY DEF Joined
<1>5. Len(d) = n BY <1>1
<1>6. Len(s) + Len(d) = (b + n) - a BY <1>2, <1>5
<1> HIDE DEF d
<1>7. Joined(s, d, a, b + n) BY <1>3, <1>4, <1>5, <1>6 DEF Joined
<1> QED BY <1>7 DEF d

LEMMA NumberedSeq ==
  ASSUME NEW a \in Nat, NEW n \in Nat
  PROVE  Numbered(a, a + n) \in Seq(Nat) /\ (n > 0 => Numbered(a, a + n) # <<>>)
         /\ (n = 0 => Numbered(a, a + n) = <<>>)
BY DEF Numbered

-----------------------------------------------------------------------------
(***************************************************************************)
(* The inductive invariant.                                                *)
(***************************************************************************)
Requests(r, c, g) == Joined(r.buf, c.fromGuest, r.consumed - 1, g.sent - 1)
Replies(r, c, g) == Joined(c.toGuest, r.out, g.received, r.replied)

(* The thread has answers in its hands just while it writes them, and      *)
(* reads the flags first.                                                  *)
ThreadInv(r) ==
  /\ r.pc = "write" <=> r.out # <<>>
  /\ ~r.flags => r.buf = <<>> /\ r.consumed = 0

(* The queues in the snapshot go with thread r, too, which is the running  *)
(* one while its save is awaited, and then the one saved.                  *)
Continues(r) ==
  /\ Requests(r, snapshot.ch, snapshot.guest)
  /\ (intact /\ snapshot.intact /\ ~snapshot.ch.closed) =>
        Replies(r, snapshot.ch, snapshot.guest)

QueuesInv ==
  /\ Requests(rt, ch, guest)
  /\ (intact /\ ~ch.closed) => Replies(rt, ch, guest)

HandShakeInv ==
  /\ mSnapshotState = "Finished" => rt.pc = "paused"
  /\ saver.pc \in {"paused", "queues"} => ch.snapshotMode
  /\ saver.pc = "cleaning" => snapshot.valid

SnapshotInv ==
  /\ saver.pc = "queues" => /\ snapshot # NoSnapshot /\ ~snapshot.valid
                            /\ Continues(rt)
                            /\ snapshot.intact => ThreadSettled
  /\ snapshot.valid => /\ Continues(snapshot.rt)
                       /\ snapshot.rt.pc = "paused" /\ ThreadInv(snapshot.rt)

Wishes == {"CanRead", "CanWrite"}

(* A guest that waits has been told of a stop and, in an open channel, is  *)
(* either on its way or has left its wish for all that the state denies.   *)
Awaited(c, g, w) ==
  /\ ~c.closed => c.state = updateStateLocked(c).state
  /\ g.pc # "closed" /\ c.closed => "Stopped" \in w
  /\ g.pc \in {"wanting", "asleep"} => "Stopped" \in g.wait
  /\ g.pc = "wanting" =>
       \/ g.wait \cap w # {}
       \/ g.wait \ {"Stopped"} \subseteq g.wanted
  /\ g.pc = "asleep" /\ ~c.closed =>
       \/ g.wait \cap w # {}
       \/ /\ g.wait \ {"Stopped"} \subseteq c.wanted
          /\ g.wait \cap c.state = {}

CallbackInv ==
  /\ ch.callback = "noop" => ch.closed
  /\ ch.callback = "none" =>
       \/ guest.pc = "run"
       \/ /\ saver.pc = "loaded" /\ mSnapshotState # "Empty"
          /\ rt.pc \in {"starting", "copying", "paused"}
          /\ guest.pc # "wanting"
  /\ saver.pc = "paused" => guest.pc # "wanting"
  /\ snapshot # NoSnapshot => snapshot.guest.pc # "wanting"

WakeInv ==
  /\ saver.pc # "cleaning" => Awaited(ch, guest, wake)
  /\ guest.wanted \subseteq Wishes
  /\ snapshot # NoSnapshot =>
       /\ Awaited(snapshot.ch, snapshot.guest, snapshot.wake)
       /\ snapshot.guest.wanted \subseteq Wishes

IInv == /\ TypeOK /\ ThreadInv(rt) /\ QueuesInv /\ HandShakeInv /\ SnapshotInv
        /\ CallbackInv /\ WakeInv

-----------------------------------------------------------------------------
(***************************************************************************)
(* The helpers of the channel: what they leave alone.                      *)
(***************************************************************************)
LEMMA UpdateFields ==
  ASSUME NEW c \in Channels
  PROVE  LET d == updateStateLocked(c)
         IN  /\ d \in Channels
             /\ d.fromGuest = c.fromGuest /\ d.toGuest = c.toGuest
             /\ d.closed = c.closed /\ d.snapshotMode = c.snapshotMode
             /\ d.wanted = c.wanted /\ d.callback = c.callback
             /\ updateStateLocked(d).state = d.state
BY DEF updateStateLocked, Channels, Flags

LEMMA NotifyFields ==
  ASSUME NEW c \in Channels
  PROVE  LET d == notifyStateChangeLocked(c)
         IN  /\ d \in Channels
             /\ d.fromGuest = c.fromGuest /\ d.toGuest = c.toGuest
             /\ d.closed = c.closed /\ d.snapshotMode = c.snapshotMode
             /\ d.state = c.state /\ d.callback = c.callback
             /\ c.wanted \ c.state \subseteq d.wanted
             /\ updateStateLocked(d).state = updateStateLocked(c).state
BY DEF notifyStateChangeLocked, updateStateLocked, Channels

LEMMA CallbackFlags ==
  ASSUME NEW c \in Channels
  PROVE  onChannelHostEvent(c) \subseteq Flags
BY DEF onChannelHostEvent, Available, Channels, Flags

(* The fields of the channel after an event with its notification.         *)
LEMMA NotifyType ==
  ASSUME NEW c \in Channels, Notify(c), wake \in SUBSET Flags
  PROVE  /\ ch' \in Channels /\ wake' \in SUBSET Flags
         /\ wake' = wake \cup onChannelHostEvent(c)
         /\ ch'.fromGuest = c.fromGuest /\ ch'.toGuest = c.toGuest
         /\ ch'.closed = c.closed /\ ch'.snapshotMode = c.snapshotMode
         /\ ch'.callback = c.callback
BY NotifyFields, CallbackFlags DEF Notify

LEMMA PushOk ==
  ASSUME NEW c \in Channels, NEW q, NEW n, PushResult(c, q, n) = "Ok"
  PROVE  ~c.closed
BY DEF PushResult

LEMMA PopOk ==
  ASSUME NEW c \in Channels, NEW q, PopResult(c, q) = "Ok"
  PROVE  q # <<>> /\ ~c.snapshotMode
BY DEF PopResult

(* Taking the head of a queue keeps the channel and the thread typed.      *)
LEMMA HeadTail ==
  ASSUME NEW S, NEW q \in Seq(S), q # <<>>
  PROVE  Head(q) \in S /\ Tail(q) \in Seq(S)
OBVIOUS

-----------------------------------------------------------------------------
(***************************************************************************)
(* Types.                                                                  *)
(***************************************************************************)
LEMMA InitType == Init => TypeOK
<1> SUFFICES ASSUME Init PROVE TypeOK OBVIOUS
<1>1. ch \in Channels
  <2> DEFINE c == [fromGuest |-> <<>>, toGuest |-> <<>>, closed |-> FALSE,
            snapshotMode |-> FALSE, state |-> {}, wanted |-> {}, callback |-> "none"]
  <2>1. c \in Channels BY DEF Channels
  <2>2. ch = updateStateLocked(c) BY DEF Init
  <2> QED BY <2>1, <2>2, UpdateFields
<1>2. rt \in Threads BY DEF Init, Threads
<1>3. guest \in Guests BY StreamAssumption DEF Init, Guests
<1>4. /\ saver \in [pc : {"idle", "paused", "queues", "saved", "cleaning", "loaded"},
                     saves : 0 .. MaxSaves, loads : 0 .. MaxLoads]
      /\ wake \in SUBSET Flags
  BY BoundAssumption DEF Init
<1>5. snapshot = NoSnapshot /\ mSnapshotState = "Empty" /\ ~mStopped /\ intact
      /\ mStopped \in BOOLEAN /\ intact \in BOOLEAN
  BY DEF Init
<1> QED BY <1>1, <1>2, <1>3, <1>4, <1>5 DEF TypeOK

(* What a decoder takes is a packet, and its answer a number.              *)
LEMMA PacketAnswer ==
  ASSUME TypeOK, QueuesInv, NEW k \in PacketLengths(rt.buf)
  PROVE  k \in 1 .. Len(rt.buf) /\ Stream[rt.buf[k]] \in Nat
<1>1. k \in 1 .. Len(rt.buf) /\ rt.buf[1] # 0 /\ Stream[rt.buf[k]] # More
  BY DEF PacketLengths
<1>2. rt.buf \in Seq(Buffers) /\ rt.consumed \in Nat BY DEF TypeOK, Threads
<1>3. rt.buf[k] \in 0 .. Len(Stream) BY <1>1, <1>2 DEF Buffers
<1>4. rt.buf[k] = rt.consumed - 1 + k
  BY <1>1 DEF QueuesInv, Requests, Joined
<1>5. rt.buf[k] # 0 BY <1>1, <1>2, <1>4
<1>6. Stream[rt.buf[k]] \in Nat \cup {More}
  BY <1>3, <1>5, StreamAssumption
<1> QED BY <1>1, <1>6

LEMMA AskedType ==
  ASSUME NEW n \in Nat, n <= Len(Stream)
  PROVE  Asked(n) \in Nat
<1>1. CASE n = 0 BY <1>1 DEF Asked
<1>2. CASE n # 0
  <2>1. Stream[n] \in Nat \cup {More} BY <1>2, StreamAssumption
  <2> QED BY <2>1 DEF Asked
<1> QED BY <1>1, <1>2

Savers == [pc : {"idle", "paused", "queues", "saved", "cleaning", "loaded"},
           saves : 0 .. MaxSaves, loads : 0 .. MaxLoads]
Snapshots == [ch : Channels, guest : Guests, wake : SUBSET Flags, rt : Threads,
              valid : BOOLEAN, intact : BOOLEAN]

LEMMA TypeStep == IInv /\ [Next]_vars => TypeOK'
<1> SUFFICES ASSUME IInv, [Next]_vars PROVE TypeOK'
  OBVIOUS
<1> TypeOK /\ ThreadInv(rt) /\ QueuesInv BY DEF IInv
<1>0. /\ ch \in Channels /\ rt \in Threads /\ guest \in Guests
      /\ wake \in SUBSET Flags /\ saver \in Savers
  BY DEF TypeOK, Savers
<1>1. CASE setEventCallback
  <2> DEFINE c == [ch EXCEPT !.callback = "pipe"]
  <2>1. c \in Channels BY <1>0 DEF Channels
  <2>2. Notify(c) BY <1>1 DEF setEventCallback
  <2> HIDE DEF c
  <2>3. ch' \in Channels /\ wake' \in SUBSET Flags
    BY <2>1, <2>2, <1>0, NotifyType
  <2> QED BY <1>1, <2>3 DEF setEventCallback, TypeOK
<1>2. CASE onGuestSend
  <2> DEFINE c == [ch EXCEPT !.fromGuest = Append(@, guest.sent)]
  <2>1. guest.sent \in Buffers /\ Asked(guest.sent) \in Nat
    BY <1>0, <1>2, AskedType DEF onGuestSend, Guests, Buffers
  <2>2. c \in Channels
    <3>1. ch.fromGuest \in Seq(Buffers) BY <1>0 DEF Channels
    <3>2. Append(ch.fromGuest, guest.sent) \in Seq(Buffers) BY <2>1, <3>1
    <3> QED BY <1>0, <3>2 DEF Channels
  <2>3. ch' = updateStateLocked(c) BY <1>2 DEF onGuestSend
  <2> HIDE DEF c
  <2>4. ch' \in Channels BY <2>2, <2>3, UpdateFields
  <2>5. guest' \in Guests
    <3>1. guest.sent + 1 \in 0 .. Len(Stream) + 1 BY <2>1, StreamAssumption DEF Buffers
    <3>2. guest' = [guest EXCEPT !.sent = guest.sent + 1, !.due = Asked(guest.sent)]
      BY <1>2 DEF onGuestSend
    <3> QED BY <1>0, <2>1, <3>1, <3>2 DEF Guests
  <2> QED BY <1>2, <2>4, <2>5 DEF onGuestSend, TypeOK
<1>3. CASE onGuestRecv
  <2> DEFINE c == [ch EXCEPT !.toGuest = Tail(@)]
  <2>1. ch.toGuest # <<>> BY <1>0, <1>3, PopOk DEF onGuestRecv
  <2>2. c \in Channels
    <3>1. Tail(ch.toGuest) \in Seq(Nat)
      <4>1. ch.toGuest \in Seq(Nat) BY <1>0 DEF Channels
      <4> QED BY <2>1, <4>1, HeadTail
    <3> QED BY <1>0, <3>1 DEF Channels
  <2>3. ch' = updateStateLocked(c) BY <1>3 DEF onGuestRecv
  <2> HIDE DEF c
  <2>4. ch' \in Channels BY <2>2, <2>3, UpdateFields
  <2>5. guest' \in Guests
    <3>1. guest.due \in Nat /\ guest.received \in Nat BY <1>0 DEF Guests
    <3>2. guest.due > 0 BY <1>3 DEF onGuestRecv
    <3>3. guest.due - 1 \in Nat /\ guest.received + 1 \in Nat BY <3>1, <3>2
    <3>4. guest' = [guest EXCEPT !.due = guest.due - 1, !.received = guest.received + 1]
      BY <1>3 DEF onGuestRecv
    <3> QED BY <1>0, <3>3, <3>4 DEF Guests
  <2> QED BY <1>3, <2>4, <2>5 DEF onGuestRecv, TypeOK
<1>4. CASE onGuestWantWakeOn
  <2>1. ch.state \subseteq Flags BY <1>0 DEF Channels
  <2>2. PICK wanted \in {{Needed}, {"CanRead", "CanWrite"}} :
          /\ guest' = [guest EXCEPT
               !.pc = IF wanted \subseteq ch.state THEN "asleep" ELSE "wanting",
               !.wanted = wanted \ ch.state, !.wait = wanted \cup {"Stopped"}]
          /\ wake' = (wake \cap {"Stopped"}) \cup (wanted \cap ch.state)
    BY <1>4 DEF onGuestWantWakeOn
  <2>3. wanted \subseteq Flags BY DEF Needed, Flags
  <2>4. guest' \in Guests /\ wake' \in SUBSET Flags
    BY <1>0, <2>1, <2>2, <2>3 DEF Guests, Flags
  <2> QED BY <1>4, <2>4 DEF onGuestWantWakeOn, TypeOK
<1>5. CASE setWantedEvents
  <2> DEFINE c == [ch EXCEPT !.wanted = @ \cup guest.wanted]
  <2>1. guest.wanted \subseteq Wishes BY DEF IInv, WakeInv
  <2>2. c \in Channels BY <1>0, <2>1 DEF Channels, Wishes
  <2>3. Notify(c) BY <1>5 DEF setWantedEvents
  <2> HIDE DEF c
  <2>4. ch' \in Channels /\ wake' \in SUBSET Flags
    BY <2>2, <2>3, <1>0, NotifyType
  <2>5. guest' \in Guests BY <1>0, <1>5 DEF setWantedEvents, Guests
  <2> QED BY <1>5, <2>4, <2>5 DEF setWantedEvents, TypeOK
<1>6. CASE Awake
  <2>1. guest' \in Guests /\ wake' \in SUBSET Flags
    BY <1>0, <1>6 DEF Awake, Guests, Flags
  <2> QED BY <1>6, <2>1 DEF Awake, TypeOK
<1>7. CASE onGuestClose
  <2>1. ch' \in Channels BY <1>0, <1>7 DEF onGuestClose, Closed, Channels
  <2>2. guest' \in Guests /\ wake' \in SUBSET Flags
    BY <1>0, <1>7 DEF onGuestClose, Guests
  <2> QED BY <1>7, <2>1, <2>2 DEF onGuestClose, TypeOK
<1>8. ASSUME readFromGuest
      PROVE  /\ ch' \in Channels /\ wake' \in SUBSET Flags
             /\ Head(ch.fromGuest) \in Buffers
  <2> DEFINE c == [ch EXCEPT !.fromGuest = Tail(@)]
  <2>1. ch.fromGuest # <<>> BY <1>0, <1>8, PopOk DEF readFromGuest
  <2>2. Tail(ch.fromGuest) \in Seq(Buffers) /\ Head(ch.fromGuest) \in Buffers
    BY <1>0, <2>1, HeadTail DEF Channels
  <2>3. c \in Channels BY <1>0, <2>2 DEF Channels
  <2>4. Notify(updateStateLocked(c)) BY <1>8 DEF readFromGuest
  <2> HIDE DEF c
  <2>5. updateStateLocked(c) \in Channels BY <2>3, UpdateFields
  <2> QED BY <2>2, <2>4, <2>5, <1>0, NotifyType
<1>9. CASE ReadFlags
  <2>1. readFromGuest BY <1>9 DEF ReadFlags
  <2>2. rt' \in Threads BY <1>0, <1>9 DEF ReadFlags, Threads
  <2> QED BY <2>1, <2>2, <1>8 DEF readFromGuest, TypeOK
<1>10. CASE getData
  <2>1. readFromGuest BY <1>10 DEF getData
  <2>2. rt' \in Threads
    <3>1. rt.buf \in Seq(Buffers) /\ Head(ch.fromGuest) \in Buffers
      BY <1>0, <2>1, <1>8 DEF Threads
    <3>2. Append(rt.buf, Head(ch.fromGuest)) \in Seq(Buffers) BY <3>1
    <3> QED BY <1>0, <1>10, <3>2 DEF getData, Threads
  <2> QED BY <2>1, <2>2, <1>8 DEF readFromGuest, TypeOK
<1>11. CASE ReadNothing
  <2>1. updateStateLocked(ch) \in Channels BY <1>0, UpdateFields
  <2>2. ch' \in Channels /\ wake' \in SUBSET Flags
    BY <1>0, <1>11, <2>1, NotifyType DEF ReadNothing
  <2>3. rt' \in Threads BY <1>0, <1>11 DEF ReadNothing, Threads
  <2> QED BY <1>11, <2>2, <2>3 DEF ReadNothing, TypeOK
<1>12. CASE decode
  <2>1. CASE \E k \in PacketLengths(rt.buf) : rt' = [rt EXCEPT
                !.pc = IF Stream[rt.buf[k]] = 0 THEN "decode" ELSE "write",
                !.buf = SubSeq(@, k + 1, Len(@)), !.consumed = @ + k,
                !.out = Numbered(rt.replied, rt.replied + Stream[rt.buf[k]]),
                !.replied = @ + Stream[rt.buf[k]]]
    <3>1. PICK k \in PacketLengths(rt.buf) : rt' = [rt EXCEPT
                !.pc = IF Stream[rt.buf[k]] = 0 THEN "decode" ELSE "write",
                !.buf = SubSeq(@, k + 1, Len(@)), !.consumed = @ + k,
                !.out = Numbered(rt.replied, rt.replied + Stream[rt.buf[k]]),
                !.replied = @ + Stream[rt.buf[k]]]
      BY <2>1
    <3>2. k \in 1 .. Len(rt.buf) /\ Stream[rt.buf[k]] \in Nat BY PacketAnswer
    <3>3. /\ rt.buf \in Seq(Buffers) /\ rt.consumed \in Nat /\ rt.replied \in Nat
      BY <1>0 DEF Threads
    <3>4. SubSeq(rt.buf, k + 1, Len(rt.buf)) \in Seq(Buffers) BY <3>2, <3>3
    <3>5. Numbered(rt.replied, rt.replied + Stream[rt.buf[k]]) \in Seq(Nat)
      BY <3>2, <3>3, NumberedSeq
    <3>6. rt.consumed + k \in Nat /\ rt.replied + Stream[rt.buf[k]] \in Nat
      BY <3>2, <3>3
    <3>7. rt' \in Threads BY <1>0, <3>1, <3>4, <3>5, <3>6 DEF Threads
    <3> QED BY <1>12, <3>7 DEF decode, TypeOK
  <2>2. CASE rt' = [rt EXCEPT !.pc = "pop"]
    <3>1. rt' \in Threads BY <1>0, <2>2 DEF Threads
    <3> QED BY <1>12, <3>1 DEF decode, TypeOK
  <2> QED BY <1>12, <2>1, <2>2 DEF decode
<1>13. CASE writeToGuest
  <2> DEFINE r == PushResult(ch, ch.toGuest, ToCapacity)
             c == IF r = "Ok" THEN [ch EXCEPT !.toGuest = Append(@, Head(rt.out))] ELSE ch
  <2>1. Head(rt.out) \in Nat /\ Tail(rt.out) \in Seq(Nat)
    BY <1>0, <1>13, HeadTail DEF writeToGuest, ThreadInv, Threads
  <2>2. c \in Channels
    <3>1. Append(ch.toGuest, Head(rt.out)) \in Seq(Nat) BY <1>0, <2>1 DEF Channels
    <3> HIDE DEF r
    <3> QED BY <1>0, <3>1 DEF Channels
  <2>3. Notify(updateStateLocked(c)) BY <1>13 DEF writeToGuest
  <2> HIDE DEF c
  <2>4. updateStateLocked(c) \in Channels BY <2>2, UpdateFields
  <2>5. ch' \in Channels /\ wake' \in SUBSET Flags
    BY <1>0, <2>3, <2>4, NotifyType
  <2>6. rt' \in Threads BY <1>0, <1>13, <2>1 DEF writeToGuest, Threads
  <2> QED BY <1>13, <2>5, <2>6 DEF writeToGuest, TypeOK
<1>14. CASE snapshotOperation \/ SnapshotDone \/ Proceed \/ setFinished
  <2>1. rt' \in Threads
    BY <1>0, <1>14 DEF snapshotOperation, SnapshotDone, Proceed, setFinished, Threads
  <2> QED BY <1>14, <2>1
        DEF snapshotOperation, SnapshotDone, Proceed, setFinished, TypeOK
<1>15. CASE pauseAllPreSave
  <2>1. ch' \in Channels BY <1>0, <1>15 DEF pauseAllPreSave, Channels
  <2>2. saver' \in Savers
    <3>1. saver.saves + 1 \in 0 .. MaxSaves
      BY <1>0, <1>15, BoundAssumption DEF pauseAllPreSave, Savers
    <3> QED BY <1>0, <1>15, <3>1 DEF pauseAllPreSave, Savers
  <2> QED BY <1>15, <2>1, <2>2 DEF pauseAllPreSave, Savers, TypeOK
<1>16. CASE onSave
  <2>1. snapshot' \in Snapshots
    <3>1. rt.flags \in BOOLEAN BY <1>0 DEF Threads
    <3> QED BY <1>0, <1>16, <3>1 DEF onSave, ThreadSettled, Snapshots
  <2> QED BY <1>16, <2>1 DEF onSave, Snapshots, TypeOK
<1>17. CASE save
  <2>1. CASE snapshot # NoSnapshot
    <3>1. snapshot' \in Snapshots
      BY <1>0, <1>17, <2>1 DEF save, Snapshots, TypeOK
    <3> QED BY <1>17, <3>1 DEF save, Snapshots, TypeOK
  <2> QED BY <1>17, <2>1 DEF IInv, SnapshotInv, save
<1>18. CASE resumeAll
  <2>1. ch' \in Channels BY <1>0, <1>18 DEF resumeAll, Channels
  <2> QED BY <1>18, <2>1 DEF resumeAll, TypeOK
<1>19. CASE cleanupRenderThreads
  <2>1. ch' \in Channels BY <1>0, <1>19 DEF cleanupRenderThreads, Closed, Channels
  <2>2. saver' \in Savers
    <3>1. saver.loads + 1 \in 0 .. MaxLoads
      BY <1>0, <1>19, BoundAssumption DEF cleanupRenderThreads, Savers
    <3> QED BY <1>0, <1>19, <3>1 DEF cleanupRenderThreads, Savers
  <2> QED BY <1>19, <2>1, <2>2 DEF cleanupRenderThreads, Savers, TypeOK
<1>20. CASE createRenderChannel
  <2>1. snapshot.valid BY <1>20 DEF createRenderChannel, IInv, HandShakeInv
  <2>2. snapshot \in Snapshots
    BY <2>1 DEF TypeOK, NoSnapshot, Snapshots
  <2>3. ch' \in Channels /\ rt' \in Threads
    BY <1>20, <2>2 DEF createRenderChannel, Snapshots, Channels, Threads
  <2>4. guest' \in Guests /\ wake' \in SUBSET Flags /\ intact' \in BOOLEAN
    BY <1>20, <2>2 DEF createRenderChannel, Snapshots, TypeOK
  <2> QED BY <1>20, <2>3, <2>4 DEF createRenderChannel, TypeOK
<1>21. CASE stop
  <2> DEFINE c == [Closed(ch, ch.callback) EXCEPT !.state = @ \cup {"Stopped"}]
  <2>1. c \in Channels BY <1>0 DEF Closed, Channels, Flags
  <2>2. /\ ch' = [notifyStateChangeLocked(c) EXCEPT !.callback = "noop"]
        /\ wake' = wake \cup onChannelHostEvent(c)
    BY <1>21 DEF stop
  <2> HIDE DEF c
  <2>3. notifyStateChangeLocked(c) \in Channels BY <2>1, NotifyFields
  <2>4. ch' \in Channels BY <2>2, <2>3 DEF Channels
  <2>5. wake' \in SUBSET Flags BY <1>0, <2>1, <2>2, CallbackFlags
  <2> QED BY <1>21, <2>4, <2>5 DEF stop, TypeOK
<1>22. CASE UNCHANGED vars BY <1>22 DEF vars, TypeOK
<1> QED BY <1>1, <1>2, <1>3, <1>4, <1>5, <1>6, <1>7, <1>9, <1>10, <1>11, <1>12,
           <1>13, <1>14, <1>15, <1>16, <1>17, <1>18, <1>19, <1>20, <1>21, <1>22
        DEF Next, Pipe, Thread, Saver, CloseAfterError

-----------------------------------------------------------------------------
(***************************************************************************)
(* What the steps do to the stream.                                        *)
(***************************************************************************)
SameThread == /\ rt'.buf = rt.buf /\ rt'.out = rt.out /\ rt'.flags = rt.flags
              /\ rt'.consumed = rt.consumed /\ rt'.replied = rt.replied

SameStream == /\ SameThread
              /\ ch'.fromGuest = ch.fromGuest /\ ch'.toGuest = ch.toGuest
              /\ guest'.sent = guest.sent /\ guest'.received = guest.received
              /\ ch.closed => ch'.closed

DecodeEnds == decode /\ rt' = [rt EXCEPT !.pc = "pop"]

LEMMA PipeFrame ==
  ASSUME TypeOK, \/ setEventCallback \/ onGuestWantWakeOn \/ setWantedEvents
                 \/ Awake \/ onGuestClose
  PROVE  SameStream /\ rt' = rt
<1>0. ch \in Channels /\ guest \in Guests /\ wake \in SUBSET Flags BY DEF TypeOK
<1>1. CASE setEventCallback
  <2> DEFINE c == [ch EXCEPT !.callback = "pipe"]
  <2>1. /\ c \in Channels /\ c.fromGuest = ch.fromGuest /\ c.toGuest = ch.toGuest
        /\ c.closed = ch.closed
    BY <1>0 DEF Channels
  <2>2. Notify(c) BY <1>1 DEF setEventCallback
  <2> HIDE DEF c
  <2>3. /\ ch'.fromGuest = ch.fromGuest /\ ch'.toGuest = ch.toGuest
        /\ ch'.closed = ch.closed
    BY <2>1, <2>2, <1>0, NotifyType
  <2> QED BY <1>1, <2>3 DEF setEventCallback, SameStream, SameThread
<1>2. CASE setWantedEvents
  <2> DEFINE c == [ch EXCEPT !.wanted = @ \cup guest.wanted]
  <2>1. /\ c.fromGuest = ch.fromGuest /\ c.toGuest = ch.toGuest
        /\ c.closed = ch.closed
    BY <1>0 DEF Channels
  <2>2. ch' = notifyStateChangeLocked(c) BY <1>2 DEF setWantedEvents, Notify
  <2> HIDE DEF c
  <2>3. /\ ch'.fromGuest = c.fromGuest /\ ch'.toGuest = c.toGuest
        /\ ch'.closed = c.closed
    BY <2>2 DEF notifyStateChangeLocked
  <2>4. guest'.sent = guest.sent /\ guest'.received = guest.received
    BY <1>0, <1>2 DEF setWantedEvents, Guests
  <2> QED BY <1>2, <2>1, <2>3, <2>4 DEF setWantedEvents, SameStream, SameThread
<1>3. CASE onGuestWantWakeOn \/ Awake
  <2>1. guest'.sent = guest.sent /\ guest'.received = guest.received
    BY <1>0, <1>3 DEF onGuestWantWakeOn, Awake, Guests
  <2> QED BY <1>3, <2>1 DEF onGuestWantWakeOn, Awake, SameStream, SameThread
<1>4. CASE onGuestClose
  <2>1. guest'.sent = guest.sent /\ guest'.received = guest.received
    BY <1>0, <1>4 DEF onGuestClose, Guests
  <2>2. /\ ch'.fromGuest = ch.fromGuest /\ ch'.toGuest = ch.toGuest /\ ch'.closed
    BY <1>0, <1>4 DEF onGuestClose, Closed, Channels
  <2> QED BY <1>4, <2>1, <2>2 DEF onGuestClose, SameStream, SameThread
<1> QED BY <1>1, <1>2, <1>3, <1>4

LEMMA ThreadFrame ==
  ASSUME TypeOK, \/ ReadNothing \/ DecodeEnds \/ snapshotOperation \/ SnapshotDone
                 \/ Proceed \/ setFinished
  PROVE  SameStream /\ rt.pc # "write" /\ rt'.pc # "write"
<1>0. ch \in Channels /\ rt \in Threads /\ wake \in SUBSET Flags BY DEF TypeOK
<1>1. SameThread /\ rt.pc # "write" /\ rt'.pc # "write"
  BY <1>0 DEF ReadNothing, DecodeEnds, decode, snapshotOperation, SnapshotDone, Proceed,
              setFinished, SameThread, Threads
<1>2. CASE ReadNothing
  <2> DEFINE c == updateStateLocked(ch)
  <2>1. /\ c \in Channels /\ c.fromGuest = ch.fromGuest /\ c.toGuest = ch.toGuest
        /\ c.closed = ch.closed
    BY <1>0, UpdateFields
  <2>2. Notify(c) BY <1>2 DEF ReadNothing
  <2> HIDE DEF c
  <2>3. /\ ch'.fromGuest = ch.fromGuest /\ ch'.toGuest = ch.toGuest
        /\ ch'.closed = ch.closed
    BY <2>1, <2>2, <1>0, NotifyType
  <2> QED BY <1>1, <1>2, <2>3 DEF ReadNothing, SameStream
<1>3. CASE DecodeEnds \/ snapshotOperation \/ SnapshotDone \/ Proceed \/ setFinished
  BY <1>1, <1>3 DEF DecodeEnds, decode, snapshotOperation, SnapshotDone, Proceed,
                    setFinished, SameStream
<1> QED BY <1>1, <1>2, <1>3

LEMMA SaverFrame ==
  ASSUME TypeOK, \/ pauseAllPreSave \/ onSave \/ save \/ resumeAll
                 \/ cleanupRenderThreads \/ stop \/ UNCHANGED vars
  PROVE  SameStream /\ rt' = rt
<1>0. ch \in Channels BY DEF TypeOK
<1>1. CASE stop
  <2> DEFINE c == [Closed(ch, ch.callback) EXCEPT !.state = @ \cup {"Stopped"}]
  <2>1. /\ c \in Channels /\ c.fromGuest = ch.fromGuest /\ c.toGuest = ch.toGuest
        /\ c.closed
    BY <1>0 DEF Closed, Channels, Flags
  <2>2. ch' = [notifyStateChangeLocked(c) EXCEPT !.callback = "noop"]
    BY <1>1 DEF stop
  <2> HIDE DEF c
  <2>3. /\ ch'.fromGuest = ch.fromGuest /\ ch'.toGuest = ch.toGuest /\ ch'.closed
    BY <2>1, <2>2, NotifyFields DEF Channels
  <2> QED BY <1>1, <2>3 DEF stop, SameStream, SameThread
<1>2. CASE ~stop
  <2>1. /\ ch'.fromGuest = ch.fromGuest /\ ch'.toGuest = ch.toGuest
        /\ ch.closed => ch'.closed
    BY <1>0, <1>2 DEF pauseAllPreSave, onSave, save, resumeAll, cleanupRenderThreads,
                      Closed, vars, Channels
  <2> QED BY <1>2, <2>1 DEF pauseAllPreSave, onSave, save, resumeAll,
                            cleanupRenderThreads, vars, SameStream, SameThread
<1> QED BY <1>1, <1>2

Quiet == \/ setEventCallback \/ onGuestWantWakeOn \/ setWantedEvents
         \/ Awake \/ onGuestClose
         \/ ReadNothing \/ DecodeEnds \/ snapshotOperation \/ SnapshotDone
         \/ Proceed \/ setFinished
         \/ pauseAllPreSave \/ onSave \/ save \/ resumeAll
         \/ cleanupRenderThreads \/ stop \/ UNCHANGED vars

LEMMA QuietFrame ==
  ASSUME TypeOK, ThreadInv(rt), Quiet
  PROVE  SameStream /\ intact' = intact /\ ThreadInv(rt)'
<1>1. SameStream BY PipeFrame, ThreadFrame, SaverFrame DEF Quiet
<1>2. intact' = intact
  BY DEF Quiet, setEventCallback, onGuestWantWakeOn, setWantedEvents, Awake, onGuestClose,
         ReadNothing, DecodeEnds, decode, snapshotOperation, SnapshotDone, Proceed,
         setFinished, pauseAllPreSave, onSave, save, resumeAll, cleanupRenderThreads,
         stop, vars
<1>3. rt' = rt \/ (rt.pc # "write" /\ rt'.pc # "write")
  BY PipeFrame, ThreadFrame, SaverFrame DEF Quiet
<1> QED BY <1>1, <1>2, <1>3 DEF ThreadInv, SameStream, SameThread

(* A read takes the head of the queue, and none is taken in snapshot mode. *)
LEMMA ReadEffect ==
  ASSUME TypeOK, readFromGuest
  PROVE  /\ ch.fromGuest # <<>> /\ ~ch.snapshotMode
         /\ ch'.fromGuest = Tail(ch.fromGuest) /\ ch'.toGuest = ch.toGuest
         /\ ch'.closed = ch.closed /\ ch'.snapshotMode = ch.snapshotMode
         /\ ch'.callback = ch.callback
<1>0. ch \in Channels /\ wake \in SUBSET Flags BY DEF TypeOK
<1> DEFINE c == [ch EXCEPT !.fromGuest = Tail(@)]
<1>1. ch.fromGuest # <<>> /\ ~ch.snapshotMode BY <1>0, PopOk DEF readFromGuest
<1>2. ch.fromGuest \in Seq(Buffers) BY <1>0 DEF Channels
<1>3. Tail(ch.fromGuest) \in Seq(Buffers) BY <1>1, <1>2, HeadTail
<1>4. /\ c \in Channels /\ c.fromGuest = Tail(ch.fromGuest) /\ c.toGuest = ch.toGuest
      /\ c.closed = ch.closed /\ c.snapshotMode = ch.snapshotMode
      /\ c.callback = ch.callback
  BY <1>0, <1>3 DEF Channels
<1>5. Notify(updateStateLocked(c)) BY DEF readFromGuest
<1> HIDE DEF c
<1>6. /\ updateStateLocked(c) \in Channels
      /\ updateStateLocked(c).fromGuest = c.fromGuest
      /\ updateStateLocked(c).toGuest = c.toGuest
      /\ updateStateLocked(c).closed = c.closed
      /\ updateStateLocked(c).snapshotMode = c.snapshotMode
      /\ updateStateLocked(c).callback = c.callback
  BY <1>4, UpdateFields
<1> DEFINE d == updateStateLocked(c)
<1>7. d \in Channels /\ Notify(d) BY <1>5, <1>6
<1> HIDE DEF d
<1>8. /\ ch'.fromGuest = d.fromGuest /\ ch'.toGuest = d.toGuest
      /\ ch'.closed = d.closed /\ ch'.snapshotMode = d.snapshotMode
      /\ ch'.callback = d.callback
  BY <1>0, <1>7, NotifyType
<1> QED BY <1>1, <1>4, <1>6, <1>8 DEF d

(* A write in an open channel appends the answer in hand.                  *)
LEMMA WriteEffect ==
  ASSUME TypeOK, writeToGuest
  PROVE  /\ ch'.fromGuest = ch.fromGuest
         /\ ~ch.closed => ch'.toGuest = Append(ch.toGuest, Head(rt.out))
         /\ ch'.closed = ch.closed /\ ch'.snapshotMode = ch.snapshotMode
         /\ ch'.callback = ch.callback
<1>0. ch \in Channels /\ wake \in SUBSET Flags BY DEF TypeOK
<1> DEFINE r == PushResult(ch, ch.toGuest, ToCapacity)
           c == IF r = "Ok" THEN [ch EXCEPT !.toGuest = Append(@, Head(rt.out))] ELSE ch
           d == updateStateLocked(c)
<1>1. r # "TryAgain" /\ Notify(d) BY DEF writeToGuest
<1>2. ~ch.closed => r = "Ok" BY <1>1 DEF PushResult
<1> HIDE DEF r
<1>3. /\ c.fromGuest = ch.fromGuest /\ c.closed = ch.closed
      /\ c.snapshotMode = ch.snapshotMode /\ c.callback = ch.callback
      /\ ~ch.closed => c.toGuest = Append(ch.toGuest, Head(rt.out))
  BY <1>0, <1>2 DEF Channels
<1> HIDE DEF c
<1>4. /\ d.fromGuest = c.fromGuest /\ d.toGuest = c.toGuest /\ d.closed = c.closed
      /\ d.snapshotMode = c.snapshotMode /\ d.callback = c.callback
  BY DEF updateStateLocked
<1>5. ch' = notifyStateChangeLocked(d) BY <1>1 DEF Notify
<1> HIDE DEF d
<1>6. /\ ch'.fromGuest = d.fromGuest /\ ch'.toGuest = d.toGuest /\ ch'.closed = d.closed
      /\ ch'.snapshotMode = d.snapshotMode /\ ch'.callback = d.callback
  BY <1>5 DEF notifyStateChangeLocked
<1> QED BY <1>3, <1>4, <1>6

-----------------------------------------------------------------------------
(***************************************************************************)
(* The stream is conserved.  Each lemma is about a channel c and a guest   *)
(* g: the thread's own, or those in the snapshot that goes with it.        *)
(***************************************************************************)
LEMMA DecodePacket ==
  ASSUME TypeOK, QueuesInv, ThreadInv(rt), decode, ~DecodeEnds,
         NEW c, NEW g, c.fromGuest \in Seq(Buffers), g.sent \in Nat,
         Requests(rt, c, g)
  PROVE  /\ ThreadInv(rt)' /\ Joined(rt'.buf, c.fromGuest, rt'.consumed - 1, g.sent - 1)
         /\ \A q \in Seq(Nat), n \in Nat :
              Joined(q, rt.out, n, rt.replied) => Joined(q, rt'.out, n, rt'.replied)
<1>0. /\ rt \in Threads /\ rt.buf \in Seq(Buffers) /\ rt.consumed \in Nat
      /\ rt.replied \in Nat /\ rt.pc = "decode" /\ rt.out = <<>>
  BY DEF TypeOK, Threads, decode, ThreadInv
<1>1. PICK k \in PacketLengths(rt.buf) : rt' = [rt EXCEPT
                !.pc = IF Stream[rt.buf[k]] = 0 THEN "decode" ELSE "write",
                !.buf = SubSeq(@, k + 1, Len(@)), !.consumed = @ + k,
                !.out = Numbered(rt.replied, rt.replied + Stream[rt.buf[k]]),
                !.replied = @ + Stream[rt.buf[k]]]
  BY DEF decode, DecodeEnds
<1>2. k \in 1 .. Len(rt.buf) /\ Stream[rt.buf[k]] \in Nat BY PacketAnswer
<1> DEFINE n == Stream[rt.buf[k]]
<1>3. /\ rt'.pc = IF n = 0 THEN "decode" ELSE "write"
      /\ rt'.buf = SubSeq(rt.buf, k + 1, Len(rt.buf)) /\ rt'.consumed = rt.consumed + k
      /\ rt'.out = Numbered(rt.replied, rt.replied + n) /\ rt'.replied = rt.replied + n
      /\ rt'.flags = rt.flags
  BY <1>0, <1>1 DEF Threads
<1>4. n \in Nat BY <1>2
<1> HIDE DEF n
<1>5. ThreadInv(rt)'
  <2>1. rt.flags BY <1>0, <1>2 DEF ThreadInv
  <2>2. (rt'.pc = "write") <=> (rt'.out # <<>>) BY <1>0, <1>3, <1>4, NumberedSeq
  <2> QED BY <1>3, <2>1, <2>2 DEF ThreadInv
<1>6. Joined(rt'.buf, c.fromGuest, rt'.consumed - 1, g.sent - 1)
  <2> DEFINE s == rt.buf  t == c.fromGuest  a == rt.consumed - 1  b == g.sent - 1
  <2>1. /\ s \in Seq(Buffers) /\ t \in Seq(Buffers) /\ a \in Int /\ b \in Int
        /\ k \in 0 .. Len(s) /\ Joined(s, t, a, b)
    BY <1>0, <1>2 DEF Requests
  <2> HIDE DEF s, t, a, b
  <2>2. Joined(SubSeq(s, k + 1, Len(s)), t, a + k, b) BY <2>1, JoinedDrop
  <2>3. a + k = rt'.consumed - 1 BY <1>0, <1>2, <1>3 DEF a
  <2> QED BY <1>3, <2>2, <2>3 DEF s, t, b
<1>7. ASSUME NEW q \in Seq(Nat), NEW m \in Nat, Joined(q, rt.out, m, rt.replied)
      PROVE  Joined(q, rt'.out, m, rt'.replied)
  <2>1. Joined(q, <<>>, m, rt.replied) BY <1>0, <1>7
  <2>2. Joined(q, Numbered(rt.replied, rt.replied + n), m, rt.replied + n)
    BY <1>0, <1>4, <2>1, JoinedFresh
  <2> QED BY <1>3, <2>2
<1> QED BY <1>5, <1>6, <1>7

LEMMA QueuesStep == IInv /\ [Next]_vars => QueuesInv' /\ ThreadInv(rt)'
<1> SUFFICES ASSUME IInv, [Next]_vars PROVE QueuesInv' /\ ThreadInv(rt)'
  OBVIOUS
<1> TypeOK /\ ThreadInv(rt) /\ QueuesInv BY DEF IInv
<1>0. /\ ch \in Channels /\ rt \in Threads /\ guest \in Guests
      /\ ch.fromGuest \in Seq(Buffers) /\ ch.toGuest \in Seq(Nat)
      /\ rt.buf \in Seq(Buffers) /\ rt.out \in Seq(Nat)
      /\ rt.consumed \in Nat /\ rt.replied \in Nat
      /\ guest.sent \in Nat /\ guest.received \in Nat
  BY DEF TypeOK, Channels, Threads, Guests
<1>1. CASE Quiet
  <2>1. SameStream /\ intact' = intact /\ ThreadInv(rt)' BY <1>1, QuietFrame
  <2> QED BY <2>1 DEF QueuesInv, Requests, Replies, SameStream, SameThread
<1>2. CASE onGuestSend
  <2>1. ~ch.closed BY <1>0, <1>2, PushOk DEF onGuestSend
  <2>2. guest.sent \in Buffers /\ guest'.sent = guest.sent + 1
        /\ guest'.received = guest.received
    BY <1>0, <1>2 DEF onGuestSend, Guests, Buffers
  <2>3. /\ ch'.fromGuest = Append(ch.fromGuest, guest.sent)
        /\ ch'.toGuest = ch.toGuest /\ ch'.closed = ch.closed
    BY <1>0, <1>2 DEF onGuestSend, updateStateLocked, Channels
  <2>4. Joined(rt.buf, Append(ch.fromGuest, guest.sent), rt.consumed - 1, guest.sent)
    <3> DEFINE b == guest.sent - 1
    <3>0. guest.sent \in Nat /\ rt.consumed \in Nat BY <1>0
    <3>1. b + 1 = guest.sent /\ b \in Int /\ rt.consumed - 1 \in Int BY <3>0
    <3>2. Joined(rt.buf, ch.fromGuest, rt.consumed - 1, b) BY DEF QueuesInv, Requests
    <3> HIDE DEF b
    <3>3. b + 1 \in Buffers BY <2>2, <3>1
    <3>4. Joined(rt.buf, Append(ch.fromGuest, b + 1), rt.consumed - 1, b + 1)
      BY <1>0, <3>1, <3>2, <3>3, JoinedGrow
    <3> QED BY <3>1, <3>4
  <2>5. guest'.sent - 1 = guest.sent BY <1>0, <2>2
  <2>6. rt' = rt /\ intact' = intact BY <1>2 DEF onGuestSend
  <2> QED BY <2>2, <2>3, <2>4, <2>5, <2>6 DEF QueuesInv, Requests, Replies, ThreadInv
<1>3. CASE onGuestRecv
  <2>1. ch.toGuest # <<>> BY <1>0, <1>3, PopOk DEF onGuestRecv
  <2>2. guest'.sent = guest.sent /\ guest'.received = guest.received + 1
    BY <1>0, <1>3 DEF onGuestRecv, Guests
  <2>3. /\ ch'.fromGuest = ch.fromGuest /\ ch'.closed = ch.closed
        /\ ch'.toGuest = Tail(ch.toGuest)
    BY <1>0, <1>3 DEF onGuestRecv, updateStateLocked, Channels
  <2>4. ASSUME Replies(rt, ch, guest)
        PROVE  Joined(Tail(ch.toGuest), rt.out, guest.received + 1, rt.replied)
    <3>1. Joined(ch.toGuest, rt.out, guest.received, rt.replied) BY <2>4 DEF Replies
    <3> QED BY <1>0, <2>1, <3>1, JoinedTail
  <2>5. rt' = rt /\ intact' = intact BY <1>3 DEF onGuestRecv
  <2> QED BY <2>2, <2>3, <2>4, <2>5 DEF QueuesInv, Requests, Replies, ThreadInv
<1>4. CASE ReadFlags
  <2>1. /\ ch.fromGuest # <<>> /\ ch'.fromGuest = Tail(ch.fromGuest)
        /\ ch'.toGuest = ch.toGuest /\ ch'.closed = ch.closed
    BY <1>4, ReadEffect DEF ReadFlags
  <2>2. guest' = guest /\ intact' = intact BY <1>4 DEF ReadFlags, readFromGuest
  <2>3. /\ rt'.buf = rt.buf /\ rt'.out = rt.out /\ rt'.replied = rt.replied
        /\ rt'.pc = rt.pc /\ rt'.flags /\ rt'.consumed = 1
    BY <1>0, <1>4 DEF ReadFlags, Threads
  <2>4. rt.buf = <<>> /\ rt.consumed = 0 BY <1>4 DEF ReadFlags, ThreadInv
  <2>5. Joined(<<>>, Tail(ch.fromGuest), 0, guest.sent - 1)
    <3>1. Joined(<<>>, ch.fromGuest, -1, guest.sent - 1)
      BY <2>4 DEF QueuesInv, Requests
    <3> QED BY <1>0, <2>1, <3>1, SMT DEF Joined
  <2>6. rt'.consumed - 1 = 0 BY <2>3
  <2> QED BY <2>1, <2>2, <2>3, <2>4, <2>5, <2>6
        DEF QueuesInv, Requests, Replies, ThreadInv
<1>5. CASE getData
  <2>1. /\ ch.fromGuest # <<>> /\ ch'.fromGuest = Tail(ch.fromGuest)
        /\ ch'.toGuest = ch.toGuest /\ ch'.closed = ch.closed
    BY <1>5, ReadEffect DEF getData
  <2>2. guest' = guest /\ intact' = intact BY <1>5 DEF getData, readFromGuest
  <2>3. /\ rt'.buf = Append(rt.buf, Head(ch.fromGuest)) /\ rt'.out = rt.out
        /\ rt'.replied = rt.replied /\ rt'.flags /\ rt'.consumed = rt.consumed
        /\ rt'.pc = "more" /\ rt.pc # "write"
    BY <1>0, <1>5 DEF getData, Threads
  <2>4. Joined(Append(rt.buf, Head(ch.fromGuest)), Tail(ch.fromGuest),
               rt.consumed - 1, guest.sent - 1)
    <3>1. Joined(rt.buf, ch.fromGuest, rt.consumed - 1, guest.sent - 1)
      BY DEF QueuesInv, Requests
    <3>2. rt.consumed - 1 \in Int /\ guest.sent - 1 \in Int BY <1>0
    <3> QED BY <1>0, <2>1, <3>1, <3>2, JoinedMove
  <2> QED BY <2>1, <2>2, <2>3, <2>4 DEF QueuesInv, Requests, Replies, ThreadInv
<1>6. CASE decode /\ ~DecodeEnds
  <2>1. ch' = ch /\ guest' = guest /\ intact' = intact BY <1>6 DEF decode
  <2>2. Requests(rt, ch, guest) BY DEF QueuesInv
  <2>3. /\ ThreadInv(rt)'
        /\ Joined(rt'.buf, ch.fromGuest, rt'.consumed - 1, guest.sent - 1)
        /\ \A q \in Seq(Nat), n \in Nat :
             Joined(q, rt.out, n, rt.replied) => Joined(q, rt'.out, n, rt'.replied)
    BY <1>0, <1>6, <2>2, DecodePacket
  <2>4. Replies(rt, ch, guest) => Replies(rt', ch, guest) BY <1>0, <2>3 DEF Replies
  <2> QED BY <2>1, <2>3, <2>4 DEF QueuesInv, Requests, Replies
<1>7. CASE writeToGuest
  <2>1. /\ ch'.fromGuest = ch.fromGuest /\ ch'.closed = ch.closed
        /\ ~ch.closed => ch'.toGuest = Append(ch.toGuest, Head(rt.out))
    BY <1>7, WriteEffect
  <2>2. guest' = guest /\ intact' = intact BY <1>7 DEF writeToGuest
  <2>3. /\ rt'.buf = rt.buf /\ rt'.out = Tail(rt.out) /\ rt'.replied = rt.replied
        /\ rt'.flags = rt.flags /\ rt'.consumed = rt.consumed
        /\ rt'.pc = IF Len(rt.out) = 1 THEN "decode" ELSE "write"
    BY <1>0, <1>7 DEF writeToGuest, Threads
  <2>4. rt.out # <<>> BY <1>7 DEF writeToGuest, ThreadInv
  <2>5. (rt'.pc = "write") <=> (rt'.out # <<>>)
    <3>1. (Len(rt.out) = 1) <=> (Tail(rt.out) = <<>>)
      <4> DEFINE q == rt.out
      <4>1. q \in Seq(Nat) /\ q # <<>> BY <1>0, <2>4
      <4> HIDE DEF q
      <4>2. Len(Tail(q)) = Len(q) - 1 /\ Tail(q) \in Seq(Nat) /\ Len(q) \in Nat BY <4>1
      <4>3. (Tail(q) = <<>>) <=> (Len(Tail(q)) = 0) BY <4>2, EmptySeq
      <4> QED BY <4>2, <4>3 DEF q
    <3> QED BY <2>3, <3>1
  <2>6. ASSUME Replies(rt, ch, guest)
        PROVE  Joined(Append(ch.toGuest, Head(rt.out)), Tail(rt.out),
                      guest.received, rt.replied)
    <3>1. Joined(ch.toGuest, rt.out, guest.received, rt.replied) BY <2>6 DEF Replies
    <3> QED BY <1>0, <2>4, <3>1, JoinedMove
  <2> QED BY <2>1, <2>2, <2>3, <2>5, <2>6 DEF QueuesInv, Requests, Replies, ThreadInv
<1>8. CASE createRenderChannel
  <2>1. snapshot.valid BY <1>8 DEF createRenderChannel, IInv, HandShakeInv
  <2>2. snapshot \in Snapshots BY <2>1 DEF TypeOK, NoSnapshot, Snapshots
  <2>3. /\ Continues(snapshot.rt) /\ snapshot.rt.pc = "paused" /\ ThreadInv(snapshot.rt)
    BY <2>1 DEF IInv, SnapshotInv
  <2>4. /\ rt'.buf = snapshot.rt.buf /\ rt'.out = snapshot.rt.out
        /\ rt'.replied = snapshot.rt.replied /\ rt'.consumed = snapshot.rt.consumed
        /\ rt'.pc = "starting" /\ rt'.flags
        /\ ch'.fromGuest = snapshot.ch.fromGuest /\ ch'.toGuest = snapshot.ch.toGuest
        /\ ch'.closed = snapshot.ch.closed /\ guest' = snapshot.guest
        /\ intact' = (intact /\ snapshot.intact)
    BY <1>8, <2>2 DEF createRenderChannel, Snapshots, Channels, Threads
  <2> QED BY <2>3, <2>4 DEF QueuesInv, Continues, Requests, Replies, ThreadInv
<1> QED BY <1>1, <1>2, <1>3, <1>4, <1>5, <1>6, <1>7, <1>8
        DEF Next, Pipe, Thread, Saver, CloseAfterError, Quiet

-----------------------------------------------------------------------------
(***************************************************************************)
(* The hand-shake and the snapshot.                                        *)
(***************************************************************************)
LEMMA HandShakeStep == IInv /\ [Next]_vars => HandShakeInv'
<1> SUFFICES ASSUME IInv, [Next]_vars PROVE HandShakeInv'
  OBVIOUS
<1>0. TypeOK /\ HandShakeInv /\ SnapshotInv /\ ch \in Channels /\ saver \in Savers
      /\ rt \in Threads
  BY DEF IInv, TypeOK, Savers
<1>1. CASE Pipe \/ onGuestClose
  <2>1. /\ rt' = rt /\ mSnapshotState' = mSnapshotState /\ saver' = saver
        /\ snapshot' = snapshot
    BY <1>1 DEF Pipe, CloseAfterError, setEventCallback, onGuestSend, onGuestRecv,
                onGuestWantWakeOn, setWantedEvents, Awake, onGuestClose
  <2>2. ch'.snapshotMode = ch.snapshotMode
    BY <1>0, <1>1 DEF Pipe, CloseAfterError, setEventCallback, onGuestSend, onGuestRecv,
                onGuestWantWakeOn, setWantedEvents, Awake, onGuestClose, Notify,
                notifyStateChangeLocked, updateStateLocked, Closed, Channels
  <2> QED BY <1>0, <2>1, <2>2 DEF HandShakeInv
<1>2. CASE Thread
  <2>1. saver' = saver /\ snapshot' = snapshot
    BY <1>2 DEF Thread, ReadFlags, getData, readFromGuest, ReadNothing, decode,
                writeToGuest, snapshotOperation, SnapshotDone, Proceed, setFinished
  <2>2. ch'.snapshotMode = ch.snapshotMode
    <3>1. CASE ReadNothing
      BY <1>0, <3>1 DEF ReadNothing, Notify, notifyStateChangeLocked, updateStateLocked
    <3>2. CASE ReadFlags \/ getData \/ writeToGuest
      BY <1>0, <3>2, ReadEffect, WriteEffect DEF ReadFlags, getData
    <3>3. CASE ch' = ch BY <3>3
    <3> QED BY <1>2, <3>1, <3>2, <3>3
          DEF Thread, decode, snapshotOperation, SnapshotDone, Proceed, setFinished
  <2>3. mSnapshotState' = "Finished" => rt'.pc = "paused"
    BY <1>0, <1>2 DEF Thread, ReadFlags, getData, readFromGuest, ReadNothing, decode,
                writeToGuest, snapshotOperation, SnapshotDone, Proceed, setFinished,
                HandShakeInv, Threads
  <2> QED BY <1>0, <2>1, <2>2, <2>3 DEF HandShakeInv
<1>3. CASE pauseAllPreSave \/ onSave \/ resumeAll \/ cleanupRenderThreads
           \/ createRenderChannel
  BY <1>0, <1>3 DEF pauseAllPreSave, onSave, resumeAll, cleanupRenderThreads,
       createRenderChannel, HandShakeInv, Savers, Channels
<1>4. CASE save
  BY <1>0, <1>4 DEF save, HandShakeInv, Savers
<1>5. CASE stop
  BY <1>0, <1>5 DEF stop, HandShakeInv, notifyStateChangeLocked, Closed, Channels
<1>6. CASE UNCHANGED vars BY <1>0, <1>6 DEF vars, HandShakeInv
<1> QED BY <1>1, <1>2, <1>3, <1>4, <1>5, <1>6 DEF Next, Saver

(* A thread that has come to rest stays there while the save goes on.      *)
LEMMA SettledRests ==
  ASSUME TypeOK, HandShakeInv, ThreadSettled, Thread
  PROVE  FALSE
<1>1. rt.pc = "finished" \/ (rt.pc = "paused" /\ mSnapshotState = "Finished")
  BY DEF ThreadSettled, HandShakeInv
<1> QED BY <1>1 DEF Thread, ReadFlags, getData, ReadNothing, decode, writeToGuest,
                    snapshotOperation, SnapshotDone, Proceed, setFinished

(* Beside a save, the thread can no longer read, but may decode and write. *)
LEMMA WorkBesideSave ==
  ASSUME IInv, saver.pc = "queues", Thread
  PROVE  ~snapshot.intact /\ Requests(rt, snapshot.ch, snapshot.guest)'
<1>0. /\ TypeOK /\ HandShakeInv /\ SnapshotInv /\ ThreadInv(rt) /\ QueuesInv
      /\ snapshot \in Snapshots /\ ch.snapshotMode /\ rt \in Threads
      /\ snapshot.ch.fromGuest \in Seq(Buffers) /\ snapshot.guest.sent \in Nat
      /\ Requests(rt, snapshot.ch, snapshot.guest)
  <2>1. TypeOK /\ HandShakeInv /\ SnapshotInv /\ ThreadInv(rt) /\ QueuesInv BY DEF IInv
  <2>2. snapshot # NoSnapshot /\ Continues(rt) BY <2>1 DEF SnapshotInv
  <2>3. snapshot \in Snapshots BY <2>1, <2>2 DEF TypeOK, Snapshots
  <2>4. snapshot.ch \in Channels /\ snapshot.guest \in Guests BY <2>3 DEF Snapshots
  <2>5. snapshot.ch.fromGuest \in Seq(Buffers) BY <2>4 DEF Channels
  <2>6. snapshot.guest.sent \in Nat BY <2>4 DEF Guests
  <2>7. ch.snapshotMode BY <2>1 DEF HandShakeInv
  <2>8. rt \in Threads BY <2>1 DEF TypeOK
  <2> QED BY <2>1, <2>2, <2>3, <2>5, <2>6, <2>7, <2>8 DEF Continues
<1>1. ~snapshot.intact BY <1>0, SettledRests DEF SnapshotInv
<1>2. snapshot' = snapshot
  BY DEF Thread, ReadFlags, getData, readFromGuest, ReadNothing, decode,
         writeToGuest, snapshotOperation, SnapshotDone, Proceed, setFinished
<1>3. CASE ReadFlags \/ getData
  BY <1>0, <1>3, ReadEffect DEF ReadFlags, getData
<1>4. CASE ReadNothing \/ DecodeEnds \/ snapshotOperation \/ SnapshotDone \/ Proceed
           \/ setFinished
  <2>1. rt'.buf = rt.buf /\ rt'.consumed = rt.consumed
    BY <1>0, <1>4, ThreadFrame DEF SameStream, SameThread
  <2> QED BY <1>0, <1>1, <1>2, <2>1 DEF Requests
<1>5. CASE decode /\ ~DecodeEnds
  <2>1. Joined(rt'.buf, snapshot.ch.fromGuest, rt'.consumed - 1, snapshot.guest.sent - 1)
    BY <1>0, <1>5, DecodePacket
  <2> QED BY <1>1, <1>2, <2>1 DEF Requests
<1>6. CASE writeToGuest
  <2>1. rt'.buf = rt.buf /\ rt'.consumed = rt.consumed
    BY <1>0, <1>6 DEF writeToGuest, Threads
  <2> QED BY <1>0, <1>1, <1>2, <2>1 DEF Requests
<1> QED BY <1>3, <1>4, <1>5, <1>6 DEF Thread

LEMMA SnapshotStep == IInv /\ [Next]_vars => SnapshotInv'
<1> SUFFICES ASSUME IInv, [Next]_vars PROVE SnapshotInv'
  OBVIOUS
<1>0. /\ TypeOK /\ HandShakeInv /\ SnapshotInv /\ ThreadInv(rt) /\ QueuesInv
      /\ saver \in Savers /\ rt \in Threads
  BY DEF IInv, TypeOK, Savers
<1>1. CASE onSave
  <2>1. /\ snapshot' = [ch |-> ch, guest |-> guest, wake |-> wake, rt |-> rt,
                        valid |-> FALSE, intact |-> ThreadSettled /\ rt.flags]
        /\ rt' = rt /\ mSnapshotState' = mSnapshotState /\ intact' = intact
    BY <1>1 DEF onSave
  <2>2. /\ snapshot'.ch = ch /\ snapshot'.guest = guest /\ ~snapshot'.valid
        /\ snapshot'.intact => ThreadSettled
    BY <2>1
  <2>3. snapshot' # NoSnapshot
    <3>1. DOMAIN snapshot' # DOMAIN NoSnapshot BY <2>1 DEF NoSnapshot
    <3> QED BY <3>1
  <2>4. Continues(rt)' BY <1>0, <2>1, <2>2 DEF Continues, QueuesInv, Requests, Replies
  <2>5. ThreadSettled' <=> ThreadSettled BY <2>1 DEF ThreadSettled
  <2> QED BY <2>2, <2>3, <2>4, <2>5 DEF SnapshotInv
<1>2. CASE save
  <2>1. /\ snapshot # NoSnapshot /\ Continues(rt) /\ ~snapshot.valid
    BY <1>0, <1>2 DEF save, SnapshotInv
  <2>2. snapshot \in Snapshots BY <1>0, <2>1 DEF TypeOK, Snapshots
  <2>3. /\ snapshot'.ch = snapshot.ch /\ snapshot'.guest = snapshot.guest
        /\ snapshot'.rt = rt /\ snapshot'.intact = snapshot.intact
        /\ snapshot'.valid = (mSnapshotState = "Finished")
        /\ rt' = rt /\ intact' = intact /\ saver'.pc = "saved"
    BY <1>0, <1>2, <2>2 DEF save, Snapshots, Savers
  <2>4. snapshot'.valid => rt.pc = "paused" BY <1>0, <2>3 DEF HandShakeInv
  <2>5. Continues(snapshot.rt)' BY <2>1, <2>3 DEF Continues, Requests, Replies
  <2>6. ThreadInv(snapshot.rt)' BY <1>0, <2>3 DEF ThreadInv
  <2> QED BY <2>3, <2>4, <2>5, <2>6 DEF SnapshotInv
<1>3. CASE ~onSave /\ ~save
  <2>1. snapshot' = snapshot /\ (intact' => intact)
    <3>1. CASE createRenderChannel
      <4>1. snapshot' = snapshot /\ intact' = (intact /\ snapshot.intact)
        BY <3>1 DEF createRenderChannel
      <4> QED BY <4>1, Zenon
    <3>2. ASSUME ~createRenderChannel PROVE snapshot' = snapshot /\ intact' = intact
      BY <1>3, <3>2 DEF Next, Pipe, Thread, Saver, CloseAfterError, setEventCallback,
         onGuestSend, onGuestRecv, onGuestWantWakeOn, setWantedEvents, Awake,
         onGuestClose, ReadFlags, getData, readFromGuest, ReadNothing, decode,
         writeToGuest, snapshotOperation, SnapshotDone, Proceed, setFinished,
         pauseAllPreSave, resumeAll, cleanupRenderThreads, stop, vars
    <3>3. ASSUME ~createRenderChannel PROVE intact' => intact
      <4>1. intact' = intact /\ intact \in BOOLEAN BY <1>0, <3>2, <3>3 DEF TypeOK
      <4>2. CASE intact = TRUE BY <4>1, <4>2
      <4>3. CASE intact = FALSE BY <4>1, <4>3
      <4> QED BY <4>1, <4>2, <4>3
    <3> QED BY <3>1, <3>2, <3>3, Zenon
  <2>2. snapshot'.valid => /\ Continues(snapshot.rt)' /\ snapshot'.rt.pc = "paused"
                           /\ ThreadInv(snapshot.rt)'
    BY <1>0, <2>1 DEF SnapshotInv, Continues, Requests, Replies, ThreadInv
  <2>3. ASSUME saver'.pc = "queues"
        PROVE  /\ saver.pc = "queues"
               /\ Thread \/ (rt' = rt /\ mSnapshotState' = mSnapshotState)
    BY <1>0, <1>3, <2>3 DEF Next, Pipe, Thread, Saver, CloseAfterError,
         setEventCallback, onGuestSend, onGuestRecv, onGuestWantWakeOn,
         setWantedEvents, Awake, onGuestClose, ReadFlags, getData, readFromGuest,
         ReadNothing, decode, writeToGuest, snapshotOperation, SnapshotDone, Proceed,
         setFinished, pauseAllPreSave, resumeAll, cleanupRenderThreads,
         createRenderChannel, stop, vars, Savers
  <2>4. ASSUME saver'.pc = "queues", Thread
        PROVE  Continues(rt)' /\ ~snapshot'.intact
    <3>1. ~snapshot.intact /\ Requests(rt, snapshot.ch, snapshot.guest)'
      BY <2>3, <2>4, WorkBesideSave
    <3> QED BY <2>1, <3>1 DEF Continues
  <2>5. ASSUME saver'.pc = "queues", rt' = rt, mSnapshotState' = mSnapshotState
        PROVE  Continues(rt)' /\ (snapshot'.intact => ThreadSettled')
    <3>1. Continues(rt) /\ (snapshot.intact => ThreadSettled)
      BY <1>0, <2>3, <2>5 DEF SnapshotInv
    <3> QED BY <2>1, <2>5, <3>1 DEF Continues, Requests, Replies, ThreadSettled
  <2>6. saver'.pc = "queues" => snapshot' # NoSnapshot /\ ~snapshot'.valid
    BY <1>0, <2>1, <2>3 DEF SnapshotInv
  <2> QED BY <2>2, <2>3, <2>4, <2>5, <2>6 DEF SnapshotInv
<1> QED BY <1>1, <1>2, <1>3

-----------------------------------------------------------------------------
(***************************************************************************)
(* Callbacks and wake-ups.                                                 *)
(***************************************************************************)
LEMMA ThreadKeepsCallback ==
  ASSUME TypeOK, Thread
  PROVE  /\ ch'.callback = ch.callback /\ ch'.closed = ch.closed
         /\ guest' = guest /\ saver' = saver /\ snapshot' = snapshot
<1>1. guest' = guest /\ saver' = saver /\ snapshot' = snapshot
  BY DEF Thread, ReadFlags, getData, readFromGuest, ReadNothing, decode, writeToGuest,
         snapshotOperation, SnapshotDone, Proceed, setFinished
<1>2. CASE ReadNothing
  BY <1>1, <1>2 DEF ReadNothing, Notify, notifyStateChangeLocked, updateStateLocked
<1>3. CASE ReadFlags \/ getData \/ writeToGuest
  BY <1>1, <1>3, ReadEffect, WriteEffect DEF ReadFlags, getData
<1>4. CASE ch' = ch BY <1>1, <1>4
<1> QED BY <1>2, <1>3, <1>4
      DEF Thread, decode, snapshotOperation, SnapshotDone, Proceed, setFinished

LEMMA CallbackStep == IInv /\ [Next]_vars => CallbackInv'
<1> SUFFICES ASSUME IInv, [Next]_vars PROVE CallbackInv'
  OBVIOUS
<1>0. /\ TypeOK /\ HandShakeInv /\ SnapshotInv /\ CallbackInv
      /\ ch \in Channels /\ guest \in Guests /\ saver \in Savers /\ rt \in Threads
  BY DEF IInv, TypeOK, Savers
<1>1. CASE setEventCallback
  <2>1. ch'.callback = "pipe" /\ guest' = guest /\ saver' = saver /\ snapshot' = snapshot
    BY <1>0, <1>1 DEF setEventCallback, Notify, notifyStateChangeLocked, Channels
  <2> QED BY <1>0, <2>1 DEF CallbackInv
<1>2. CASE onGuestSend \/ onGuestRecv \/ onGuestWantWakeOn \/ Awake
  <2>1. /\ ch'.callback = ch.callback /\ ch'.closed = ch.closed
        /\ ch.callback # "none" /\ saver.pc = "idle"
        /\ saver' = saver /\ snapshot' = snapshot
    BY <1>0, <1>2 DEF onGuestSend, onGuestRecv, onGuestWantWakeOn, Awake, Running,
                      updateStateLocked, Channels
  <2> QED BY <1>0, <2>1 DEF CallbackInv
<1>3. CASE setWantedEvents
  <2>1. /\ ch'.callback = ch.callback /\ ch'.closed = ch.closed
        /\ saver' = saver /\ snapshot' = snapshot
        /\ guest.pc = "wanting" /\ guest'.pc = "asleep"
    BY <1>0, <1>3 DEF setWantedEvents, Notify, notifyStateChangeLocked, Channels, Guests
  <2> QED BY <1>0, <2>1 DEF CallbackInv
<1>4. CASE onGuestClose
  <2>1. ch'.callback = "noop" /\ ch'.closed /\ guest'.pc = "closed" /\ snapshot' = snapshot
    BY <1>0, <1>4 DEF onGuestClose, Closed, Channels, Guests
  <2> QED BY <1>0, <2>1 DEF CallbackInv
<1>5. CASE Thread
  <2>1. /\ ch'.callback = ch.callback /\ ch'.closed = ch.closed
        /\ guest' = guest /\ saver' = saver /\ snapshot' = snapshot
    BY <1>0, <1>5, ThreadKeepsCallback
  <2>2. rt.pc \in {"starting", "copying", "paused"} /\ mSnapshotState # "Empty"
        => rt'.pc \in {"starting", "copying", "paused"} /\ mSnapshotState' # "Empty"
    BY <1>0, <1>5 DEF Thread, ReadFlags, getData, readFromGuest, ReadNothing, decode,
       writeToGuest, snapshotOperation, SnapshotDone, Proceed, setFinished, Threads
  <2> QED BY <1>0, <2>1, <2>2 DEF CallbackInv
<1>6. CASE pauseAllPreSave \/ resumeAll \/ cleanupRenderThreads
  <2>1. /\ ch.callback # "none" /\ ch'.callback # "none"
        /\ ch'.callback = "noop" => ch'.closed
        /\ guest' = guest /\ snapshot' = snapshot
        /\ saver'.pc = "paused" => guest.pc # "wanting"
    BY <1>0, <1>6 DEF pauseAllPreSave, resumeAll, cleanupRenderThreads, Closed,
                      CallbackInv, Channels, Savers
  <2> QED BY <1>0, <2>1 DEF CallbackInv
<1>7. CASE onSave
  <2>1. /\ ch' = ch /\ guest' = guest /\ rt' = rt /\ saver'.pc = "queues"
        /\ saver.pc = "paused" /\ snapshot'.guest = guest
    BY <1>0, <1>7 DEF onSave, Savers
  <2> QED BY <1>0, <2>1 DEF CallbackInv
<1>8. CASE save
  <2>1. snapshot # NoSnapshot BY <1>0, <1>8 DEF save, SnapshotInv
  <2>2. snapshot \in Snapshots BY <1>0, <2>1 DEF TypeOK, Snapshots
  <2>3. /\ ch' = ch /\ guest' = guest /\ rt' = rt /\ saver'.pc = "saved"
        /\ saver.pc = "queues" /\ snapshot'.guest = snapshot.guest
    BY <1>0, <1>8, <2>2 DEF save, Savers, Snapshots
  <2> QED BY <1>0, <2>1, <2>3 DEF CallbackInv
<1>9. CASE createRenderChannel
  <2>1. snapshot.valid BY <1>0, <1>9 DEF createRenderChannel, HandShakeInv
  <2>2. snapshot # NoSnapshot BY <2>1 DEF NoSnapshot
  <2>3. snapshot \in Snapshots BY <1>0, <2>2 DEF TypeOK, Snapshots
  <2>4. /\ ch'.callback = "none" /\ guest' = snapshot.guest /\ rt'.pc = "starting"
        /\ mSnapshotState' = "StartLoading" /\ saver'.pc = "loaded"
        /\ snapshot' = snapshot
    BY <1>0, <1>9, <2>3 DEF createRenderChannel, Snapshots, Channels, Threads, Savers
  <2> QED BY <1>0, <2>2, <2>4 DEF CallbackInv
<1>10. CASE stop
  <2>1. /\ ch'.callback = "noop" /\ ch'.closed /\ guest' = guest /\ saver' = saver
        /\ snapshot' = snapshot
    BY <1>0, <1>10, SaverFrame DEF stop, notifyStateChangeLocked, Closed, Channels
  <2> QED BY <1>0, <2>1 DEF CallbackInv
<1>11. CASE UNCHANGED vars BY <1>0, <1>11 DEF vars, CallbackInv
<1> QED BY <1>1, <1>2, <1>3, <1>4, <1>5, <1>6, <1>7, <1>8, <1>9, <1>10, <1>11
        DEF Next, Pipe, Saver, CloseAfterError

(* The state of an open channel does not say that it is stopped.           *)
LEMMA OpenState ==
  ASSUME NEW c \in Channels, ~c.closed
  PROVE  "Stopped" \notin updateStateLocked(c).state
BY DEF updateStateLocked, Channels

(* The notification wakes whoever left a wish for what the state now says, *)
(* and keeps the wish for what it does not.                                *)
LEMMA NotifyWakes ==
  ASSUME NEW c \in Channels, NEW g \in Guests, wake \in SUBSET Flags, Notify(c),
         ~c.closed => c.state = updateStateLocked(c).state,
         g.pc # "closed" /\ c.closed => "Stopped" \in wake,
         g.pc \in {"wanting", "asleep"} => "Stopped" \in g.wait,
         g.pc = "wanting" => \/ g.wait \cap wake # {}
                             \/ g.wait \ {"Stopped"} \subseteq g.wanted,
         g.pc = "asleep" /\ ~c.closed =>
           /\ c.callback = "pipe"
           /\ \/ g.wait \cap wake # {}
              \/ g.wait \ {"Stopped"} \subseteq c.wanted
  PROVE  Awaited(ch', g, wake')
<1>0. /\ wake' = wake \cup onChannelHostEvent(c) /\ ch'.closed = c.closed
      /\ ch'.state = c.state /\ c.wanted \ c.state \subseteq ch'.wanted
      /\ updateStateLocked(ch').state = updateStateLocked(c).state
  BY NotifyFields, NotifyType DEF Notify
<1>1. ASSUME g.pc = "asleep", ~c.closed
      PROVE  \/ g.wait \cap wake' # {}
             \/ g.wait \ {"Stopped"} \subseteq ch'.wanted /\ g.wait \cap ch'.state = {}
  <2>1. CASE g.wait \cap wake # {} BY <1>0, <2>1
  <2>2. CASE g.wait \ {"Stopped"} \subseteq c.wanted
    <3>1. "Stopped" \notin c.state BY <1>1, OpenState
    <3>2. "Stopped" \notin Available(c) BY <3>1 DEF Available
    <3>3. onChannelHostEvent(c) = Available(c)
      BY <1>1, <3>2 DEF onChannelHostEvent
    <3>4. CASE g.wait \cap c.state = {} BY <1>0, <2>2, <3>4
    <3>5. CASE g.wait \cap c.state # {}
      <4>1. PICK f : f \in g.wait \cap c.state BY <3>5
      <4>2. f # "Stopped" BY <3>1, <4>1
      <4>3. f \in c.wanted BY <2>2, <4>1, <4>2
      <4>4. f \in Available(c) BY <4>1, <4>3 DEF Available
      <4> QED BY <1>0, <3>3, <4>1, <4>4
    <3> QED BY <3>4, <3>5
  <2> QED BY <1>1, <2>1, <2>2
<1>2. g.pc = "wanting" => \/ g.wait \cap wake' # {}
                          \/ g.wait \ {"Stopped"} \subseteq g.wanted
  BY <1>0
<1> QED BY <1>0, <1>1, <1>2 DEF Awaited

(* The channel that a step of the thread notifies has a fresh state.       *)
LEMMA ThreadNotifies ==
  ASSUME TypeOK, CallbackInv, Awaited(ch, guest, wake), NEW c \in Channels,
         rt.pc \notin {"starting", "copying", "paused"},
         c.closed = ch.closed, c.callback = ch.callback, c.wanted = ch.wanted,
         Notify(updateStateLocked(c))
  PROVE  Awaited(ch', guest, wake')
<1> DEFINE d == updateStateLocked(c)
<1>1. /\ d \in Channels /\ Notify(d) /\ d.closed = ch.closed
      /\ d.callback = ch.callback /\ d.wanted = ch.wanted
      /\ d.state = updateStateLocked(d).state
  BY UpdateFields
<1> HIDE DEF d
<1>2. guest \in Guests /\ wake \in SUBSET Flags /\ ch.callback \in {"none", "pipe", "noop"}
  BY DEF TypeOK, Channels
<1>3. guest.pc = "asleep" /\ ~d.closed =>
        /\ d.callback = "pipe"
        /\ \/ guest.wait \cap wake # {}
           \/ guest.wait \ {"Stopped"} \subseteq d.wanted
  BY <1>1, <1>2 DEF CallbackInv, Awaited
<1> QED BY <1>1, <1>2, <1>3, NotifyWakes DEF Awaited

LEMMA ThreadWakes ==
  ASSUME TypeOK, CallbackInv, ThreadInv(rt), Awaited(ch, guest, wake), Thread
  PROVE  Awaited(ch', guest, wake')
<1>0. /\ ch \in Channels /\ rt \in Threads
      /\ ch.fromGuest \in Seq(Buffers) /\ ch.toGuest \in Seq(Nat)
      /\ rt.out \in Seq(Nat)
  BY DEF TypeOK, Channels, Threads
<1>1. CASE ReadFlags \/ getData
  <2> DEFINE c == [ch EXCEPT !.fromGuest = Tail(@)]
  <2>1. readFromGuest /\ rt.pc \in {"pop", "more"} BY <1>1 DEF ReadFlags, getData
  <2>2. ch.fromGuest # <<>> BY <2>1, ReadEffect
  <2>3. Tail(ch.fromGuest) \in Seq(Buffers) BY <1>0, <2>2, HeadTail
  <2>4. /\ c \in Channels /\ c.closed = ch.closed /\ c.callback = ch.callback
        /\ c.wanted = ch.wanted
    BY <1>0, <2>3 DEF Channels
  <2>5. Notify(updateStateLocked(c)) BY <2>1 DEF readFromGuest
  <2> HIDE DEF c
  <2> QED BY <2>1, <2>4, <2>5, ThreadNotifies
<1>2. CASE ReadNothing
  <2>1. Notify(updateStateLocked(ch)) /\ rt.pc \in {"pop", "more"}
    BY <1>2 DEF ReadNothing
  <2> QED BY <1>0, <2>1, ThreadNotifies
<1>3. CASE writeToGuest
  <2> DEFINE r == PushResult(ch, ch.toGuest, ToCapacity)
             c == IF r = "Ok" THEN [ch EXCEPT !.toGuest = Append(@, Head(rt.out))]
                              ELSE ch
  <2>1. rt.pc = "write" /\ Notify(updateStateLocked(c)) BY <1>3 DEF writeToGuest
  <2>2. rt.out # <<>> BY <2>1 DEF ThreadInv
  <2>3. Append(ch.toGuest, Head(rt.out)) \in Seq(Nat)
    <3>1. Head(rt.out) \in Nat BY <1>0, <2>2, HeadTail
    <3> QED BY <1>0, <3>1
  <2> HIDE DEF r
  <2>4. /\ c \in Channels /\ c.closed = ch.closed /\ c.callback = ch.callback
        /\ c.wanted = ch.wanted
    BY <1>0, <2>3 DEF Channels
  <2> HIDE DEF c
  <2> QED BY <2>1, <2>4, ThreadNotifies
<1>4. CASE decode \/ snapshotOperation \/ SnapshotDone \/ Proceed \/ setFinished
  <2>1. ch' = ch /\ wake' = wake
    BY <1>4 DEF decode, snapshotOperation, SnapshotDone, Proceed, setFinished
  <2> QED BY <2>1 DEF Awaited
<1> QED BY <1>1, <1>2, <1>3, <1>4 DEF Thread

LEMMA PipeWakes ==
  ASSUME TypeOK, CallbackInv, Awaited(ch, guest, wake), guest.wanted \subseteq Wishes,
         Pipe \/ onGuestClose
  PROVE  Awaited(ch', guest', wake') /\ guest'.wanted \subseteq Wishes
<1>0. /\ ch \in Channels /\ guest \in Guests /\ wake \in SUBSET Flags
      /\ ch.state \subseteq Flags
  BY DEF TypeOK, Channels
<1>1. CASE setEventCallback
  <2> DEFINE c == [ch EXCEPT !.callback = "pipe"]
  <2>1. /\ c \in Channels /\ c.callback = "pipe" /\ c.closed = ch.closed
        /\ c.state = ch.state /\ c.wanted = ch.wanted
        /\ updateStateLocked(c).state = updateStateLocked(ch).state
    BY <1>0 DEF Channels, updateStateLocked
  <2>2. Notify(c) /\ guest' = guest BY <1>1 DEF setEventCallback
  <2> HIDE DEF c
  <2>3. Awaited(ch', guest, wake') BY <1>0, <2>1, <2>2, NotifyWakes DEF Awaited
  <2> QED BY <2>2, <2>3
<1>2. CASE onGuestSend \/ onGuestRecv
  <2>1. /\ guest'.pc = "run" /\ guest'.wanted = guest.wanted /\ wake' = wake
        /\ guest.pc = "run"
    <3>1. CASE onGuestSend BY <1>0, <3>1 DEF onGuestSend, Guests
    <3>2. CASE onGuestRecv BY <1>0, <3>2 DEF onGuestRecv, Guests
    <3> QED BY <1>2, <3>1, <3>2
  <2>2. /\ ch'.state = updateStateLocked(ch').state /\ ch'.closed = ch.closed
    <3>1. CASE onGuestSend BY <1>0, <3>1 DEF onGuestSend, updateStateLocked, Channels
    <3>2. CASE onGuestRecv BY <1>0, <3>2 DEF onGuestRecv, updateStateLocked, Channels
    <3> QED BY <1>2, <3>1, <3>2
  <2> QED BY <2>1, <2>2 DEF Awaited
<1>3. CASE onGuestWantWakeOn
  <2>1. PICK wanted \in {{Needed}, {"CanRead", "CanWrite"}} :
          /\ guest' = [guest EXCEPT
               !.pc = IF wanted \subseteq ch.state THEN "asleep" ELSE "wanting",
               !.wanted = wanted \ ch.state, !.wait = wanted \cup {"Stopped"}]
          /\ wake' = (wake \cap {"Stopped"}) \cup (wanted \cap ch.state)
    BY <1>3 DEF onGuestWantWakeOn
  <2>2. wanted # {} /\ wanted \subseteq Wishes BY DEF Needed, Wishes
  <2>3. /\ guest'.pc = IF wanted \subseteq ch.state THEN "asleep" ELSE "wanting"
        /\ guest'.wanted = wanted \ ch.state /\ guest'.wait = wanted \cup {"Stopped"}
    BY <1>0, <2>1 DEF Guests
  <2>4. ch' = ch /\ guest.pc = "run" BY <1>3 DEF onGuestWantWakeOn
  <2>5. ch.closed => "Stopped" \in wake' BY <2>1, <2>4 DEF Awaited
  <2>6. guest'.pc = "asleep" => guest'.wait \cap wake' # {} BY <2>1, <2>2, <2>3
  <2>7. guest'.pc = "wanting" => \/ guest'.wait \cap wake' # {}
                                 \/ guest'.wait \ {"Stopped"} \subseteq guest'.wanted
    BY <2>1, <2>3
  <2> QED BY <2>2, <2>3, <2>4, <2>5, <2>6, <2>7 DEF Awaited
<1>4. CASE setWantedEvents
  <2> DEFINE c == [ch EXCEPT !.wanted = @ \cup guest.wanted]
  <2>1. /\ c \in Channels /\ c.callback = ch.callback /\ c.closed = ch.closed
        /\ c.state = ch.state /\ c.wanted = ch.wanted \cup guest.wanted
        /\ updateStateLocked(c).state = updateStateLocked(ch).state
    BY <1>0 DEF Channels, updateStateLocked, Wishes
  <2>2. Notify(c) /\ guest.pc = "wanting" BY <1>4 DEF setWantedEvents
  <2>3. /\ guest' \in Guests /\ guest'.pc = "asleep" /\ guest'.wanted = {}
        /\ guest'.wait = guest.wait
    BY <1>0, <1>4 DEF setWantedEvents, Guests
  <2> HIDE DEF c
  <2>4. ~ch.closed => ch.callback = "pipe"
    BY <1>0, <2>2 DEF CallbackInv, Channels
  <2>5. \/ guest.wait \cap wake # {} \/ guest.wait \ {"Stopped"} \subseteq guest.wanted
    BY <2>2 DEF Awaited
  <2>6. ~c.closed => /\ c.callback = "pipe"
                     /\ \/ guest'.wait \cap wake # {}
                        \/ guest'.wait \ {"Stopped"} \subseteq c.wanted
    BY <2>1, <2>3, <2>4, <2>5
  <2>7. /\ ~c.closed => c.state = updateStateLocked(c).state
        /\ c.closed => "Stopped" \in wake
        /\ "Stopped" \in guest'.wait
    BY <2>1, <2>2, <2>3 DEF Awaited
  <2>8. Awaited(ch', guest', wake')
    BY <1>0, <2>1, <2>2, <2>3, <2>6, <2>7, NotifyWakes
  <2> QED BY <2>3, <2>8
<1>5. CASE Awake
  <2>1. /\ guest'.pc = "run" /\ guest'.wanted = guest.wanted /\ ch' = ch
        /\ guest.pc = "asleep" /\ wake' = wake \cap {"Stopped"}
    BY <1>0, <1>5 DEF Awake, Guests
  <2> QED BY <2>1 DEF Awaited
<1>6. CASE onGuestClose
  <2>1. /\ guest'.pc = "closed" /\ guest'.wanted = guest.wanted /\ ch'.closed
    BY <1>0, <1>6 DEF onGuestClose, Closed, Guests, Channels
  <2> QED BY <2>1 DEF Awaited
<1> QED BY <1>1, <1>2, <1>3, <1>4, <1>5, <1>6 DEF Pipe, CloseAfterError

(* The state does not depend on the mode, the callback or the wishes.      *)
LEMMA SameState ==
  ASSUME NEW c, NEW d, c.fromGuest = d.fromGuest, c.toGuest = d.toGuest,
         c.closed = d.closed, c.state = d.state, c.wanted = d.wanted,
         NEW g, NEW w, Awaited(c, g, w), c \in Channels, d \in Channels
  PROVE  Awaited(d, g, w)
<1>1. updateStateLocked(d).state = updateStateLocked(c).state
  BY DEF updateStateLocked, Channels
<1> QED BY <1>1 DEF Awaited

LEMMA WakeStep == IInv /\ [Next]_vars => WakeInv'
<1> SUFFICES ASSUME IInv, [Next]_vars PROVE WakeInv'
  OBVIOUS
<1>0. /\ TypeOK /\ HandShakeInv /\ SnapshotInv /\ CallbackInv /\ WakeInv /\ ThreadInv(rt)
      /\ ch \in Channels /\ guest \in Guests /\ wake \in SUBSET Flags /\ saver \in Savers
      /\ guest.wanted \subseteq Wishes
  BY DEF IInv, WakeInv, TypeOK, Savers
<1>t. ch' \in Channels BY TypeStep DEF TypeOK
<1>1. CASE Pipe \/ onGuestClose
  <2>1. saver' = saver /\ snapshot' = snapshot
    BY <1>1 DEF Pipe, CloseAfterError, setEventCallback, onGuestSend, onGuestRecv,
                onGuestWantWakeOn, setWantedEvents, Awake, onGuestClose
  <2>2. CASE saver.pc # "cleaning"
    <3>1. Awaited(ch, guest, wake) BY <1>0, <2>2 DEF WakeInv
    <3>2. Awaited(ch', guest', wake') /\ guest'.wanted \subseteq Wishes
      BY <1>0, <1>1, <3>1, PipeWakes
    <3> QED BY <1>0, <2>1, <3>2 DEF WakeInv
  <2>3. CASE saver.pc = "cleaning"
    <3>1. setEventCallback \/ setWantedEvents
      BY <1>1, <2>3 DEF Pipe, CloseAfterError, onGuestSend, onGuestRecv,
                        onGuestWantWakeOn, Awake, onGuestClose, Running
    <3>2. guest'.wanted \subseteq Wishes
      BY <1>0, <3>1 DEF setEventCallback, setWantedEvents, Guests
    <3> QED BY <1>0, <2>1, <2>3, <3>2 DEF WakeInv
  <2> QED BY <2>2, <2>3
<1>2. CASE Thread
  <2>1. guest' = guest /\ saver' = saver /\ snapshot' = snapshot
    BY <1>0, <1>2, ThreadKeepsCallback
  <2>2. saver.pc # "cleaning" => Awaited(ch', guest, wake')
    BY <1>0, <1>2, ThreadWakes DEF WakeInv
  <2> QED BY <1>0, <2>1, <2>2 DEF WakeInv
<1>3. CASE pauseAllPreSave \/ resumeAll
  <2>1. /\ guest' = guest /\ wake' = wake /\ snapshot' = snapshot
        /\ saver.pc # "cleaning"
        /\ ch'.fromGuest = ch.fromGuest /\ ch'.toGuest = ch.toGuest
        /\ ch'.closed = ch.closed /\ ch'.state = ch.state /\ ch'.wanted = ch.wanted
    BY <1>0, <1>3 DEF pauseAllPreSave, resumeAll, Channels
  <2>2. Awaited(ch, guest, wake) BY <1>0, <2>1 DEF WakeInv
  <2>3. Awaited(ch', guest, wake) BY <1>0, <1>t, <2>1, <2>2, SameState
  <2> QED BY <1>0, <2>1, <2>3 DEF WakeInv
<1>4. CASE onSave
  <2>1. /\ ch' = ch /\ guest' = guest /\ wake' = wake /\ saver.pc = "paused"
        /\ snapshot'.ch = ch /\ snapshot'.guest = guest /\ snapshot'.wake = wake
    BY <1>4 DEF onSave
  <2>2. Awaited(ch, guest, wake) BY <1>0, <2>1 DEF WakeInv
  <2> QED BY <1>0, <2>1, <2>2 DEF WakeInv
<1>5. CASE save
  <2>1. snapshot # NoSnapshot BY <1>0, <1>5 DEF save, SnapshotInv
  <2>2. snapshot \in Snapshots BY <1>0, <2>1 DEF TypeOK, Snapshots
  <2>3. /\ ch' = ch /\ guest' = guest /\ wake' = wake /\ saver.pc = "queues"
        /\ snapshot'.ch = snapshot.ch /\ snapshot'.guest = snapshot.guest
        /\ snapshot'.wake = snapshot.wake
    BY <1>5, <2>2 DEF save, Snapshots
  <2> QED BY <1>0, <2>1, <2>3 DEF WakeInv
<1>6. CASE cleanupRenderThreads
  <2>1. guest' = guest /\ snapshot' = snapshot /\ saver'.pc = "cleaning"
    BY <1>0, <1>6 DEF cleanupRenderThreads, Savers
  <2> QED BY <1>0, <2>1 DEF WakeInv
<1>7. CASE createRenderChannel
  <2>1. snapshot.valid BY <1>0, <1>7 DEF createRenderChannel, HandShakeInv
  <2>2. snapshot # NoSnapshot BY <2>1 DEF NoSnapshot
  <2>3. snapshot \in Snapshots /\ snapshot.ch \in Channels
    BY <1>0, <2>2 DEF TypeOK, Snapshots
  <2>4. /\ guest' = snapshot.guest /\ wake' = snapshot.wake /\ snapshot' = snapshot
        /\ ch'.fromGuest = snapshot.ch.fromGuest /\ ch'.toGuest = snapshot.ch.toGuest
        /\ ch'.closed = snapshot.ch.closed /\ ch'.state = snapshot.ch.state
        /\ ch'.wanted = snapshot.ch.wanted
    BY <1>7, <2>3 DEF createRenderChannel, Channels
  <2>5. Awaited(snapshot.ch, snapshot.guest, snapshot.wake)
    BY <1>0, <2>2 DEF WakeInv
  <2>6. Awaited(ch', snapshot.guest, snapshot.wake)
    BY <1>t, <2>3, <2>4, <2>5, SameState
  <2> QED BY <1>0, <2>2, <2>4, <2>6 DEF WakeInv
<1>8. CASE stop
  <2> DEFINE c == [Closed(ch, ch.callback) EXCEPT !.state = @ \cup {"Stopped"}]
  <2>1. /\ ch'.closed /\ guest' = guest /\ saver' = saver /\ snapshot' = snapshot
        /\ wake' = wake \cup onChannelHostEvent(c) /\ saver.pc # "cleaning"
        /\ ch.callback # "none"
    BY <1>0, <1>8, SaverFrame DEF stop, notifyStateChangeLocked, Closed, Channels
  <2>2. Awaited(ch, guest, wake) BY <1>0, <2>1 DEF WakeInv
  <2>3. guest.pc # "closed" => "Stopped" \in wake'
    <3>1. CASE ch.callback = "pipe"
      <4>1. c.callback = "pipe" /\ "Stopped" \in c.state
        BY <1>0, <3>1 DEF Closed, Channels
      <4> HIDE DEF c
      <4>2. "Stopped" \in Available(c) BY <4>1 DEF Available
      <4>3. onChannelHostEvent(c) = {"Stopped"} BY <4>1, <4>2 DEF onChannelHostEvent
      <4> QED BY <2>1, <4>3
    <3>2. CASE ch.callback = "noop"
      BY <1>0, <2>1, <2>2, <3>2 DEF CallbackInv, Awaited
    <3> QED BY <1>0, <2>1, <3>1, <3>2 DEF Channels
  <2>4. wake \subseteq wake' BY <2>1
  <2>5. Awaited(ch', guest, wake') BY <2>1, <2>2, <2>3, <2>4 DEF Awaited
  <2> QED BY <1>0, <2>1, <2>5 DEF WakeInv
<1>9. CASE UNCHANGED vars BY <1>0, <1>9 DEF vars, WakeInv, Awaited
<1> QED BY <1>1, <1>2, <1>3, <1>4, <1>5, <1>6, <1>7, <1>8, <1>9 DEF Next, Saver

-----------------------------------------------------------------------------
(***************************************************************************)
(* The invariant and what follows from it.                                 *)
(***************************************************************************)
LEMMA InitInv == Init => IInv
<1> SUFFICES ASSUME Init PROVE IInv OBVIOUS
<1> DEFINE c == [fromGuest |-> <<>>, toGuest |-> <<>>, closed |-> FALSE,
                 snapshotMode |-> FALSE, state |-> {}, wanted |-> {}, callback |-> "none"]
<1>1. c \in Channels /\ ch = updateStateLocked(c) BY DEF Init, Channels
<1>2. /\ c.fromGuest = <<>> /\ c.toGuest = <<>> /\ c.callback = "none"
  OBVIOUS
<1> HIDE DEF c
<1>3. /\ ch.fromGuest = <<>> /\ ch.toGuest = <<>> /\ ch.callback = "none"
      /\ ch.state = updateStateLocked(ch).state
  BY <1>1, <1>2, UpdateFields
<1>4. /\ rt.pc = "pop" /\ rt.buf = <<>> /\ rt.out = <<>> /\ rt.consumed = 0
      /\ rt.replied = 0 /\ ~rt.flags
      /\ guest.pc = "run" /\ guest.sent = 0 /\ guest.received = 0 /\ guest.wanted = {}
      /\ saver.pc = "idle" /\ snapshot = NoSnapshot /\ ~snapshot.valid
      /\ mSnapshotState = "Empty" /\ wake = {}
  BY DEF Init, NoSnapshot
<1>5. QueuesInv
  <2>1. Joined(<<>>, <<>>, 0, 0) /\ Joined(<<>>, <<>>, 0 - 1, 0 - 1) BY JoinedEmpty
  <2> QED BY <1>3, <1>4, <2>1 DEF QueuesInv, Requests, Replies
<1>6. ThreadInv(rt) /\ HandShakeInv /\ SnapshotInv /\ CallbackInv
  BY <1>3, <1>4 DEF ThreadInv, HandShakeInv, SnapshotInv, CallbackInv
<1>7. ~ch.closed BY <1>1, UpdateFields DEF c
<1>8. WakeInv BY <1>3, <1>4, <1>7 DEF WakeInv, Awaited
<1> QED BY <1>5, <1>6, <1>8, InitType DEF IInv

LEMMA NextInv == IInv /\ [Next]_vars => IInv'
BY TypeStep, QueuesStep, HandShakeStep, SnapshotStep, CallbackStep, WakeStep DEF IInv

LEMMA Invariance == Spec => []IInv
BY InitInv, NextInv, PTL DEF Spec

(* Types, for every stream, all capacities and any number of snapshots.    *)
THEOREM TypeCorrect == Spec => []TypeOK
<1>1. IInv => TypeOK BY DEF IInv
<1> QED BY <1>1, Invariance, PTL

(* No buffer of the guest's stream is lost, doubled or overtaken between   *)
(* the pipe and the decoders, over any number of snapshots.                *)
THEOREM RequestsAreConserved == Spec => []RequestsConserved
<1>1. IInv => RequestsConserved
  <2> SUFFICES ASSUME IInv PROVE RequestsConserved OBVIOUS
  <2> DEFINE s == rt.buf  t == ch.fromGuest  a == rt.consumed - 1  b == guest.sent - 1
  <2>1. s \in Seq(Int) /\ t \in Seq(Int) /\ a \in Int /\ b \in Int
    <3>1. s \in Seq(Buffers) /\ t \in Seq(Buffers) /\ rt.consumed \in Nat /\ guest.sent \in Nat
      BY DEF IInv, TypeOK, Threads, Channels, Guests
    <3> QED BY <3>1 DEF Buffers
  <2>2. Joined(s, t, a, b) BY DEF IInv, QueuesInv, Requests
  <2> HIDE DEF s, t, a, b
  <2>3. s \o t = Numbered(a, b) BY <2>1, <2>2, JoinedNumbered
  <2> QED BY <2>3 DEF s, t, a, b, RequestsConserved
<1> QED BY <1>1, Invariance, PTL

(* Nor is an answer, while the channel is open and every snapshot that was *)
(* loaded was of a thread that had come to rest.                           *)
THEOREM RepliesAreConserved == Spec => []RepliesConserved
<1>1. IInv => RepliesConserved
  <2> SUFFICES ASSUME IInv, intact, ~ch.closed PROVE Answers BY DEF RepliesConserved
  <2> DEFINE s == ch.toGuest  t == rt.out  a == guest.received  b == rt.replied
  <2>1. s \in Seq(Int) /\ t \in Seq(Int) /\ a \in Int /\ b \in Int
    <3>1. s \in Seq(Nat) /\ t \in Seq(Nat) /\ a \in Nat /\ b \in Nat
      BY DEF IInv, TypeOK, Threads, Channels, Guests
    <3> QED BY <3>1
  <2>2. Joined(s, t, a, b) BY DEF IInv, QueuesInv, Replies
  <2> HIDE DEF s, t, a, b
  <2>3. s \o t = Numbered(a, b) BY <2>1, <2>2, JoinedNumbered
  <2> QED BY <2>3 DEF s, t, a, b, Answers
<1> QED BY <1>1, Invariance, PTL

(* A guest asleep is never left there by the race between its look at the  *)
(* state and its wish, nor by a snapshot between the two.                  *)
THEOREM NoWakeupLost == Spec => []NoLostWakeup
<1>1. IInv => NoLostWakeup
  <2> SUFFICES ASSUME IInv, guest.pc = "asleep", ch.callback # "none",
                      saver.pc # "cleaning", guest.wait \cap wake = {}
               PROVE  guest.wait \cap updateStateLocked(ch).state = {}
    BY DEF NoLostWakeup
  <2>1. Awaited(ch, guest, wake) BY DEF IInv, WakeInv
  <2> QED BY <2>1 DEF Awaited
<1> QED BY <1>1, Invariance, PTL
=============================================================================
