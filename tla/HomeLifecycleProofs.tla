-------------------------- MODULE HomeLifecycleProofs --------------------------
(***************************************************************************)
(* What the types and counts of HomeLifecycleTypes give: no peer whose     *)
(* queue is closed becomes routable, Drain reaches every served peer, an   *)
(* offline slot always has its timer; and, on a relay that does not drain, *)
(* a slot names a connection of its home, the registry holds exactly the   *)
(* homes in use and none after shutdown, coordinators know their users,    *)
(* and users their coordinators.                                           *)
(***************************************************************************)
EXTENDS HomeLifecycleTypes

\* What acquire, release and the end of run do to the connection.
LEMMA AcquirePeer ==
    ASSUME CountInv, NEW c \in Conn, Acquire(c)
    PROVE  /\ \A d \in Conn \ {c} : peer'[d] = peer[d]
           /\ peer'[c].pc \in {"activating", "authfail"} /\ ~peer'[c].boot
           /\ peer'[c].gen = peer[c].gen /\ peer'[c].replaced = peer[c].replaced
           /\ peer'[c].detach = "idle"
           /\ peer[c].pc = "hello" /\ peer[c].inst = NoInst
<1>1. /\ peer \in [Conn -> PeerRecord] /\ peer[c].pc = "hello" /\ ~peer[c].boot
      /\ peer[c].inst = NoInst /\ peer[c].detach = "idle"
  BY DEF CountInv, TypeOK, HandshakeHoldsNothing, Acquire, At, Started
<1>2. PICK h : \/ peer' = [peer EXCEPT ![c].pc = "authfail"]
               \/ peer' = [peer EXCEPT ![c].pc = "activating", ![c].phase = "Active", ![c].inst = h]
  BY DEF Acquire
<1>3. CASE peer' = [peer EXCEPT ![c].pc = "authfail"]
  BY <1>1, <1>3 DEF PeerRecord
<1>4. CASE peer' = [peer EXCEPT ![c].pc = "activating", ![c].phase = "Active", ![c].inst = h]
  BY <1>1, <1>4 DEF PeerRecord
<1> QED
  BY <1>2, <1>3, <1>4

LEMMA ReleasePeer ==
    ASSUME CountInv, NEW c \in Conn, Release(c)
    PROVE  /\ \A d \in Conn \ {c} : peer'[d] = peer[d]
           /\ peer'[c].pc = peer[c].pc /\ peer'[c].boot = peer[c].boot
           /\ peer'[c].stopped = peer[c].stopped /\ peer'[c].phase = peer[c].phase
           /\ peer'[c].drainOnce = peer[c].drainOnce
           /\ peer'[c].gen = peer[c].gen /\ peer'[c].replaced = peer[c].replaced
           /\ peer'[c].detach = "done" /\ peer[c].detach = "release"
           /\ peer'[c].inst = peer[c].inst /\ peer[c].inst \in Inst
<1>1. /\ peer \in [Conn -> PeerRecord] /\ peer[c] \in PeerRecord
      /\ peer' = [peer EXCEPT ![c] = [peer[c] EXCEPT !.detach = "done"]]
      /\ peer[c].detach = "release" /\ peer[c].inst \in Inst
  BY HomeShape DEF CountInv, TypeOK, Release, HomesAreReached
<1> QED
  BY <1>1, DetachFields

LEMMA ForgetPeer ==
    ASSUME CountInv, NEW c \in Conn, Forget(c)
    PROVE  /\ \A d \in Conn \ {c} : peer'[d] = peer[d]
           /\ peer'[c].pc = "done" /\ ~peer'[c].boot /\ peer'[c].phase = "Closed"
           /\ peer'[c].inst = NoInst /\ peer'[c].replaced = None
           /\ peer'[c].detach = "done" /\ peer[c].detach = "done"
  BY DEF Forget, CountInv, TypeOK, NewPeer

----------------------------------------------------------------------------
\* Stopped peers

\* authenticate stores phaseActive over the Closed of an earlier stop, but only
\* in the handshake, and the bootstrap does not get past a closed queue.
LEMMA QueueShutStep ==
    ASSUME CountInv, Next, NEW c \in Conn, peer[c].shut, ~Available(c)
    PROVE  ~(peer'[c].boot /\ peer'[c].phase = "Active")
<1>1. ASSUME NEW d \in Conn, Acquire(d)
      PROVE  ~(peer'[c].boot /\ peer'[c].phase = "Active")
  BY <1>1, AcquirePeer DEF Available
<1>2. ASSUME NEW d \in Conn, Release(d)
      PROVE  ~(peer'[c].boot /\ peer'[c].phase = "Active")
  BY <1>2, ReleasePeer DEF Available
<1>3. ASSUME NEW d \in Conn, Forget(d)
      PROVE  ~(peer'[c].boot /\ peer'[c].phase = "Active")
  BY <1>3, ForgetPeer DEF Available
<1>4. ASSUME \A d \in Conn : ~Acquire(d) /\ ~Release(d) /\ ~Forget(d)
      PROVE  ~(peer'[c].boot /\ peer'[c].phase = "Active")
  <2>1. Moves(peer[c], peer'[c])
    BY <1>4, OtherStepsMove DEF PeersMove
  <2> QED
    BY <2>1 DEF Moves, Available
<1> QED
  BY <1>1, <1>2, <1>3, <1>4

\* stop, authenticate and attach: once stop has closed its queue, a peer that
\* is not routable stays so, even when authenticate overwrites its phase.
THEOREM ShutStaysUnroutable == Spec => ShutPeersStayUnroutable
<1>1. CountInv /\ [Next]_vars =>
        [\A c \in Conn : peer[c].shut /\ ~Available(c) => ~Available(c)']_vars
  BY QueueShutStep DEF Available
<1> QED
  BY <1>1, LifecycleCounts, PTL DEF Spec, ShutPeersStayUnroutable

----------------------------------------------------------------------------
\* The drain window

\* A peer whose frame is being handled is served too.
ServedAreDrained ==
    draining => \A c \in Conn \ drainTargets : peer[c].pc \in Served => peer[c].drainOnce

LEMMA DrainVariables ==
    ASSUME Next, ~Drain, \A c \in Conn : ~DrainOne(c)
    PROVE  draining' = draining /\ drainTargets' = drainTargets
<1> USE DEF serverVars
<1>1. ASSUME NEW c \in Conn, Goroutine(c)
      PROVE  draining' = draining /\ drainTargets' = drainTargets
  BY <1>1 DEF Goroutine, Track, HelloTimesOut, HelloRejected, Acquire, RefuseAttach, AttachInsert,
              AttachPublish, FailReplaced, AuthenticationFails, Arrive, ReadCancelled,
              DeclareFenced, Declare, Forget
<1>2. ASSUME NEW c \in Conn, Background(c), ~DrainOne(c)
      PROVE  draining' = draining /\ drainTargets' = drainTargets
  BY <1>2 DEF Background, DetachNothing, DetachHome, Release, WriteFatal, StopOne, StopShuts
<1>3. ASSUME NEW c \in Conn, Peer(c)
      PROVE  draining' = draining /\ drainTargets' = drainTargets
  BY <1>3 DEF Peer, PeerLeaves, PeerFatal, AsyncFail, TransportLost, HandleDeclaration
<1>4. ASSUME Timers \/ Cleanup \/ Close \/ Terminated
      PROVE  draining' = draining /\ drainTargets' = drainTargets
  BY <1>4 DEF Timers, Cleanup, GraceFires, ExpireCoordinator, DrainDeadline, SweepHome, CloseHome,
              Close, Terminated, vars
<1> QED
  BY <1>1, <1>2, <1>3, <1>4 DEF Next

\* Drain's loop, or the end of authenticate, has seen a peer by the time it is
\* served: the flag is set and the connections are listed in one section, and
\* a connection the list misses reads the flag later.
LEMMA DrainedStep ==
    ASSUME CountInv, ServedAreDrained, [Next]_vars
    PROVE  ServedAreDrained'
<1> USE DEF Served
<1>0. \A c \in Conn : peer[c].drainOnce \in BOOLEAN
  BY DEF CountInv, TypeOK, PeerRecord
<1>1. ASSUME NEW c \in Conn, Acquire(c)
      PROVE  ServedAreDrained'
  BY <1>1, AcquirePeer DEF ServedAreDrained, Acquire, serverVars
<1>2. ASSUME NEW c \in Conn, Release(c)
      PROVE  ServedAreDrained'
  BY <1>2, ReleasePeer, SMTT(30) DEF ServedAreDrained, Release, serverVars
<1>3. ASSUME NEW c \in Conn, Forget(c)
      PROVE  ServedAreDrained'
  BY <1>3, ForgetPeer, ZenonT(40) DEF ServedAreDrained, Forget, serverVars
<1>4. ASSUME Drain
      PROVE  ServedAreDrained'
  BY <1>4 DEF Drain, ServedAreDrained, Live
<1>5. ASSUME NEW c \in Conn, DrainOne(c)
      PROVE  ServedAreDrained'
  <2>1. PICK q \in StartDraining(peer[c]) : peer' = [peer EXCEPT ![c] = q]
    BY <1>5 DEF DrainOne
  <2>2. peer[c] \in PeerRecord /\ q.drainOnce
    BY <2>1, DrainingFields DEF CountInv, TypeOK
  <2>3. \A d \in Conn : peer'[d] = IF d = c THEN q ELSE peer[d]
    BY <2>1 DEF CountInv, TypeOK
  <2> QED
    BY <1>5, <2>2, <2>3 DEF DrainOne, ServedAreDrained
<1>6. ASSUME Next, ~Drain, \A c \in Conn : ~Acquire(c) /\ ~Release(c) /\ ~Forget(c) /\ ~DrainOne(c)
      PROVE  ServedAreDrained'
  <2>1. PeersMove
    BY <1>6, OtherStepsMove
  <2>2. \A c \in Conn : draining /\ peer'[c].pc \in Served =>
          peer'[c].drainOnce \/ (peer[c].pc \in Served /\ (peer[c].drainOnce => peer'[c].drainOnce))
    BY <2>1 DEF PeersMove, Moves
  <2>3. draining' = draining /\ drainTargets' = drainTargets
    BY <1>6, DrainVariables
  <2> QED
    BY <2>2, <2>3 DEF ServedAreDrained
<1>7. CASE UNCHANGED vars
  BY <1>7 DEF vars, serverVars, ServedAreDrained
<1> QED
  BY <1>1, <1>2, <1>3, <1>4, <1>5, <1>6, <1>7

\* Drain and authenticate: while the relay drains, every served peer that
\* Drain's loop has passed was through startDraining, by the loop or on arrival.
THEOREM DrainReachesEveryPeer == Spec => []DrainVisitsEveryPeer
<1>1. Init => ServedAreDrained
  BY DEF Init, ServedAreDrained
<1>2. CountInv /\ ServedAreDrained /\ [Next]_vars => ServedAreDrained'
  BY DrainedStep
<1>3. ServedAreDrained => DrainVisitsEveryPeer
  BY DEF ServedAreDrained, DrainVisitsEveryPeer, Served, At
<1> QED
  BY <1>1, <1>2, <1>3, LifecycleCounts, PTL DEF Spec

----------------------------------------------------------------------------
\* Offline slots

HomeStep(c) ==
    AttachInsert(c) \/ AttachPublish(c) \/ Declare(c) \/ DetachHome(c) \/ Acquire(c) \/ Release(c)

TimerStep(h) ==
    \/ \E n \in Name : GraceFires(h, n)
    \/ \E e \in home[h].fired : ExpireCoordinator(h, e[1], e[2])
    \/ SweepHome(h) \/ CloseHome(h)

\* The other steps leave every home and the registry alone.
LEMMA HomesAlone ==
    ASSUME Next, \A c \in Conn : ~HomeStep(c), \A h \in Inst : ~TimerStep(h)
    PROVE  home' = home /\ registry' = registry /\ born' = born
<1> USE DEF homeVars
<1>1. ASSUME NEW c \in Conn, Goroutine(c)
      PROVE  UNCHANGED homeVars
  BY <1>1 DEF HomeStep, Goroutine, Track, HelloTimesOut, HelloRejected, RefuseAttach,
              FailReplaced, AuthenticationFails, Arrive, ReadCancelled, DeclareFenced, Forget
<1>2. ASSUME NEW c \in Conn, Background(c)
      PROVE  UNCHANGED homeVars
  BY <1>2 DEF HomeStep, Background, DetachNothing, WriteFatal, DrainOne, StopOne, StopShuts
<1>3. ASSUME NEW c \in Conn, Peer(c)
      PROVE  UNCHANGED homeVars
  BY <1>3 DEF Peer, PeerLeaves, PeerFatal, AsyncFail, TransportLost, HandleDeclaration
<1>4. ASSUME Timers \/ Cleanup
      PROVE  UNCHANGED homeVars
  BY <1>4 DEF TimerStep, Timers, Cleanup, DrainDeadline
<1>5. ASSUME Drain \/ Close \/ Terminated
      PROVE  UNCHANGED homeVars
  BY <1>5 DEF Drain, Close, Terminated, vars
<1> QED
  BY <1>1, <1>2, <1>3, <1>4, <1>5 DEF Next

\* What one home looks like after the steps that change it.
LEMMA HomeAfter ==
    ASSUME CountInv, NEW c \in Conn, NEW h \in Inst, h = peer[c].inst
    PROVE  /\ AttachPublish(c) => home' = [home EXCEPT ![h] = [home[h] EXCEPT !.lock = None]]
           /\ Release(c) => home' = [home EXCEPT ![h] = [home[h] EXCEPT !.refs = @ - 1]]
  BY DEF AttachPublish, Release, CountInv, TypeOK

\* OfflineSlotExpires, for one home.
Expiring(r) ==
    \A n \in Present(r.slots) :
        r.slots[n].conn = None => r.slots[n].grace = "armed" \/ <<n, r.slots[n].gen>> \in r.fired

\* Only the homes of the step change.
LEMMA ExpiringStep ==
    ASSUME CountInv, OfflineSlotExpires, [Next]_vars
    PROVE  OfflineSlotExpires'
<1> USE DEF Present
<1>1. /\ home \in [Inst -> HomeRecord] /\ \A h \in Inst : Expiring(home[h])
      /\ \A h \in Inst : home[h].slots \in [Name -> Slot] /\ home[h] \in HomeRecord
      /\ \A h \in Inst : home[h].fired \in SUBSET (Name \X Nat)
      /\ \A c \in Conn : NameOf[c] \in Name /\ c # None
  BY BindingAssumption, ConnAssumption
     DEF CountInv, TypeOK, OfflineSlotExpires, Expiring, HomeRecord
<1>2. ASSUME NEW h \in Inst, NEW r, Expiring(r), home' = [home EXCEPT ![h] = r]
      PROVE  OfflineSlotExpires'
  BY <1>1, <1>2 DEF OfflineSlotExpires, Expiring
<1>3. ASSUME NEW c \in Conn, HomeStep(c)
      PROVE  OfflineSlotExpires'
  <2>1. CASE Acquire(c)
    <3>1. PICK h, i : home' = home \/ home' = [home EXCEPT ![h].id = i, ![h].refs = @ + 1]
      BY <2>1, ZenonT(40) DEF Acquire, homeVars
    <3>2. \A g \in Inst : home'[g].slots = home[g].slots /\ home'[g].fired = home[g].fired
      BY <1>1, <3>1 DEF HomeRecord
    <3> QED
      BY <1>1, <3>2 DEF OfflineSlotExpires, Expiring
  <2>2. CASE ~Acquire(c)
    <3>1. PICK h \in Inst : h = peer[c].inst
      BY <1>3, <2>2, HomeShape
         DEF HomeStep, AttachInsert, AttachPublish, Declare, DetachHome, Release, At, Inside,
             CountInv, HomesAreReached
    <3>2. CASE AttachPublish(c) \/ Release(c)
      <4>1. \A g \in Inst : home'[g].slots = home[g].slots /\ home'[g].fired = home[g].fired
        <5>1. \/ home' = [home EXCEPT ![h] = [home[h] EXCEPT !.lock = None]]
              \/ home' = [home EXCEPT ![h] = [home[h] EXCEPT !.refs = @ - 1]]
          BY <3>1, <3>2, HomeAfter
        <5> QED
          BY <1>1, <5>1, SMTT(30) DEF HomeRecord
      <4> QED
        BY <1>1, <4>1 DEF OfflineSlotExpires, Expiring
    <3>3. CASE Declare(c)
      <4> DEFINE S == [home[h].slots EXCEPT ![NameOf[c]].ready = TRUE,
                                            ![NameOf[c]].decl = peer[c].gen]
                 r == [home[h] EXCEPT !.slots = S]
      <4>1. home' = [home EXCEPT ![h] = r]
        BY <1>1, <3>1, <3>3 DEF Declare
      <4>2. \A n \in Name : S[n].conn = home[h].slots[n].conn /\ S[n].gen = home[h].slots[n].gen
                            /\ S[n].grace = home[h].slots[n].grace
        BY <1>1 DEF Slot
      <4> HIDE DEF S
      <4>3. r.slots = S /\ r.fired = home[h].fired
        BY <1>1 DEF HomeRecord
      <4> HIDE DEF r
      <4>4. Expiring(home[h])
        BY <1>1
      <4>5. Expiring(r)
        BY <4>2, <4>3, <4>4 DEF Expiring
      <4> QED
        BY <1>2, <4>1, <4>5
    <3>4. CASE AttachInsert(c)
      <4> DEFINE slot == home[h].slots[NameOf[c]]
                 S == [home[h].slots EXCEPT ![NameOf[c]] = TakeOver(slot, c)]
                 joined == [home[h] EXCEPT !.lock = c, !.members = @ \cup {c}]
                 r == [joined EXCEPT !.slots = S]
      <4>1. home' = [home EXCEPT ![h] = joined] \/ home' = [home EXCEPT ![h] = r]
        BY <3>1, <3>4 DEF AttachInsert
      <4>2. slot \in Slot
        BY <1>1
      <4> HIDE DEF slot
      <4>3. \A n \in Name : IF n = NameOf[c] THEN S[n].conn = c ELSE S[n] = home[h].slots[n]
        BY <1>1, <4>2, TakeOverFields
      <4> HIDE DEF S
      <4>4. joined.slots = home[h].slots /\ joined.fired = home[h].fired
        BY <1>1 DEF HomeRecord
      <4>5. r.slots = S /\ r.fired = home[h].fired
        BY <1>1 DEF HomeRecord
      <4> HIDE DEF r, joined
      <4>6. Expiring(joined) /\ Expiring(r)
        BY <1>1, <4>3, <4>4, <4>5 DEF Expiring
      <4> QED
        BY <1>2, <4>1, <4>6
    <3>5. CASE DetachHome(c)
      <4> DEFINE M == home[h].members \ {c}
                 S == [home[h].slots EXCEPT ![NameOf[c]] = SlotAfterDetach(c, h, @)]
                 r == [home[h] EXCEPT !.members = M]
                 t == [home[h] EXCEPT !.members = M, !.slots = S]
      <4>1. home' = [home EXCEPT ![h] = r] \/ home' = [home EXCEPT ![h] = t]
        BY <1>1, <3>1, <3>5 DEF DetachHome, DetachUser, DetachCoordinator
      <4>2. \A n \in Name : \/ S[n] = home[h].slots[n]
                            \/ S[n].gen = 0 \/ S[n].grace = "armed"
        <5>1. \A n \in Name : Retain(home[h].slots[n]).grace = "armed"
          BY <1>1 DEF Retain, Slot
        <5> QED
          BY <1>1, <5>1 DEF SlotAfterDetach, NoSlot
      <4> HIDE DEF S
      <4>3. r.slots = home[h].slots /\ r.fired = home[h].fired
        BY <1>1 DEF HomeRecord
      <4>4. t.slots = S /\ t.fired = home[h].fired
        BY <1>1 DEF HomeRecord
      <4> HIDE DEF r, t
      <4>5. Expiring(r) /\ Expiring(t)
        BY <1>1, <4>2, <4>3, <4>4 DEF Expiring
      <4> QED
        BY <1>2, <4>1, <4>5
    <3> QED
      BY <1>3, <2>2, <3>2, <3>3, <3>4, <3>5 DEF HomeStep
  <2> QED
    BY <2>1, <2>2
<1>4. ASSUME NEW h \in Inst, TimerStep(h)
      PROVE  OfflineSlotExpires'
  <2>1. ASSUME NEW m \in Name, GraceFires(h, m)
        PROVE  OfflineSlotExpires'
    <3> DEFINE S == [home[h].slots EXCEPT ![m].grace = "fired"]
               F == home[h].fired \cup {<<m, home[h].slots[m].gen>>}
               r == [home[h] EXCEPT !.slots = S, !.fired = F]
    <3>1. home' = [home EXCEPT ![h] = r]
      BY <1>1, <2>1 DEF GraceFires
    <3>2. /\ \A n \in Name : S[n].conn = home[h].slots[n].conn /\ S[n].gen = home[h].slots[n].gen
                            /\ (n # m => S[n].grace = home[h].slots[n].grace)
          /\ <<m, S[m].gen>> \in F /\ home[h].fired \subseteq F
      BY <1>1 DEF Slot
    <3> HIDE DEF S, F
    <3>3. r.slots = S /\ r.fired = F
      BY <1>1 DEF HomeRecord
    <3> HIDE DEF r
    <3>4. Expiring(r)
      BY <1>1, <3>2, <3>3 DEF Expiring
    <3> QED
      BY <1>2, <3>1, <3>4
  <2>2. ASSUME NEW e \in home[h].fired, ExpireCoordinator(h, e[1], e[2])
        PROVE  OfflineSlotExpires'
    <3> DEFINE S == [home[h].slots EXCEPT ![e[1]] = NoSlot]
               F == home[h].fired \ {<<e[1], e[2]>>}
               t == [home[h] EXCEPT !.fired = F]
               r == [t EXCEPT !.slots = S, !.sweep = TRUE]
    <3>1. /\ Expires(home[h].slots[e[1]], e[2]) => home' = [home EXCEPT ![h] = r]
          /\ ~Expires(home[h].slots[e[1]], e[2]) => home' = [home EXCEPT ![h] = t]
      BY <2>2 DEF ExpireCoordinator
    <3>2. e[1] \in Name /\ \A n \in Name : IF n = e[1] THEN S[n].gen = 0 ELSE S[n] = home[h].slots[n]
      BY <1>1 DEF NoSlot
    <3>3. /\ \A n \in Name : n # e[1] => (\A g : <<n, g>> \in home[h].fired => <<n, g>> \in F)
          /\ \A g : g # e[2] => (<<e[1], g>> \in home[h].fired => <<e[1], g>> \in F)
      OBVIOUS
    <3> HIDE DEF S, F
    <3>4. t.slots = home[h].slots /\ t.fired = F
      BY <1>1 DEF HomeRecord
    <3>5. r.slots = S /\ r.fired = F
      BY <1>1 DEF HomeRecord
    <3> HIDE DEF r, t
    <3>6. Expiring(r)
      BY <1>1, <3>2, <3>3, <3>5 DEF Expiring
    <3>7. ~Expires(home[h].slots[e[1]], e[2]) => Expiring(t)
      BY <1>1, <3>3, <3>4 DEF Expiring, Expires
    <3> QED
      BY <1>2, <3>1, <3>6, <3>7
  <2>3. CASE SweepHome(h)
    <3>1. home' = [home EXCEPT ![h] = [home[h] EXCEPT !.sweep = FALSE]]
      BY <1>1, <2>3 DEF SweepHome
    <3>2. \A g \in Inst : home'[g].slots = home[g].slots /\ home'[g].fired = home[g].fired
      BY <1>1, <3>1 DEF HomeRecord
    <3> QED
      BY <1>1, <3>2 DEF OfflineSlotExpires, Expiring
  <2>4. CASE CloseHome(h)
    <3> DEFINE S == [n \in Name |-> CloseSlot(home[h].slots[n])]
               r == [home[h] EXCEPT !.closed = TRUE, !.sweep = TRUE, !.slots = S]
    <3>1. home' = [home EXCEPT ![h] = r]
      BY <1>1, <2>4 DEF CloseHome
    <3>2. \A n \in Name : S[n].gen = 0 \/ S[n].conn # None
      BY DEF CloseSlot, NoSlot
    <3> HIDE DEF S
    <3>3. r.slots = S
      BY <1>1 DEF HomeRecord
    <3> HIDE DEF r
    <3>4. Expiring(r)
      BY <3>2, <3>3 DEF Expiring
    <3> QED
      BY <1>2, <3>1, <3>4
  <2> QED
    BY <1>4, <2>1, <2>2, <2>3, <2>4 DEF TimerStep
<1>5. ASSUME home' = home
      PROVE  OfflineSlotExpires'
  BY <1>5 DEF OfflineSlotExpires
<1> QED
  BY <1>3, <1>4, <1>5, HomesAlone DEF vars, homeVars

\* detach, attach and expireCoordinator: an offline slot of any home has its
\* grace timer armed or its callback on the way, whatever takes the slot over,
\* closes the home or fires late in between.
THEOREM OfflineSlotsExpire == Spec => []OfflineSlotExpires
<1>1. Init => OfflineSlotExpires
  BY DEF Init, NewHome, NoSlot, Present, OfflineSlotExpires
<1>2. CountInv /\ OfflineSlotExpires /\ [Next]_vars => OfflineSlotExpires'
  BY ExpiringStep
<1> QED
  BY <1>1, <1>2, LifecycleCounts, PTL DEF Spec

----------------------------------------------------------------------------
\* Homes in use, while nobody drains.  A drain that meets a peer between its
\* acquire and its attach uses up detachOnce, and none of this holds then.

\* Nobody drains, and a peer cannot be failed before it has attached.
HandshakeStaysIdle ==
    /\ ~draining /\ drainTargets = {}
    /\ \A c \in Conn : peer[c].pc \in {"new", "hello", "activating"} => peer[c].detach = "idle"

\* A member of a home holds it until it detaches; the peer attach has yet to
\* fail is a member as well.
MembersHold ==
    /\ \A h \in Inst : \A c \in home[h].members :
         /\ peer[c].inst = h /\ peer[c].detach \in {"idle", "spawned"}
         /\ peer[c].pc \notin {"new", "hello", "activating"}
    /\ \A c \in Conn : peer[c].replaced # None => peer[peer[c].replaced].pc # "activating"

\* A slot that names a connection names a coordinator of this home, in the
\* slot's generation; a slot that is ready names one.
SlotsNameMembers ==
    \A h \in Inst : \A n \in Name :
        LET s == home[h].slots[n]
        IN  /\ s.conn # None =>
                 /\ s.conn \in home[h].members /\ RoleOf[s.conn] = "coordinator"
                 /\ NameOf[s.conn] = n /\ peer[s.conn].gen = s.gen /\ s.gen > 0
            /\ s.ready => s.conn # None /\ s.decl = s.gen

\* A registered home was created for that id; one that was not created yet is
\* as new.
RegistryKnowsIds ==
    /\ \A i \in HomeId : registry[i] # NoInst => home[registry[i]].id = i /\ registry[i] <= born
    /\ \A h \in Inst : h <= born => home[h].id \in HomeId
    /\ \A h \in Inst : h > born => home[h].refs = 0 /\ Present(home[h].slots) = {} /\ home[h].id = None

\* detach is called off its goroutine only by fail, and never for a peer that
\* has yet to attach; the peer to be replaced, the bootstrap and the lock that
\* goes with it are set by attach alone.
Waits(p, q) ==
    /\ q.replaced \in {None, p.replaced}
    /\ q.detach # p.detach => q.detach # "release" /\ q.pc # "activating"
    /\ q.boot = p.boot
    /\ q.pc = "publishing" => p.pc = "publishing"

\* Waits for a step of one peer, from the fields of the peer afterwards.
LEMMA OneWaits ==
    ASSUME CountInv, NEW c \in Conn, NEW q, peer' = [peer EXCEPT ![c] = q],
           Waits(peer[c], q)
    PROVE  \A d \in Conn : Waits(peer[d], peer'[d])
  BY DEF Waits, CountInv, TypeOK

LEMMA FailWaits ==
    ASSUME NEW p \in PeerRecord
    PROVE  /\ Waits(p, [Fail(p) EXCEPT !.pc = "exiting"])
           /\ p.pc # "activating" => Waits(p, Fail(p))
           /\ Waits(p, StoppedAt(p, "exiting"))
           /\ Waits(p, Stop(p))
           /\ Waits(p, [p EXCEPT !.shut = TRUE])
<1>1. Fail(p) \in PeerRecord /\ Stop(p) \in PeerRecord
  BY FailFields, StopFields
<1>2. /\ [Fail(p) EXCEPT !.pc = "exiting"].pc = "exiting"
      /\ [Fail(p) EXCEPT !.pc = "exiting"].detach = Fail(p).detach
      /\ [Fail(p) EXCEPT !.pc = "exiting"].replaced = Fail(p).replaced
      /\ [Fail(p) EXCEPT !.pc = "exiting"].boot = Fail(p).boot
  BY <1>1 DEF PeerRecord
<1>3. /\ StoppedAt(p, "exiting").pc = "exiting"
      /\ StoppedAt(p, "exiting").boot = Stop(p).boot
      /\ StoppedAt(p, "exiting").detach = Stop(p).detach
      /\ StoppedAt(p, "exiting").replaced = Stop(p).replaced
  BY <1>1 DEF PeerRecord, StoppedAt
<1>4. /\ Waits(p, [Fail(p) EXCEPT !.pc = "exiting"])
      /\ p.pc # "activating" => Waits(p, Fail(p))
  BY <1>2, FailFields DEF Waits
<1>5. Waits(p, StoppedAt(p, "exiting")) /\ Waits(p, Stop(p))
  BY <1>3, StopFields DEF Waits
<1>6. Waits(p, [p EXCEPT !.shut = TRUE])
  BY DEF Waits, PeerRecord
<1> QED
  BY <1>4, <1>5, <1>6

LEMMA OtherStepsWait ==
    ASSUME CountInv, HandshakeStaysIdle, MembersHold, Drains = FALSE, Next,
           \A c \in Conn : ~Acquire(c) /\ ~Release(c) /\ ~Forget(c)
                          /\ ~AttachInsert(c) /\ ~DetachHome(c)
    PROVE  \A d \in Conn : Waits(peer[d], peer'[d])
<1>1. /\ peer \in [Conn -> PeerRecord]
      /\ \A d \in Conn : peer[d] \in PeerRecord /\ Waits(peer[d], peer[d])
  BY DEF CountInv, TypeOK, Waits
<1>2. ASSUME NEW c \in Conn,
             \/ HelloTimesOut(c) \/ HelloRejected(c) \/ AuthenticationFails(c)
             \/ PeerFatal(c) \/ DeclareFenced(c)
      PROVE  \A d \in Conn : Waits(peer[d], peer'[d])
  <2>1. \/ peer' = [peer EXCEPT ![c] = [Fail(peer[c]) EXCEPT !.pc = "exiting"]]
        \/ peer' = [peer EXCEPT ![c] = StoppedAt(peer[c], "exiting")]
    BY <1>1, <1>2 DEF HelloTimesOut, HelloRejected, AuthenticationFails, PeerFatal, DeclareFenced,
                      StoppedAt
  <2>2. /\ Waits(peer[c], [Fail(peer[c]) EXCEPT !.pc = "exiting"])
        /\ Waits(peer[c], StoppedAt(peer[c], "exiting"))
    BY <1>1, FailWaits
  <2> QED
    BY <2>1, <2>2, OneWaits
<1>3. ASSUME NEW c \in Conn,
             \/ Track(c) \/ RefuseAttach(c) \/ PeerLeaves(c) \/ ReadCancelled(c)
             \/ HandleDeclaration(c) \/ Declare(c) \/ AttachPublish(c)
      PROVE  \A d \in Conn : Waits(peer[d], peer'[d])
  <2>1. PICK l : l # "publishing" /\ peer' = [peer EXCEPT ![c] = [peer[c] EXCEPT !.pc = l]]
    BY <1>1, <1>3 DEF Track, RefuseAttach, PeerLeaves, ReadCancelled, HandleDeclaration, Declare,
                      AttachPublish, AfterAttach
  <2>2. Waits(peer[c], [peer[c] EXCEPT !.pc = l])
    BY <1>1, <2>1 DEF Waits, PeerRecord
  <2> QED
    BY <2>1, <2>2, OneWaits
<1>4. ASSUME NEW c \in Conn, WriteFatal(c) \/ TransportLost(c) \/ StopOne(c)
      PROVE  \A d \in Conn : Waits(peer[d], peer'[d])
  <2>1. peer' = [peer EXCEPT ![c] = Stop(peer[c])]
    BY <1>1, <1>4 DEF WriteFatal, TransportLost, StopOne
  <2>2. Waits(peer[c], Stop(peer[c]))
    BY <1>1, FailWaits
  <2> QED
    BY <2>1, <2>2, OneWaits
<1>12. ASSUME NEW c \in Conn, StopShuts(c)
      PROVE  \A d \in Conn : Waits(peer[d], peer'[d])
  <2>1. peer' = [peer EXCEPT ![c] = [peer[c] EXCEPT !.shut = TRUE]]
    BY <1>1, <1>12 DEF StopShuts
  <2>2. Waits(peer[c], [peer[c] EXCEPT !.shut = TRUE])
    BY <1>1, FailWaits
  <2> QED
    BY <2>1, <2>2, OneWaits
<1>5. ASSUME NEW c \in Conn, AsyncFail(c)
      PROVE  \A d \in Conn : Waits(peer[d], peer'[d])
  <2>1. peer' = [peer EXCEPT ![c] = Fail(peer[c])] /\ peer[c].pc # "activating"
    BY <1>1, <1>5 DEF AsyncFail, CountInv, HandshakeHoldsNothing
  <2>2. Waits(peer[c], Fail(peer[c]))
    BY <1>1, <2>1, FailWaits
  <2> QED
    BY <2>1, <2>2, OneWaits
<1>6. ASSUME NEW c \in Conn, Arrive(c)
      PROVE  \A d \in Conn : Waits(peer[d], peer'[d])
  <2>1. peer' = [peer EXCEPT ![c] = [peer[c] EXCEPT !.pc = "serving"]]
    BY <1>6 DEF Arrive, TellArrival, HandshakeStaysIdle
  <2>2. Waits(peer[c], [peer[c] EXCEPT !.pc = "serving"])
    BY <1>1 DEF Waits, PeerRecord
  <2> QED
    BY <2>1, <2>2, OneWaits
<1>7. ASSUME NEW c \in Conn, FailReplaced(c)
      PROVE  \A d \in Conn : Waits(peer[d], peer'[d])
  <2> DEFINE r == peer[c].replaced
             b == IF r = c THEN Fail(peer[c]) ELSE peer[c]
  <2>1. /\ peer[c].pc = "replacing" /\ r \in Conn \cup {None}
        /\ r \in Conn => peer[r].pc # "activating"
    BY <1>1, <1>7, ConnAssumption DEF FailReplaced, At, PeerRecord, MembersHold
  <2>2. b \in PeerRecord
    BY <1>1, FailFields
  <2>3. peer'[c] = [b EXCEPT !.replaced = None, !.pc = AfterAttach(peer[c])]
    BY <1>1, <1>7 DEF FailReplaced
  <2>4. \A d \in Conn \ {c} : peer'[d] = IF d = r THEN Fail(peer[d]) ELSE peer[d]
    BY <1>1, <1>7 DEF FailReplaced
  <2>5. b.boot = peer[c].boot /\ (b.detach # peer[c].detach => b.detach = "spawned")
    BY <1>1, FailFields
  <2> HIDE DEF b
  <2>6. /\ peer'[c].replaced = None /\ peer'[c].pc = AfterAttach(peer[c])
        /\ peer'[c].detach = b.detach /\ peer'[c].boot = b.boot
    BY <2>2, <2>3 DEF PeerRecord
  <2>7. Waits(peer[c], peer'[c])
    BY <2>5, <2>6 DEF Waits, AfterAttach
  <2>8. \A d \in Conn \ {c} : d = r => Waits(peer[d], peer'[d])
    BY <1>1, <2>1, <2>4, FailWaits
  <2> QED
    BY <1>1, <2>4, <2>7, <2>8
<1>8. ASSUME NEW c \in Conn, DetachNothing(c)
      PROVE  \A d \in Conn : Waits(peer[d], peer'[d])
  <2>1. /\ peer' = [peer EXCEPT ![c] = [peer[c] EXCEPT !.detach = "done"]]
        /\ peer[c].pc # "activating"
    BY <1>1, <1>8 DEF DetachNothing, DetachCalled, HandshakeStaysIdle
  <2>2. Waits(peer[c], [peer[c] EXCEPT !.detach = "done"])
    BY <1>1, <2>1, DetachFields DEF Waits
  <2> QED
    BY <2>1, <2>2, OneWaits
<1>9. ASSUME peer' = peer
      PROVE  \A d \in Conn : Waits(peer[d], peer'[d])
  BY <1>1, <1>9
<1>10. ~Drain /\ \A c \in Conn : ~DrainOne(c)
  BY DEF Drain, DrainOne, HandshakeStaysIdle
<1>11. Timers \/ Cleanup \/ Close \/ Terminated => peer' = peer
  BY DEF Timers, Cleanup, GraceFires, ExpireCoordinator, DrainDeadline, SweepHome, CloseHome,
         Close, Terminated, vars
<1> QED
  BY <1>2, <1>3, <1>4, <1>5, <1>6, <1>7, <1>8, <1>9, <1>10, <1>11, <1>12
     DEF Next, Goroutine, Background, Peer

\* Slots are cleared, or keep their connection and generation; what makes one
\* ready is a declaration of that generation.
SlotKept(s, t) ==
    \/ t.conn = None /\ ~t.ready
    \/ /\ t.conn = s.conn /\ t.gen = s.gen
       /\ t.ready => t.conn # None /\ t.decl = t.gen

SlotsKept ==
    \A h \in Inst :
        /\ home'[h].members = home[h].members
        /\ \A n \in Name : SlotKept(home[h].slots[n], home'[h].slots[n])

\* SlotsKept for a step that changes one home.
LEMMA OneSlotsKept ==
    ASSUME CountInv, SlotsNameMembers, NEW h \in Inst, NEW r, home' = [home EXCEPT ![h] = r],
           r.members = home[h].members, NEW S, r.slots = S,
           \A n \in Name : SlotKept(home[h].slots[n], S[n])
    PROVE  SlotsKept
<1>1. \A g \in Inst : home'[g] = IF g = h THEN r ELSE home[g]
  BY DEF CountInv, TypeOK
<1>2. \A g \in Inst : \A n \in Name : SlotKept(home[g].slots[n], home[g].slots[n])
  BY DEF SlotKept, SlotsNameMembers
<1> QED
  BY <1>1, <1>2 DEF SlotsKept

LEMMA OtherStepsKeepSlots ==
    ASSUME CountInv, SlotsNameMembers, Next, \A c \in Conn : ~AttachInsert(c) /\ ~DetachHome(c)
    PROVE  SlotsKept
<1>0. \A g \in Inst : \A n \in Name : SlotKept(home[g].slots[n], home[g].slots[n])
  BY DEF SlotKept, SlotsNameMembers
<1>1. /\ home \in [Inst -> HomeRecord]
      /\ \A h \in Inst : home[h].slots \in [Name -> Slot] /\ home[h] \in HomeRecord
      /\ \A c \in Conn : NameOf[c] \in Name /\ c # None
  BY BindingAssumption, ConnAssumption DEF CountInv, TypeOK, HomeRecord
<1>2. ASSUME \A h \in Inst : home'[h].slots = home[h].slots /\ home'[h].members = home[h].members
      PROVE  SlotsKept
  BY <1>0, <1>2 DEF SlotsKept
<1>3. ASSUME NEW c \in Conn, Acquire(c)
      PROVE  SlotsKept
  <2>1. PICK h, i : home' = home \/ home' = [home EXCEPT ![h].id = i, ![h].refs = @ + 1]
    BY <1>3 DEF Acquire, homeVars
  <2> QED
    BY <1>1, <1>2, <2>1 DEF HomeRecord
<1>4. ASSUME NEW c \in Conn, AttachPublish(c) \/ Release(c)
      PROVE  SlotsKept
  <2>1. PICK h \in Inst : h = peer[c].inst
    BY <1>4, HomeShape DEF AttachPublish, Release, At, Inside, CountInv, HomesAreReached
  <2>2. \/ home' = [home EXCEPT ![h] = [home[h] EXCEPT !.lock = None]]
        \/ home' = [home EXCEPT ![h] = [home[h] EXCEPT !.refs = @ - 1]]
    BY <1>4, <2>1, HomeAfter
  <2> DEFINE r == [home[h] EXCEPT !.lock = None]
             t == [home[h] EXCEPT !.refs = @ - 1]
  <2>3. /\ r.slots = home[h].slots /\ r.members = home[h].members
        /\ t.slots = home[h].slots /\ t.members = home[h].members
    BY <1>1 DEF HomeRecord
  <2>4. home' = [home EXCEPT ![h] = r] \/ home' = [home EXCEPT ![h] = t]
    BY <2>2
  <2> HIDE DEF r, t
  <2>5. \A g \in Inst : home'[g].slots = home[g].slots /\ home'[g].members = home[g].members
    BY <1>1, <2>3, <2>4
  <2> QED
    BY <1>2, <2>5
<1>5. ASSUME NEW c \in Conn, Declare(c)
      PROVE  SlotsKept
  <2>1. PICK h \in Inst : h = peer[c].inst
    BY <1>5, HomeShape DEF Declare, At, Inside
  <2> DEFINE S == [home[h].slots EXCEPT ![NameOf[c]].ready = TRUE,
                                        ![NameOf[c]].decl = peer[c].gen]
             r == [home[h] EXCEPT !.slots = S]
  <2>2. /\ home' = [home EXCEPT ![h] = r] /\ home[h].slots[NameOf[c]].conn = c
        /\ home[h].slots[NameOf[c]].gen = peer[c].gen
    BY <1>1, <1>5, <2>1 DEF Declare, Fenced
  <2>3. \A n \in Name : SlotKept(home[h].slots[n], S[n])
    <3>1. \A n \in Name \ {NameOf[c]} : S[n] = home[h].slots[n]
      BY <1>1
    <3>2. /\ S[NameOf[c]].conn = c /\ S[NameOf[c]].gen = home[h].slots[NameOf[c]].gen
          /\ S[NameOf[c]].decl = S[NameOf[c]].gen
      BY <1>1, <2>2 DEF Slot
    <3> QED
      BY <1>0, <1>1, <2>2, <3>1, <3>2, ZenonT(40) DEF SlotKept
  <2> HIDE DEF S
  <2>4. r.slots = S /\ r.members = home[h].members
    BY <1>1 DEF HomeRecord
  <2> HIDE DEF r
  <2> QED
    BY <2>2, <2>3, <2>4, OneSlotsKept
<1>6. ASSUME NEW h \in Inst, NEW m \in Name, GraceFires(h, m)
      PROVE  SlotsKept
  <2> DEFINE S == [home[h].slots EXCEPT ![m].grace = "fired"]
             F == home[h].fired \cup {<<m, home[h].slots[m].gen>>}
             r == [home[h] EXCEPT !.slots = S, !.fired = F]
  <2>1. home' = [home EXCEPT ![h] = r]
    BY <1>1, <1>6 DEF GraceFires
  <2>2. \A n \in Name : /\ S[n].conn = home[h].slots[n].conn /\ S[n].gen = home[h].slots[n].gen
                        /\ S[n].ready = home[h].slots[n].ready /\ S[n].decl = home[h].slots[n].decl
    BY <1>1 DEF Slot
  <2> HIDE DEF S, F
  <2>3. r.slots = S /\ r.members = home[h].members
    BY <1>1 DEF HomeRecord
  <2> HIDE DEF r
  <2>4. \A n \in Name : SlotKept(home[h].slots[n], S[n])
    BY <1>0, <2>2 DEF SlotKept, SlotsNameMembers
  <2> QED
    BY <2>1, <2>3, <2>4, OneSlotsKept
<1>7. ASSUME NEW h \in Inst, NEW e \in home[h].fired, ExpireCoordinator(h, e[1], e[2])
      PROVE  SlotsKept
  <2> DEFINE S == [home[h].slots EXCEPT ![e[1]] = NoSlot]
             F == home[h].fired \ {<<e[1], e[2]>>}
             t == [home[h] EXCEPT !.fired = F]
             r == [t EXCEPT !.slots = S, !.sweep = TRUE]
  <2>1. home' = [home EXCEPT ![h] = r] \/ home' = [home EXCEPT ![h] = t]
    BY <1>7 DEF ExpireCoordinator
  <2>2. \A n \in Name : SlotKept(home[h].slots[n], S[n])
    BY <1>0, <1>1 DEF NoSlot, SlotKept
  <2> HIDE DEF S, F
  <2>3. t.slots = home[h].slots /\ t.members = home[h].members
    BY <1>1 DEF HomeRecord
  <2>4. r.slots = S /\ r.members = home[h].members
    BY <1>1 DEF HomeRecord
  <2> HIDE DEF r, t
  <2> QED
    BY <1>0, <2>1, <2>2, <2>3, <2>4, OneSlotsKept
<1>8. ASSUME NEW h \in Inst, SweepHome(h)
      PROVE  SlotsKept
  <2>1. home' = [home EXCEPT ![h] = [home[h] EXCEPT !.sweep = FALSE]]
    BY <1>1, <1>8 DEF SweepHome
  <2> QED
    BY <1>1, <1>2, <2>1 DEF HomeRecord
<1>9. ASSUME NEW h \in Inst, CloseHome(h)
      PROVE  SlotsKept
  <2> DEFINE S == [n \in Name |-> CloseSlot(home[h].slots[n])]
             r == [home[h] EXCEPT !.closed = TRUE, !.sweep = TRUE, !.slots = S]
  <2>1. home' = [home EXCEPT ![h] = r]
    BY <1>1, <1>9 DEF CloseHome
  <2>2. \A n \in Name : SlotKept(home[h].slots[n], S[n])
    BY <1>0 DEF CloseSlot, NoSlot, SlotKept
  <2> HIDE DEF S
  <2>3. r.slots = S /\ r.members = home[h].members
    BY <1>1 DEF HomeRecord
  <2> HIDE DEF r
  <2> QED
    BY <2>1, <2>2, <2>3, OneSlotsKept
<1>10. ASSUME home' = home
       PROVE  SlotsKept
  BY <1>2, <1>10
<1> QED
  BY <1>3, <1>4, <1>5, <1>6, <1>7, <1>8, <1>9, <1>10, HomesAlone DEF HomeStep, TimerStep

\* What membership says, in one formula.
Membership == HandshakeStaysIdle /\ MembersHold /\ SlotsNameMembers

\* The drain window never opens.
LEMMA NobodyDrains ==
    ASSUME HandshakeStaysIdle, Drains = FALSE, Next
    PROVE  ~draining' /\ drainTargets' = {}
<1>1. ~Drain /\ \A c \in Conn : ~DrainOne(c)
  BY DEF Drain, DrainOne, HandshakeStaysIdle
<1> QED
  BY <1>1, DrainVariables DEF HandshakeStaysIdle

\* Peers that are members stay what their homes and slots say of them.
PeersHold ==
    \A h \in Inst : \A c \in home[h].members :
        /\ peer'[c].inst = peer[c].inst /\ peer'[c].gen = peer[c].gen
        /\ peer'[c].detach \in {"idle", "spawned"}
        /\ peer'[c].pc \notin {"new", "hello", "activating"}

LEMMA MembersType ==
    ASSUME CountInv
    PROVE  /\ \A h \in Inst : home[h].members \subseteq Conn
           /\ \A h \in Inst : \A n \in Name : home[h].slots[n].gen \in Nat
           /\ \A c \in Conn : peer[c].replaced \in Conn \cup {None}
  BY DEF CountInv, TypeOK, HomeRecord, PeerRecord, Slot

\* Homes and slots that are kept go on naming members that hold.
LEMMA KeptMembers ==
    ASSUME CountInv, MembersHold, SlotsNameMembers, SlotsKept, PeersHold
    PROVE  /\ SlotsNameMembers'
           /\ \A h \in Inst : \A c \in home'[h].members :
                /\ peer'[c].inst = h /\ peer'[c].detach \in {"idle", "spawned"}
                /\ peer'[c].pc \notin {"new", "hello", "activating"}
<1>1. \A h \in Inst : \A c \in home'[h].members :
        /\ peer'[c].inst = h /\ peer'[c].detach \in {"idle", "spawned"}
        /\ peer'[c].pc \notin {"new", "hello", "activating"}
  BY DEF SlotsKept, PeersHold, MembersHold
<1>2. ASSUME NEW h \in Inst, NEW n \in Name
      PROVE  LET t == home'[h].slots[n]
             IN  /\ t.conn # None =>
                      /\ t.conn \in home'[h].members /\ RoleOf[t.conn] = "coordinator"
                      /\ NameOf[t.conn] = n /\ peer'[t.conn].gen = t.gen /\ t.gen > 0
                 /\ t.ready => t.conn # None /\ t.decl = t.gen
  <2>1. home'[h].members = home[h].members /\ SlotKept(home[h].slots[n], home'[h].slots[n])
    BY DEF SlotsKept
  <2> QED
    BY <2>1 DEF SlotKept, SlotsNameMembers, PeersHold
<1>3. SlotsNameMembers'
  BY <1>2 DEF SlotsNameMembers
<1> QED
  BY <1>1, <1>3

\* The steps other than attach and detach.
LEMMA OtherStepsKeepMembers ==
    ASSUME CountInv, Membership, Drains = FALSE, Next,
           \A c \in Conn : ~AttachInsert(c) /\ ~DetachHome(c)
    PROVE  Membership'
<1> USE DEF Membership
<1>1. SlotsKept /\ ~draining' /\ drainTargets' = {}
  BY OtherStepsKeepSlots, NobodyDrains
<1>2. ASSUME PeersHold,
             \A c \in Conn : peer'[c].pc \in {"new", "hello", "activating"} =>
                 peer'[c].detach = "idle",
             \A c \in Conn : peer'[c].replaced # None =>
                 peer'[peer'[c].replaced].pc # "activating"
      PROVE  Membership'
  <2>1. HandshakeStaysIdle'
    BY <1>1, <1>2 DEF HandshakeStaysIdle
  <2>2. MembersHold' /\ SlotsNameMembers'
    BY <1>1, <1>2, KeptMembers DEF MembersHold
  <2> QED
    BY <2>1, <2>2
<1>3. ASSUME NEW c \in Conn, Acquire(c)
      PROVE  Membership'
  <2>1. /\ \A d \in Conn \ {c} : peer'[d] = peer[d]
        /\ peer'[c].pc \in {"activating", "authfail"} /\ peer'[c].detach = "idle"
        /\ peer'[c].replaced = peer[c].replaced /\ peer[c].pc = "hello"
    BY <1>3, AcquirePeer
  <2>2. PeersHold
    BY <2>1, MembersType DEF PeersHold, MembersHold
  <2>3. \A d \in Conn : peer[d].replaced # c /\ peer'[d].replaced = peer[d].replaced
    BY <2>1, MembersType, ConnAssumption DEF CountInv, HomesAreReached, Started
  <2>4. \A d \in Conn : peer'[d].replaced # None => peer'[peer'[d].replaced].pc # "activating"
    BY <2>1, <2>3, MembersType DEF MembersHold
  <2>5. \A d \in Conn : peer'[d].pc \in {"new", "hello", "activating"} => peer'[d].detach = "idle"
    BY <2>1 DEF HandshakeStaysIdle
  <2> QED
    BY <1>2, <2>2, <2>4, <2>5
<1>4. ASSUME NEW c \in Conn, Release(c) \/ Forget(c)
      PROVE  Membership'
  <2>1. /\ \A d \in Conn \ {c} : peer'[d] = peer[d]
        /\ peer[c].detach \notin {"idle", "spawned"}
        /\ peer'[c].pc \in {peer[c].pc, "done"}
        /\ peer'[c].replaced \in {peer[c].replaced, None}
    BY <1>4, ReleasePeer, ForgetPeer
  <2>2. PeersHold
    BY <2>1, MembersType DEF PeersHold, MembersHold
  <2>3. \A d \in Conn : peer'[d].replaced # None => peer'[peer'[d].replaced].pc # "activating"
    BY <2>1, MembersType DEF MembersHold
  <2>4. \A d \in Conn : peer'[d].pc \in {"new", "hello", "activating"} => peer'[d].detach = "idle"
    BY <2>1 DEF HandshakeStaysIdle
  <2> QED
    BY <1>2, <2>2, <2>3, <2>4
<1>5. ASSUME \A c \in Conn : ~Acquire(c) /\ ~Release(c) /\ ~Forget(c)
      PROVE  Membership'
  <2>1. \A d \in Conn : Moves(peer[d], peer'[d]) /\ Waits(peer[d], peer'[d])
    BY <1>5, OtherStepsMove, OtherStepsWait DEF PeersMove
  <2>2. \A d \in Conn : peer'[d].detach \in {"idle", "spawned", "release", "done"}
    BY <1>5, OtherStepsMove DEF PeersMove, PeerRecord
  <2>3. PeersHold
    BY <2>1, <2>2, MembersType, Bounds DEF PeersHold, MembersHold, Moves, Waits
  <2>4. \A d \in Conn : peer'[d].replaced # None => peer'[peer'[d].replaced].pc # "activating"
    BY <2>1, MembersType DEF MembersHold, Moves, Waits
  <2>5. \A d \in Conn : peer'[d].pc \in {"new", "hello", "activating"} => peer'[d].detach = "idle"
    BY <2>1 DEF HandshakeStaysIdle, Moves, Waits
  <2> QED
    BY <1>2, <2>3, <2>4, <2>5
<1> QED
  BY <1>3, <1>4, <1>5

\* detach: the slot that names the peer is the one it is fenced by, and goes.
LEMMA DetachKeepsMembers ==
    ASSUME CountInv, Membership, Drains = FALSE, Next, NEW c \in Conn, DetachHome(c)
    PROVE  Membership'
<1> USE DEF Membership
<1> DEFINE h == peer[c].inst
           M == home[h].members \ {c}
           S == [home[h].slots EXCEPT ![NameOf[c]] = SlotAfterDetach(c, h, @)]
           r == [home[h] EXCEPT !.members = M]
           t == [home[h] EXCEPT !.members = M, !.slots = S]
           drops == /\ c \in home[h].members /\ RoleOf[c] = "coordinator"
                    /\ Fenced(c, home[h].slots)
<1>1. /\ h \in Inst /\ home \in [Inst -> HomeRecord] /\ home[h] \in HomeRecord
      /\ home[h].slots \in [Name -> Slot] /\ NameOf[c] \in Name /\ c # None
      /\ peer \in [Conn -> PeerRecord] /\ peer[c] \in PeerRecord
  BY HomeShape, BindingAssumption, ConnAssumption
     DEF CountInv, TypeOK, HomeRecord, PeerRecord, DetachHome
<1>2. home' = [home EXCEPT ![h] = IF drops THEN t ELSE r]
  BY <1>1 DEF DetachHome, DetachUser, DetachCoordinator
<1>3. /\ peer' = [peer EXCEPT ![c] = [peer[c] EXCEPT !.detach = "release"]]
      /\ peer[c].pc \notin {"new", "hello", "activating"}
  BY <1>1 DEF DetachHome, DetachCalled, HandshakeStaysIdle
<1>4. /\ \A d \in Conn \ {c} : peer'[d] = peer[d]
      /\ peer'[c].pc = peer[c].pc /\ peer'[c].replaced = peer[c].replaced
  BY <1>1, <1>3, DetachFields
<1>5. ~draining' /\ drainTargets' = {}
  BY NobodyDrains
<1>6. HandshakeStaysIdle'
  BY <1>3, <1>4, <1>5 DEF HandshakeStaysIdle
<1>7. /\ \A n \in Name : n # NameOf[c] => S[n] = home[h].slots[n]
      /\ S[NameOf[c]].conn = None /\ ~S[NameOf[c]].ready
  <2>1. LET x == Retain(home[h].slots[NameOf[c]]) IN x.conn = None /\ ~x.ready
    BY <1>1 DEF Retain, Slot
  <2> QED
    BY <1>1, <2>1 DEF SlotAfterDetach, NoSlot
<1> HIDE DEF S, M
<1>8. /\ r.members = M /\ r.slots = home[h].slots
      /\ t.members = M /\ t.slots = S
  BY <1>1 DEF HomeRecord
<1> HIDE DEF r, t, drops
<1>9. /\ \A g \in Inst : g # h => home'[g] = home[g]
      /\ home'[h].members = M
      /\ home'[h].slots = IF drops THEN S ELSE home[h].slots
  BY <1>1, <1>2, <1>8
<1> HIDE DEF h
<1>10. \A g \in Inst : home'[g].members = home[g].members \ {c}
  BY <1>1, <1>9 DEF M, MembersHold, h
<1>11. MembersHold'
  <2>1. \A g \in Inst : \A d \in home'[g].members :
          /\ peer'[d].inst = g /\ peer'[d].detach \in {"idle", "spawned"}
          /\ peer'[d].pc \notin {"new", "hello", "activating"}
    BY <1>4, <1>10, MembersType DEF MembersHold
  <2>2. \A d \in Conn : peer'[d].replaced # None => peer'[peer'[d].replaced].pc # "activating"
    BY <1>3, <1>4, MembersType DEF MembersHold
  <2> QED
    BY <2>1, <2>2 DEF MembersHold
<1>12. ASSUME NEW g \in Inst, NEW n \in Name
       PROVE  LET s == home'[g].slots[n]
              IN  /\ s.conn # None =>
                       /\ s.conn \in home'[g].members /\ RoleOf[s.conn] = "coordinator"
                       /\ NameOf[s.conn] = n /\ peer'[s.conn].gen = s.gen /\ s.gen > 0
                  /\ s.ready => s.conn # None /\ s.decl = s.gen
  <2>1. CASE home'[g].slots[n].conn = None /\ ~home'[g].slots[n].ready
    BY <2>1
  <2>2. CASE ~(home'[g].slots[n].conn = None /\ ~home'[g].slots[n].ready)
    <3>1. home'[g].slots[n] = home[g].slots[n] /\ ~(g = h /\ drops /\ n = NameOf[c])
      BY <1>1, <1>7, <1>9, <2>2
    <3>2. home[g].slots[n].conn # c
      <4>1. ASSUME home[g].slots[n].conn = c
            PROVE  FALSE
        <5>1. /\ c \in home[g].members /\ RoleOf[c] = "coordinator" /\ NameOf[c] = n
              /\ peer[c].gen = home[g].slots[n].gen
          BY <1>1, <4>1 DEF SlotsNameMembers
        <5>2. g = h
          BY <5>1 DEF MembersHold, h
        <5>3. drops
          BY <4>1, <5>1, <5>2 DEF Fenced, drops
        <5> QED
          BY <3>1, <5>1, <5>2, <5>3
      <4> QED
        BY <4>1
    <3>3. home[g].slots[n].conn # None =>
            home[g].slots[n].conn \in home'[g].members /\ home[g].slots[n].conn \in Conn \ {c}
      BY <1>10, <3>2, MembersType DEF SlotsNameMembers
    <3> QED
      BY <1>4, <3>1, <3>3 DEF SlotsNameMembers
  <2> QED
    BY <2>1, <2>2
<1>13. SlotsNameMembers'
  BY <1>12 DEF SlotsNameMembers
<1> QED
  BY <1>6, <1>11, <1>13

\* attach: the connection joins, and its slot moves to a generation of its own.
LEMMA AttachKeepsMembers ==
    ASSUME CountInv, Membership, Drains = FALSE, Next, NEW c \in Conn, AttachInsert(c)
    PROVE  Membership'
<1> USE DEF Membership
<1> DEFINE h == peer[c].inst
           slot == home[h].slots[NameOf[c]]
           taken == [peer[c] EXCEPT !.gen = slot.gen + 1, !.replaced = Replaced(slot)]
           p == IF RoleOf[c] = "coordinator" THEN taken ELSE peer[c]
           S == [home[h].slots EXCEPT ![NameOf[c]] = TakeOver(slot, c)]
           M == home[h].members \cup {c}
           joined == [home[h] EXCEPT !.lock = c, !.members = @ \cup {c}]
           r == [joined EXCEPT !.slots = S]
<1>1. /\ h \in Inst /\ home \in [Inst -> HomeRecord] /\ home[h] \in HomeRecord
      /\ home[h].slots \in [Name -> Slot] /\ NameOf[c] \in Name /\ c # None
      /\ peer \in [Conn -> PeerRecord] /\ peer[c] \in PeerRecord /\ slot \in Slot
      /\ peer[c].pc = "activating" /\ slot.gen \in Nat
  BY HomeShape, BindingAssumption, ConnAssumption
     DEF CountInv, TypeOK, HomeRecord, PeerRecord, Slot, AttachInsert, At, Inside
<1>2. PICK o \in BootOutcomes(peer[c]) :
        /\ peer' = [peer EXCEPT ![c] = Booted(p, o)]
        /\ home' = [home EXCEPT ![h] = IF RoleOf[c] = "coordinator" THEN r ELSE joined]
  BY DEF AttachInsert
<1>3. /\ p \in PeerRecord /\ p.inst = h /\ p.detach = peer[c].detach
      /\ p.shut = peer[c].shut /\ p.failed = peer[c].failed
      /\ RoleOf[c] = "coordinator" => p.gen = slot.gen + 1
      /\ p.replaced \in {peer[c].replaced, slot.conn}
  <2>1. CASE RoleOf[c] = "coordinator"
    <3>1. taken \in PeerRecord
      BY <2>1, TakenFields
    <3>2. /\ taken.inst = h /\ taken.detach = peer[c].detach /\ taken.gen = slot.gen + 1
          /\ taken.shut = peer[c].shut /\ taken.failed = peer[c].failed
          /\ taken.replaced = slot.conn
      BY <1>1 DEF PeerRecord, Replaced
    <3> QED
      BY <2>1, <3>1, <3>2
  <2>2. CASE RoleOf[c] # "coordinator"
    BY <1>1, <2>2
  <2> QED
    BY <2>1, <2>2
<1> HIDE DEF p, taken, slot
<1>4. o \in BootOutcomes(p)
  BY <1>2, <1>3 DEF BootOutcomes, CanEnqueue
<1> DEFINE q == Booted(p, o)
<1>5. /\ q.pc = "publishing" /\ q.inst = h /\ q.gen = p.gen /\ q.replaced = p.replaced
      /\ q.detach # peer[c].detach => q.detach = "spawned"
  BY <1>3, <1>4, BootedFields
<1> HIDE DEF q
<1>6. peer'[c] = q /\ \A d \in Conn \ {c} : peer'[d] = peer[d]
  BY <1>1, <1>2 DEF q
<1>7. peer[c].detach = "idle"
  BY <1>1 DEF HandshakeStaysIdle
<1>8. \A g \in Inst : c \notin home[g].members
  BY <1>1 DEF MembersHold
<1>9. /\ S[NameOf[c]].conn = c /\ S[NameOf[c]].gen = slot.gen + 1 /\ ~S[NameOf[c]].ready
      /\ \A n \in Name : n # NameOf[c] => S[n] = home[h].slots[n]
  BY <1>1, TakeOverFields DEF slot
<1> HIDE DEF S
<1>10. /\ joined \in HomeRecord /\ joined.members = M /\ joined.slots = home[h].slots
  BY <1>1 DEF HomeRecord
<1> HIDE DEF joined, M
<1>11. r.members = M /\ r.slots = S
  BY <1>10 DEF HomeRecord
<1> HIDE DEF r
<1>12. /\ \A g \in Inst : g # h => home'[g] = home[g]
       /\ home'[h].members = M
       /\ home'[h].slots = IF RoleOf[c] = "coordinator" THEN S ELSE home[h].slots
  BY <1>1, <1>2, <1>10, <1>11
<1>13. HandshakeStaysIdle'
  <2>1. ~draining' /\ drainTargets' = {}
    BY NobodyDrains
  <2> QED
    BY <1>5, <1>6, <2>1 DEF HandshakeStaysIdle
<1>14. slot.conn # None => slot.conn \in Conn \ {c} /\ peer[slot.conn].pc # "activating"
  <2>1. NameOf[c] \in Name /\ h \in Inst /\ slot = home[h].slots[NameOf[c]]
    BY <1>1 DEF slot
  <2>2. slot.conn # None => slot.conn \in home[h].members
    BY <2>1 DEF SlotsNameMembers
  <2>3. \A d \in home[h].members : d \in Conn /\ d # c /\ peer[d].pc # "activating"
    BY <1>8, <2>1, MembersType DEF MembersHold
  <2> QED
    BY <2>2, <2>3
<1>15. MembersHold'
  <2>1. \A g \in Inst : \A d \in home'[g].members :
          /\ peer'[d].inst = g /\ peer'[d].detach \in {"idle", "spawned"}
          /\ peer'[d].pc \notin {"new", "hello", "activating"}
    BY <1>1, <1>5, <1>6, <1>7, <1>12, MembersType DEF MembersHold, M
  <2>2. \A d \in Conn : peer[d].replaced # None => peer'[peer[d].replaced].pc # "activating"
    BY <1>5, <1>6, MembersType DEF MembersHold
  <2>3. slot.conn # None => peer'[slot.conn].pc # "activating"
    BY <1>6, <1>14
  <2>4. \A d \in Conn : peer'[d].replaced # None => peer'[peer'[d].replaced].pc # "activating"
    BY <1>3, <1>5, <1>6, <2>2, <2>3
  <2> QED
    BY <2>1, <2>4 DEF MembersHold
<1>16. ASSUME NEW g \in Inst, NEW n \in Name
       PROVE  LET s == home'[g].slots[n]
              IN  /\ s.conn # None =>
                       /\ s.conn \in home'[g].members /\ RoleOf[s.conn] = "coordinator"
                       /\ NameOf[s.conn] = n /\ peer'[s.conn].gen = s.gen /\ s.gen > 0
                  /\ s.ready => s.conn # None /\ s.decl = s.gen
  <2>1. CASE g = h /\ RoleOf[c] = "coordinator" /\ n = NameOf[c]
    <3>1. home'[g].slots[n] = S[n] /\ S[n].conn = c /\ ~S[n].ready /\ c \in home'[g].members
      BY <1>9, <1>12, <2>1 DEF M
    <3>2. S[n].gen = slot.gen + 1 /\ peer'[c].gen = slot.gen + 1
      BY <1>3, <1>5, <1>6, <1>9, <2>1
    <3>3. S[n].gen > 0
      BY <1>1, <3>2
    <3> QED
      BY <2>1, <3>1, <3>2, <3>3
  <2>2. CASE ~(g = h /\ RoleOf[c] = "coordinator" /\ n = NameOf[c])
    <3>1. home'[g].slots[n] = home[g].slots[n] /\ home[g].members \subseteq home'[g].members
      BY <1>9, <1>12, <2>2 DEF M
    <3>2. home[g].slots[n].conn # None => home[g].slots[n].conn \in Conn \ {c}
      BY <1>8, MembersType DEF SlotsNameMembers
    <3> QED
      BY <1>6, <3>1, <3>2 DEF SlotsNameMembers
  <2> QED
    BY <2>1, <2>2
<1>17. SlotsNameMembers'
  BY <1>16 DEF SlotsNameMembers
<1> QED
  BY <1>13, <1>15, <1>17

LEMMA MembershipStep ==
    ASSUME CountInv, Membership, Drains = FALSE, [Next]_vars
    PROVE  Membership'
<1>1. CASE UNCHANGED vars
  BY <1>1 DEF vars, homeVars, serverVars, Membership, HandshakeStaysIdle, MembersHold,
              SlotsNameMembers
<1> QED
  BY <1>1, OtherStepsKeepMembers, DetachKeepsMembers, AttachKeepsMembers

\* attach, detach and activeCoordinatorLocked, on a relay that does not drain:
\* a slot that names a connection names one still attached to this home in the
\* slot's generation, and is ready only on declarations of that generation.
THEOREM SlotsNameConnections ==
    ASSUME Drains = FALSE
    PROVE  Spec => []SlotNamesItsConnection
<1>1. Init => Membership
  BY DEF Init, NewPeer, NewHome, NoSlot, Membership, HandshakeStaysIdle, MembersHold,
         SlotsNameMembers
<1>2. CountInv /\ Membership /\ [Next]_vars => Membership'
  BY MembershipStep
<1>3. Membership => SlotNamesItsConnection
  BY DEF Membership, SlotsNameMembers, SlotNamesItsConnection, Present
<1> QED
  BY <1>1, <1>2, <1>3, LifecycleCounts, PTL DEF Spec

----------------------------------------------------------------------------
\* The registry

\* A connection that acquired a home and has not released it is counted.
LEMMA HolderCounts ==
    ASSUME CountInv, NEW c \in Conn, NEW h \in Inst, peer[c].inst = h, peer[c].detach # "done"
    PROVE  home[h].refs > 0
<1>1. /\ home[h].refs = Cardinality(Holders(h)) /\ home[h].refs \in Nat
      /\ IsFiniteSet(Holders(h)) /\ c \in Holders(h)
  BY HomeShape, Bounds DEF CountInv, RefsMatchHolders, Holders
<1> QED
  BY <1>1, FS_EmptySet

LEMMA MembersCount ==
    ASSUME CountInv, MembersHold, NEW h \in Inst, home[h].members # {}
    PROVE  home[h].refs > 0
<1>1. PICK c \in home[h].members : c \in Conn /\ peer[c].inst = h /\ peer[c].detach # "done"
  BY MembersType DEF MembersHold
<1> QED
  BY <1>1, HolderCounts

\* What a step that leaves the registry alone may do to the use of a home.
UseKept(s, t) ==
    /\ t.refs = s.refs /\ t.id = s.id
    /\ t.members \subseteq s.members \/ s.refs > 0
    /\ Present(t.slots) \subseteq Present(s.slots) \/ s.refs > 0
    /\ Present(s.slots) \subseteq Present(t.slots) \/ s.refs > 0 \/ t.sweep
    /\ s.sweep => t.sweep

UsesKept == \A h \in Inst : UseKept(home[h], home'[h])

\* UsesKept for a step that changes one home.
LEMMA OneUseKept ==
    ASSUME CountInv, NEW h \in Inst, NEW r, home' = [home EXCEPT ![h] = r], UseKept(home[h], r)
    PROVE  UsesKept
<1>1. \A g \in Inst : home'[g] = IF g = h THEN r ELSE home[g]
  BY DEF CountInv, TypeOK
<1> QED
  BY <1>1 DEF UsesKept, UseKept

LEMMA OtherStepsKeepUses ==
    ASSUME CountInv, Membership, Next,
           \A c \in Conn : ~Acquire(c) /\ ~Release(c), \A h \in Inst : ~SweepHome(h)
    PROVE  UsesKept /\ registry' = registry /\ born' = born
<1> USE DEF Membership
<1>1. /\ home \in [Inst -> HomeRecord]
      /\ \A h \in Inst : home[h].slots \in [Name -> Slot] /\ home[h] \in HomeRecord
      /\ \A c \in Conn : NameOf[c] \in Name
  BY BindingAssumption DEF CountInv, TypeOK, HomeRecord
<1>2. ASSUME NEW c \in Conn, AttachInsert(c) \/ AttachPublish(c) \/ Declare(c)
      PROVE  UsesKept /\ registry' = registry /\ born' = born
  <2>1. PICK h \in Inst : h = peer[c].inst
    BY <1>2, HomeShape DEF AttachInsert, AttachPublish, Declare, At, Inside
  <2>2. CASE AttachInsert(c)
    <3> DEFINE S == [home[h].slots EXCEPT ![NameOf[c]] = TakeOver(home[h].slots[NameOf[c]], c)]
               joined == [home[h] EXCEPT !.lock = c, !.members = @ \cup {c}]
               r == [joined EXCEPT !.slots = S]
    <3>1. home' = [home EXCEPT ![h] = joined] \/ home' = [home EXCEPT ![h] = r]
      BY <2>1, <2>2 DEF AttachInsert
    <3>2. home[h].refs > 0
      BY <2>1, <2>2, HolderCounts DEF AttachInsert, At, HandshakeStaysIdle
    <3> HIDE DEF S
    <3>3. /\ joined.refs = home[h].refs /\ joined.id = home[h].id
          /\ joined.sweep = home[h].sweep
      BY <1>1 DEF HomeRecord
    <3>4. /\ r.refs = home[h].refs /\ r.id = home[h].id /\ r.sweep = home[h].sweep
      BY <1>1 DEF HomeRecord
    <3> HIDE DEF r, joined
    <3>5. UseKept(home[h], joined) /\ UseKept(home[h], r)
      BY <3>2, <3>3, <3>4 DEF UseKept
    <3> QED
      BY <2>2, <3>1, <3>5, OneUseKept DEF AttachInsert
  <2>3. CASE AttachPublish(c)
    <3> DEFINE r == [home[h] EXCEPT !.lock = None]
    <3>1. home' = [home EXCEPT ![h] = r]
      BY <2>1, <2>3, HomeAfter
    <3>2. /\ r.refs = home[h].refs /\ r.id = home[h].id /\ r.sweep = home[h].sweep
          /\ r.members = home[h].members /\ r.slots = home[h].slots
      BY <1>1 DEF HomeRecord
    <3> HIDE DEF r
    <3>3. UseKept(home[h], r)
      BY <3>2 DEF UseKept
    <3> QED
      BY <2>3, <3>1, <3>3, OneUseKept DEF AttachPublish
  <2>4. CASE Declare(c)
    <3> DEFINE S == [home[h].slots EXCEPT ![NameOf[c]].ready = TRUE,
                                          ![NameOf[c]].decl = peer[c].gen]
               r == [home[h] EXCEPT !.slots = S]
    <3>1. home' = [home EXCEPT ![h] = r]
      BY <1>1, <2>1, <2>4 DEF Declare
    <3>2. \A n \in Name : S[n].gen = home[h].slots[n].gen
      BY <1>1 DEF Slot
    <3> HIDE DEF S
    <3>3. /\ r.refs = home[h].refs /\ r.id = home[h].id /\ r.sweep = home[h].sweep
          /\ r.members = home[h].members /\ r.slots = S
      BY <1>1 DEF HomeRecord
    <3> HIDE DEF r
    <3>4. UseKept(home[h], r)
      BY <3>2, <3>3 DEF UseKept, Present
    <3> QED
      BY <2>4, <3>1, <3>4, OneUseKept DEF Declare
  <2> QED
    BY <1>2, <2>2, <2>3, <2>4
<1>3. ASSUME NEW c \in Conn, DetachHome(c)
      PROVE  UsesKept /\ registry' = registry /\ born' = born
  <2>1. PICK h \in Inst : h = peer[c].inst
    BY <1>3, HomeShape DEF DetachHome
  <2> DEFINE M == home[h].members \ {c}
             S == [home[h].slots EXCEPT ![NameOf[c]] = SlotAfterDetach(c, h, @)]
             r == [home[h] EXCEPT !.members = M]
             t == [home[h] EXCEPT !.members = M, !.slots = S]
  <2>2. home' = [home EXCEPT ![h] = r] \/ home' = [home EXCEPT ![h] = t]
    BY <1>1, <1>3, <2>1 DEF DetachHome, DetachUser, DetachCoordinator
  <2>3. home[h].refs > 0
    BY <1>3, <2>1, HolderCounts DEF DetachHome, DetachCalled
  <2> HIDE DEF S, M
  <2>4. r.refs = home[h].refs /\ r.id = home[h].id /\ r.sweep = home[h].sweep
    BY <1>1 DEF HomeRecord
  <2>5. t.refs = home[h].refs /\ t.id = home[h].id /\ t.sweep = home[h].sweep
    BY <1>1 DEF HomeRecord
  <2> HIDE DEF r, t
  <2>6. UseKept(home[h], r) /\ UseKept(home[h], t)
    BY <2>3, <2>4, <2>5 DEF UseKept
  <2> QED
    BY <1>3, <2>2, <2>6, OneUseKept DEF DetachHome
<1>4. ASSUME NEW h \in Inst, NEW m \in Name, GraceFires(h, m)
      PROVE  UsesKept /\ registry' = registry /\ born' = born
  <2> DEFINE S == [home[h].slots EXCEPT ![m].grace = "fired"]
             F == home[h].fired \cup {<<m, home[h].slots[m].gen>>}
             r == [home[h] EXCEPT !.slots = S, !.fired = F]
  <2>1. home' = [home EXCEPT ![h] = r]
    BY <1>1, <1>4 DEF GraceFires
  <2>2. \A n \in Name : S[n].gen = home[h].slots[n].gen
    BY <1>1 DEF Slot
  <2> HIDE DEF S, F
  <2>3. /\ r.refs = home[h].refs /\ r.id = home[h].id /\ r.sweep = home[h].sweep
        /\ r.members = home[h].members /\ r.slots = S
    BY <1>1 DEF HomeRecord
  <2> HIDE DEF r
  <2>4. UseKept(home[h], r)
    BY <2>2, <2>3 DEF UseKept, Present
  <2> QED
    BY <1>4, <2>1, <2>4, OneUseKept DEF GraceFires
<1>5. ASSUME NEW h \in Inst, NEW e \in home[h].fired, ExpireCoordinator(h, e[1], e[2])
      PROVE  UsesKept /\ registry' = registry /\ born' = born
  <2> DEFINE S == [home[h].slots EXCEPT ![e[1]] = NoSlot]
             F == home[h].fired \ {<<e[1], e[2]>>}
             t == [home[h] EXCEPT !.fired = F]
             r == [t EXCEPT !.slots = S, !.sweep = TRUE]
  <2>1. home' = [home EXCEPT ![h] = r] \/ home' = [home EXCEPT ![h] = t]
    BY <1>5 DEF ExpireCoordinator
  <2>2. \A n \in Name : S[n] = home[h].slots[n] \/ S[n].gen = 0
    BY <1>1 DEF NoSlot
  <2> HIDE DEF S, F
  <2>3. /\ t.refs = home[h].refs /\ t.id = home[h].id /\ t.sweep = home[h].sweep
        /\ t.members = home[h].members /\ t.slots = home[h].slots
    BY <1>1 DEF HomeRecord
  <2>4. /\ r.refs = home[h].refs /\ r.id = home[h].id /\ r.sweep
        /\ r.members = home[h].members /\ r.slots = S
    BY <1>1 DEF HomeRecord
  <2> HIDE DEF r, t
  <2>5. UseKept(home[h], t)
    BY <2>3 DEF UseKept
  <2>6. UseKept(home[h], r)
    BY <2>2, <2>4 DEF UseKept, Present
  <2> QED
    BY <1>5, <2>1, <2>5, <2>6, OneUseKept DEF ExpireCoordinator
<1>6. ASSUME NEW h \in Inst, CloseHome(h)
      PROVE  UsesKept /\ registry' = registry /\ born' = born
  <2> DEFINE S == [n \in Name |-> CloseSlot(home[h].slots[n])]
             r == [home[h] EXCEPT !.closed = TRUE, !.sweep = TRUE, !.slots = S]
  <2>1. home' = [home EXCEPT ![h] = r]
    BY <1>1, <1>6 DEF CloseHome
  <2>2. \A n \in Name : S[n] = home[h].slots[n] \/ S[n].gen = 0
    BY DEF CloseSlot, NoSlot
  <2> HIDE DEF S
  <2>3. /\ r.refs = home[h].refs /\ r.id = home[h].id /\ r.sweep
        /\ r.members = home[h].members /\ r.slots = S
    BY <1>1 DEF HomeRecord
  <2> HIDE DEF r
  <2>4. UseKept(home[h], r)
    BY <2>2, <2>3 DEF UseKept, Present
  <2> QED
    BY <1>6, <2>1, <2>4, OneUseKept DEF CloseHome
<1>7. ASSUME home' = home /\ registry' = registry /\ born' = born
      PROVE  UsesKept /\ registry' = registry /\ born' = born
  BY <1>7 DEF UsesKept, UseKept
<1> QED
  BY <1>2, <1>3, <1>4, <1>5, <1>6, <1>7, HomesAlone DEF HomeStep, TimerStep
\* A home with members is held by them.
MembersCounted == \A h \in Inst : home[h].members # {} => home[h].refs > 0

\* A used home was created, so its id is one the registry knows.
LEMMA UsedHasId ==
    ASSUME CountInv, RegistryKnowsIds, MembersCounted, NEW h \in Inst,
           home[h].refs > 0 \/ home[h].members # {} \/ Present(home[h].slots) # {}
    PROVE  home[h].id \in HomeId /\ h <= born
<1>1. h \in Nat /\ born \in Nat /\ home[h].refs \in Nat
  BY Bounds DEF CountInv, TypeOK, HomeRecord, NoInst
<1>2. ~(h > born)
  BY <1>1 DEF RegistryKnowsIds, MembersCounted
<1> QED
  BY <1>1, <1>2 DEF RegistryKnowsIds

\* The steps that leave the registry alone.
LEMMA KeptRegistry ==
    ASSUME CountInv, RegistryKnowsIds, RegistryHoldsUsedHomes,
           UsesKept, registry' = registry, born' = born
    PROVE  RegistryKnowsIds' /\ RegistryHoldsUsedHomes'
<1>1. \A h \in Inst : home[h].refs \in Nat /\ UseKept(home[h], home'[h])
  BY DEF CountInv, TypeOK, HomeRecord, UsesKept
<1>2. \A i \in HomeId : registry[i] \in Inst \cup {NoInst}
  BY DEF CountInv, TypeOK
<1>3. RegistryKnowsIds'
  <2>1. \A i \in HomeId : registry[i] # NoInst => home'[registry[i]].id = i /\ registry[i] <= born
    BY <1>1, <1>2 DEF UseKept, RegistryKnowsIds
  <2>2. \A h \in Inst : h > born =>
          home'[h].refs = 0 /\ Present(home'[h].slots) = {} /\ home'[h].id = None
    BY <1>1 DEF UseKept, RegistryKnowsIds
  <2>3. \A h \in Inst : h <= born => home'[h].id \in HomeId
    BY <1>1 DEF UseKept, RegistryKnowsIds
  <2> QED
    BY <2>1, <2>2, <2>3 DEF RegistryKnowsIds
<1>4. \A h \in Inst :
        /\ home'[h].refs > 0 \/ home'[h].members # {} \/ Present(home'[h].slots) # {} =>
             registry[home'[h].id] = h
        /\ home'[h].id # None /\ registry[home'[h].id] = h =>
             home'[h].refs > 0 \/ Present(home'[h].slots) # {} \/ home'[h].sweep
  BY <1>1 DEF UseKept, RegistryHoldsUsedHomes
<1> QED
  BY <1>3, <1>4 DEF RegistryHoldsUsedHomes

\* deleteIfUnusedLocked, after a release or on its own.
LEMMA SweptRegistry ==
    ASSUME CountInv, RegistryKnowsIds, RegistryHoldsUsedHomes, MembersCounted, MembersCounted',
           NEW h \in Inst, NEW r \in Nat, r <= home[h].refs, Sweep(h, r), born' = born,
           \A g \in Inst \ {h} : home'[g] = home[g],
           home'[h].refs = r, home'[h].id = home[h].id,
           home'[h].members = home[h].members, home'[h].slots = home[h].slots
    PROVE  RegistryKnowsIds' /\ RegistryHoldsUsedHomes'
<1> DEFINE Used(g) == home[g].refs > 0 \/ home[g].members # {} \/ Present(home[g].slots) # {}
           gone == registry[home[h].id] = h /\ Unused(h, r)
<1>1. /\ registry \in [HomeId -> Inst \cup {NoInst}] /\ NoInst \notin Inst
      /\ \A g \in Inst : home[g].refs \in Nat
  BY Bounds DEF CountInv, TypeOK, HomeRecord
<1>2. \A i \in HomeId : registry'[i] = IF gone /\ i = home[h].id THEN NoInst ELSE registry[i]
  BY <1>1 DEF Sweep
<1>3. \A g \in Inst : Used(g) => home[g].id \in HomeId /\ registry[home[g].id] = g
  BY UsedHasId DEF RegistryHoldsUsedHomes
<1>4. \A g \in Inst : home'[g].id = home[g].id /\ (g # h => home'[g].refs = home[g].refs)
                      /\ home'[g].members = home[g].members /\ home'[g].slots = home[g].slots
  OBVIOUS
<1>5. RegistryKnowsIds'
  <2>1. \A i \in HomeId : registry'[i] # NoInst => home'[registry'[i]].id = i /\ registry'[i] <= born
    BY <1>1, <1>2, <1>4 DEF RegistryKnowsIds
  <2>2. \A g \in Inst : g > born =>
          home'[g].refs = 0 /\ Present(home'[g].slots) = {} /\ home'[g].id = None
    BY <1>1, <1>4 DEF RegistryKnowsIds
  <2>3. \A g \in Inst : g <= born => home'[g].id \in HomeId
    BY <1>4 DEF RegistryKnowsIds
  <2> QED
    BY <2>1, <2>2, <2>3 DEF RegistryKnowsIds
<1>6. ASSUME NEW g \in Inst,
             home'[g].refs > 0 \/ home'[g].members # {} \/ Present(home'[g].slots) # {}
      PROVE  registry'[home'[g].id] = g
  <2>1. Used(g)
    BY <1>1, <1>4, <1>6
  <2>2. home[g].id \in HomeId /\ registry[home[g].id] = g
    BY <1>3, <2>1
  <2>3. g = h => ~gone
    BY <1>4, <1>6 DEF Unused
  <2> QED
    BY <1>2, <1>4, <2>2, <2>3
<1>7. ASSUME NEW g \in Inst, home'[g].id # None, registry'[home'[g].id] = g
      PROVE  home'[g].refs > 0 \/ Present(home'[g].slots) # {} \/ home'[g].sweep
  <2>1. g \in Nat /\ born \in Nat
    BY Bounds DEF CountInv, TypeOK, NoInst
  <2>2. home[g].id \in HomeId
    BY <1>4, <1>7, <2>1 DEF RegistryKnowsIds
  <2>3. registry[home[g].id] = g /\ ~(gone /\ home[g].id = home[h].id)
    BY <1>1, <1>2, <1>4, <1>7, <2>2
  <2>4. CASE g = h
    BY <1>4, <2>3, <2>4 DEF Unused, MembersCounted
  <2>5. CASE g # h
    BY <1>4, <1>7, <2>3, <2>5 DEF RegistryHoldsUsedHomes
  <2> QED
    BY <2>4, <2>5
<1> QED
  BY <1>5, <1>6, <1>7 DEF RegistryHoldsUsedHomes

\* homeRegistry.acquire: the home that is known, or a new one.
LEMMA AcquiredRegistry ==
    ASSUME CountInv, TypeOK', RegistryKnowsIds, RegistryHoldsUsedHomes, MembersCounted,
           NEW c \in Conn, Acquire(c)
    PROVE  RegistryKnowsIds' /\ RegistryHoldsUsedHomes'
<1> DEFINE id == HomeOf[c]
           known == registry[id] # NoInst
           h == IF known THEN registry[id] ELSE born + 1
<1>1. /\ registry \in [HomeId -> Inst \cup {NoInst}] /\ NoInst \notin Inst
      /\ home \in [Inst -> HomeRecord] /\ born \in Nat /\ born \in Inst \cup {NoInst}
      /\ \A g \in Inst : home[g].refs \in Nat /\ g \in Nat
      /\ id \in HomeId /\ NoInst = 0
  BY Bounds, BindingAssumption DEF CountInv, TypeOK, HomeRecord, NoInst
<1>2. CASE UNCHANGED homeVars
  BY <1>2, KeptRegistry DEF homeVars, UsesKept, UseKept
<1>3. CASE /\ registry' = [registry EXCEPT ![id] = h]
           /\ home' = [home EXCEPT ![h].id = id, ![h].refs = @ + 1]
           /\ born' = IF known THEN born ELSE h
  <2>1. h \in Inst
    BY <1>1, <1>3 DEF TypeOK
  <2> HIDE DEF id
  <2>2. \A i \in HomeId : registry'[i] = IF i = id THEN h ELSE registry[i]
    BY <1>1, <1>3
  <2>3. \A g \in Inst :
          /\ home'[g].id = IF g = h THEN id ELSE home[g].id
          /\ home'[g].refs = IF g = h THEN home[g].refs + 1 ELSE home[g].refs
          /\ home'[g].members = home[g].members /\ home'[g].slots = home[g].slots
          /\ home'[g].sweep = home[g].sweep
    BY <1>1, <1>3, <2>1 DEF HomeRecord
  <2>4. /\ known => home[h].id = id /\ h <= born /\ born' = born
        /\ ~known => home[h].id = None /\ h > born /\ born' = h
    BY <1>1, <1>3, <2>1 DEF RegistryKnowsIds
  <2>5. known \/ (registry[id] = NoInst /\ h = born + 1)
    OBVIOUS
  <2> HIDE DEF h, known
  <2>6. RegistryKnowsIds'
    <3>1. ASSUME NEW i \in HomeId, registry'[i] # NoInst
          PROVE  home'[registry'[i]].id = i /\ registry'[i] <= born'
      <4>1. CASE i = id
        BY <1>1, <2>1, <2>2, <2>3, <2>4, <2>5, <4>1
      <4>2. CASE i # id
        <5>1. /\ registry'[i] = registry[i] /\ registry[i] \in Inst
              /\ home[registry[i]].id = i /\ registry[i] <= born
          BY <1>1, <2>2, <3>1, <4>2 DEF RegistryKnowsIds
        <5>2. registry[i] # h
          BY <1>1, <2>1, <2>4, <2>5, <4>2, <5>1
        <5>3. born <= born' /\ born' \in Nat /\ born \in Nat /\ registry[i] \in Nat
          <6>1. h \in Nat /\ born \in Nat /\ registry[i] \in Nat
            BY <1>1, <2>1, <5>1
          <6>2. (born' = born) \/ (born' = h /\ h > born)
            BY <2>4
          <6> QED
            BY <6>1, <6>2
        <5>4. home'[registry[i]].id = home[registry[i]].id
          BY <2>3, <5>1, <5>2
        <5>5. registry[i] <= born'
          BY <5>1, <5>3
        <5> QED
          BY <5>1, <5>4, <5>5
      <4> QED
        BY <4>1, <4>2
    <3>2. \A g \in Inst : g <= born' => home'[g].id \in HomeId
      BY <1>1, <2>1, <2>3, <2>4, <2>5 DEF RegistryKnowsIds
    <3>3. \A g \in Inst : g > born' =>
            home'[g].refs = 0 /\ Present(home'[g].slots) = {} /\ home'[g].id = None
      BY <1>1, <2>1, <2>3, <2>4 DEF RegistryKnowsIds
    <3> QED
      BY <3>1, <3>2, <3>3 DEF RegistryKnowsIds
  <2>7. ASSUME NEW g \in Inst,
               home'[g].refs > 0 \/ home'[g].members # {} \/ Present(home'[g].slots) # {}
        PROVE  registry'[home'[g].id] = g
    <3>1. CASE g = h
      BY <1>1, <2>2, <2>3, <3>1
    <3>2. CASE g # h
      <4>1. home[g].id \in HomeId /\ g <= born /\ registry[home[g].id] = g
        BY <2>3, <2>7, <3>2, UsedHasId DEF RegistryHoldsUsedHomes
      <4>2. home[g].id # id
        BY <1>1, <2>5, <3>2, <4>1 DEF h, known
      <4> QED
        BY <2>2, <2>3, <3>2, <4>1, <4>2
    <3> QED
      BY <3>1, <3>2
  <2>8. ASSUME NEW g \in Inst, home'[g].id # None, registry'[home'[g].id] = g
        PROVE  home'[g].refs > 0 \/ Present(home'[g].slots) # {} \/ home'[g].sweep
    <3>1. CASE g = h
      BY <1>1, <2>3, <3>1
    <3>2. CASE g # h
      <4>1. home[g].id \in HomeId /\ home[g].id # None
        BY <1>1, <2>3, <2>8, <3>2 DEF RegistryKnowsIds
      <4>2. registry[home[g].id] = g
        BY <2>2, <2>3, <2>8, <3>2, <4>1
      <4> QED
        BY <2>3, <3>2, <4>1, <4>2 DEF RegistryHoldsUsedHomes
    <3> QED
      BY <3>1, <3>2
  <2> QED
    BY <2>6, <2>7, <2>8 DEF RegistryHoldsUsedHomes
<1> QED
  BY <1>2, <1>3 DEF Acquire

LEMMA RegistryStep ==
    ASSUME CountInv, CountInv', Membership, MembersCounted, MembersCounted',
           RegistryKnowsIds, RegistryHoldsUsedHomes, [Next]_vars
    PROVE  RegistryKnowsIds' /\ RegistryHoldsUsedHomes'
<1>1. home \in [Inst -> HomeRecord] /\ \A h \in Inst : home[h].refs \in Nat /\ home[h] \in HomeRecord
  BY DEF CountInv, TypeOK, HomeRecord
<1>2. CASE UNCHANGED vars
  BY <1>2, KeptRegistry DEF vars, homeVars, UsesKept, UseKept
<1>3. ASSUME NEW c \in Conn, Acquire(c)
      PROVE  RegistryKnowsIds' /\ RegistryHoldsUsedHomes'
  BY <1>3, AcquiredRegistry DEF CountInv
<1>4. ASSUME NEW c \in Conn, Release(c)
      PROVE  RegistryKnowsIds' /\ RegistryHoldsUsedHomes'
  <2>1. PICK h \in Inst : h = peer[c].inst
    BY <1>4, ReleasePeer
  <2>2. home[h].refs > 0
    BY <1>4, <2>1, HolderCounts DEF Release
  <2>3. home' = [home EXCEPT ![h].refs = @ - 1] /\ Sweep(h, home[h].refs - 1) /\ born' = born
    BY <1>4, <2>1 DEF Release
  <2>4. /\ \A g \in Inst \ {h} : home'[g] = home[g]
        /\ home'[h].refs = home[h].refs - 1 /\ home'[h].id = home[h].id
        /\ home'[h].members = home[h].members /\ home'[h].slots = home[h].slots
    BY <1>1, <2>3 DEF HomeRecord
  <2>5. home[h].refs - 1 \in Nat /\ home[h].refs - 1 <= home[h].refs
    BY <1>1, <2>2
  <2> QED
    BY <2>3, <2>4, <2>5, SweptRegistry
<1>5. ASSUME NEW h \in Inst, SweepHome(h)
      PROVE  RegistryKnowsIds' /\ RegistryHoldsUsedHomes'
  <2>1. home' = [home EXCEPT ![h].sweep = FALSE] /\ Sweep(h, home[h].refs) /\ born' = born
    BY <1>5 DEF SweepHome
  <2>2. /\ \A g \in Inst \ {h} : home'[g] = home[g]
        /\ home'[h].refs = home[h].refs /\ home'[h].id = home[h].id
        /\ home'[h].members = home[h].members /\ home'[h].slots = home[h].slots
    BY <1>1, <2>1 DEF HomeRecord
  <2>3. home[h].refs <= home[h].refs
    BY <1>1
  <2> QED
    BY <1>1, <2>1, <2>2, <2>3, SweptRegistry
<1>6. CASE Next /\ (\A c \in Conn : ~Acquire(c) /\ ~Release(c)) /\ \A h \in Inst : ~SweepHome(h)
  BY <1>6, OtherStepsKeepUses, KeptRegistry
<1> QED
  BY <1>2, <1>3, <1>4, <1>5, <1>6

\* Members, slots and registry together.
LEMMA RegistryInvariant ==
    ASSUME Drains = FALSE
    PROVE  Spec => [](Membership /\ RegistryKnowsIds /\ RegistryHoldsUsedHomes)
<1> DEFINE Registry == RegistryKnowsIds /\ RegistryHoldsUsedHomes
<1>1. Init => Membership
  BY DEF Init, NewPeer, NewHome, NoSlot, Membership, HandshakeStaysIdle, MembersHold,
         SlotsNameMembers
<1>2. CountInv /\ Membership /\ [Next]_vars => Membership'
  BY MembershipStep
<1>3. Init => Registry
  <2>1. \A h \in Inst : ~(h <= NoInst)
    BY Bounds DEF NoInst, Inst
  <2> QED
    BY <2>1, Bounds DEF Init, NewHome, NoSlot, RegistryKnowsIds, RegistryHoldsUsedHomes, Present
<1>4. CountInv /\ Membership => MembersCounted
  BY MembersCount DEF Membership, MembersCounted
<1>5. /\ CountInv /\ CountInv' /\ Membership /\ MembersCounted /\ MembersCounted'
      /\ Registry /\ [Next]_vars
      => Registry'
  BY RegistryStep
<1> QED
  BY <1>1, <1>2, <1>3, <1>4, <1>5, LifecycleCounts, PTL DEF Spec

\* homeRegistry and deleteIfUnusedLocked, on a relay that does not drain: a
\* home in use is the one the registry returns for its id, so two peers of one
\* home never meet in different ones, and a home nobody uses is forgotten.
THEOREM RegistryHoldsHomesInUse ==
    ASSUME Drains = FALSE
    PROVE  Spec => []RegistryHoldsUsedHomes
BY RegistryInvariant, PTL

----------------------------------------------------------------------------
\* Shutdown

\* A home that is closed keeps no offline slot: nothing would expire it.
Shut(r) == r.closed => \A n \in Present(r.slots) : r.slots[n].conn # None

HomesShut == \A h \in Inst : Shut(home[h])

\* A home that Close found in the registry is closed, or Close will close it.
CloseFindsHomes ==
    closed => \A i \in HomeId :
        registry[i] # NoInst => registry[i] \in closeList \/ home[registry[i]].closed

\* A connection that is over holds no home.
DoneHoldsNothing == \A c \in Conn : peer[c].pc = "done" => peer[c].inst = NoInst

\* A home once closed stays closed, and gets no offline slot.
StaysShut == \A h \in Inst : (home[h].closed => home'[h].closed) /\ Shut(home'[h])

\* StaysShut for a step that changes one home.
LEMMA OneStaysShut ==
    ASSUME CountInv, HomesShut, NEW h \in Inst, NEW r, home' = [home EXCEPT ![h] = r],
           home[h].closed => r.closed, Shut(r)
    PROVE  StaysShut
<1>1. \A g \in Inst : home'[g] = IF g = h THEN r ELSE home[g]
  BY DEF CountInv, TypeOK
<1> QED
  BY <1>1 DEF StaysShut, HomesShut

LEMMA ShutStep ==
    ASSUME CountInv, HomesShut, Next
    PROVE  StaysShut
<1> USE DEF Present
<1>1. /\ home \in [Inst -> HomeRecord] /\ \A h \in Inst : Shut(home[h])
      /\ \A h \in Inst : home[h].slots \in [Name -> Slot] /\ home[h] \in HomeRecord
      /\ \A c \in Conn : NameOf[c] \in Name /\ c # None
  BY BindingAssumption, ConnAssumption DEF CountInv, TypeOK, HomesShut, HomeRecord
<1>2. ASSUME \A g \in Inst : home'[g].slots = home[g].slots /\ home'[g].closed = home[g].closed
      PROVE  StaysShut
  BY <1>1, <1>2 DEF StaysShut, Shut
<1>3. ASSUME NEW c \in Conn, Acquire(c)
      PROVE  StaysShut
  <2>1. PICK h, i : home' = home \/ home' = [home EXCEPT ![h].id = i, ![h].refs = @ + 1]
    BY <1>3, ZenonT(40) DEF Acquire, homeVars
  <2>2. \A g \in Inst : home'[g].slots = home[g].slots /\ home'[g].closed = home[g].closed
    BY <1>1, <2>1 DEF HomeRecord
  <2> QED
    BY <1>2, <2>2
<1>4. ASSUME NEW c \in Conn, HomeStep(c), ~Acquire(c)
      PROVE  StaysShut
  <2>1. PICK h \in Inst : h = peer[c].inst
    BY <1>4, HomeShape
       DEF HomeStep, AttachInsert, AttachPublish, Declare, DetachHome, Release, At, Inside,
           CountInv, HomesAreReached
  <2>2. CASE AttachPublish(c) \/ Release(c)
    <3>1. \/ home' = [home EXCEPT ![h] = [home[h] EXCEPT !.lock = None]]
          \/ home' = [home EXCEPT ![h] = [home[h] EXCEPT !.refs = @ - 1]]
      BY <2>1, <2>2, HomeAfter
    <3>2. \A g \in Inst : home'[g].slots = home[g].slots /\ home'[g].closed = home[g].closed
      BY <1>1, <3>1 DEF HomeRecord
    <3> QED
      BY <1>2, <3>2
  <2>3. CASE Declare(c)
    <3> DEFINE S == [home[h].slots EXCEPT ![NameOf[c]].ready = TRUE,
                                          ![NameOf[c]].decl = peer[c].gen]
               r == [home[h] EXCEPT !.slots = S]
    <3>1. home' = [home EXCEPT ![h] = r]
      BY <1>1, <2>1, <2>3 DEF Declare
    <3>2. \A n \in Name : S[n].conn = home[h].slots[n].conn /\ S[n].gen = home[h].slots[n].gen
      BY <1>1 DEF Slot
    <3> HIDE DEF S
    <3>3. r.slots = S /\ r.closed = home[h].closed
      BY <1>1 DEF HomeRecord
    <3> HIDE DEF r
    <3>4. Shut(r)
      BY <1>1, <3>2, <3>3, ZenonT(40) DEF Shut
    <3> QED
      BY <3>1, <3>3, <3>4, OneStaysShut
  <2>4. CASE AttachInsert(c)
    <3> DEFINE slot == home[h].slots[NameOf[c]]
               S == [home[h].slots EXCEPT ![NameOf[c]] = TakeOver(slot, c)]
               joined == [home[h] EXCEPT !.lock = c, !.members = @ \cup {c}]
               r == [joined EXCEPT !.slots = S]
    <3>1. home' = [home EXCEPT ![h] = joined] \/ home' = [home EXCEPT ![h] = r]
      BY <2>1, <2>4 DEF AttachInsert
    <3>2. ~home[h].closed
      BY <2>1, <2>4 DEF AttachInsert, AttachRefused
    <3>3. joined.closed = home[h].closed /\ r.closed = home[h].closed
      BY <1>1 DEF HomeRecord
    <3> HIDE DEF r, joined
    <3>4. Shut(joined) /\ Shut(r)
      BY <3>2, <3>3 DEF Shut
    <3> QED
      BY <3>1, <3>3, <3>4, OneStaysShut
  <2>5. CASE DetachHome(c)
    <3> DEFINE M == home[h].members \ {c}
               S == [home[h].slots EXCEPT ![NameOf[c]] = SlotAfterDetach(c, h, @)]
               r == [home[h] EXCEPT !.members = M]
               t == [home[h] EXCEPT !.members = M, !.slots = S]
    <3>1. home' = [home EXCEPT ![h] = r] \/ home' = [home EXCEPT ![h] = t]
      BY <1>1, <2>1, <2>5 DEF DetachHome, DetachUser, DetachCoordinator
    <3>2. home[h].closed => \A n \in Name : S[n] = home[h].slots[n] \/ S[n].gen = 0
      BY <1>1 DEF SlotAfterDetach, NoSlot
    <3> HIDE DEF S
    <3>3. r.slots = home[h].slots /\ r.closed = home[h].closed
      BY <1>1 DEF HomeRecord
    <3>4. t.slots = S /\ t.closed = home[h].closed
      BY <1>1 DEF HomeRecord
    <3> HIDE DEF r, t
    <3>5. Shut(r) /\ Shut(t)
      BY <1>1, <3>2, <3>3, <3>4 DEF Shut
    <3> QED
      BY <3>1, <3>3, <3>4, <3>5, OneStaysShut
  <2> QED
    BY <1>4, <2>2, <2>3, <2>4, <2>5 DEF HomeStep
<1>5. ASSUME NEW h \in Inst, TimerStep(h)
      PROVE  StaysShut
  <2>1. ASSUME NEW m \in Name, GraceFires(h, m)
        PROVE  StaysShut
    <3> DEFINE S == [home[h].slots EXCEPT ![m].grace = "fired"]
               F == home[h].fired \cup {<<m, home[h].slots[m].gen>>}
               r == [home[h] EXCEPT !.slots = S, !.fired = F]
    <3>1. home' = [home EXCEPT ![h] = r]
      BY <1>1, <2>1 DEF GraceFires
    <3>2. \A n \in Name : S[n].conn = home[h].slots[n].conn /\ S[n].gen = home[h].slots[n].gen
      BY <1>1 DEF Slot
    <3> HIDE DEF S, F
    <3>3. r.slots = S /\ r.closed = home[h].closed
      BY <1>1 DEF HomeRecord
    <3> HIDE DEF r
    <3>4. Shut(r)
      BY <1>1, <3>2, <3>3, ZenonT(40) DEF Shut
    <3> QED
      BY <3>1, <3>3, <3>4, OneStaysShut
  <2>2. ASSUME NEW e \in home[h].fired, ExpireCoordinator(h, e[1], e[2])
        PROVE  StaysShut
    <3> DEFINE S == [home[h].slots EXCEPT ![e[1]] = NoSlot]
               F == home[h].fired \ {<<e[1], e[2]>>}
               t == [home[h] EXCEPT !.fired = F]
               r == [t EXCEPT !.slots = S, !.sweep = TRUE]
    <3>1. home' = [home EXCEPT ![h] = r] \/ home' = [home EXCEPT ![h] = t]
      BY <2>2 DEF ExpireCoordinator
    <3>2. \A n \in Name : S[n] = home[h].slots[n] \/ S[n].gen = 0
      BY <1>1 DEF NoSlot
    <3> HIDE DEF S, F
    <3>3. t.slots = home[h].slots /\ t.closed = home[h].closed
      BY <1>1 DEF HomeRecord
    <3>4. r.slots = S /\ r.closed = home[h].closed
      BY <1>1 DEF HomeRecord
    <3> HIDE DEF r, t
    <3>5. Shut(r) /\ Shut(t)
      BY <1>1, <3>2, <3>3, <3>4 DEF Shut
    <3> QED
      BY <3>1, <3>3, <3>4, <3>5, OneStaysShut
  <2>3. CASE SweepHome(h)
    <3>1. home' = [home EXCEPT ![h] = [home[h] EXCEPT !.sweep = FALSE]]
      BY <1>1, <2>3 DEF SweepHome
    <3>2. \A g \in Inst : home'[g].slots = home[g].slots /\ home'[g].closed = home[g].closed
      BY <1>1, <3>1 DEF HomeRecord
    <3> QED
      BY <1>2, <3>2
  <2>4. CASE CloseHome(h)
    <3> DEFINE S == [n \in Name |-> CloseSlot(home[h].slots[n])]
               r == [home[h] EXCEPT !.closed = TRUE, !.sweep = TRUE, !.slots = S]
    <3>1. home' = [home EXCEPT ![h] = r]
      BY <1>1, <2>4 DEF CloseHome
    <3>2. \A n \in Name : S[n].gen = 0 \/ S[n].conn # None
      BY DEF CloseSlot, NoSlot
    <3> HIDE DEF S
    <3>3. r.slots = S /\ r.closed
      BY <1>1 DEF HomeRecord
    <3> HIDE DEF r
    <3>4. Shut(r)
      BY <3>2, <3>3 DEF Shut
    <3> QED
      BY <3>1, <3>3, <3>4, OneStaysShut
  <2> QED
    BY <1>5, <2>1, <2>2, <2>3, <2>4 DEF TimerStep
<1>6. ASSUME home' = home
      PROVE  StaysShut
  BY <1>2, <1>6
<1> QED
  BY <1>3, <1>4, <1>5, <1>6, HomesAlone

\* The steps other than Close and home.close know nothing of shutdown.
LEMMA ClosingVariables ==
    ASSUME Next, ~Close, \A h \in Inst : ~CloseHome(h)
    PROVE  closed' = closed /\ closeList' = closeList
<1> USE DEF serverVars
<1>1. ASSUME NEW c \in Conn, Goroutine(c)
      PROVE  UNCHANGED <<closed, closeList>>
  BY <1>1 DEF Goroutine, Track, HelloTimesOut, HelloRejected, Acquire, RefuseAttach,
              AttachInsert, AttachPublish, FailReplaced, AuthenticationFails, Arrive,
              ReadCancelled, DeclareFenced, Declare, Forget
<1>2. ASSUME NEW c \in Conn, Background(c)
      PROVE  UNCHANGED <<closed, closeList>>
  BY <1>2 DEF Background, DetachNothing, DetachHome, Release, WriteFatal, DrainOne, StopOne, StopShuts
<1>3. ASSUME NEW c \in Conn, Peer(c)
      PROVE  UNCHANGED <<closed, closeList>>
  BY <1>3 DEF Peer, PeerLeaves, PeerFatal, AsyncFail, TransportLost, HandleDeclaration
<1>4. ASSUME Timers \/ Cleanup \/ Drain \/ Terminated
      PROVE  UNCHANGED <<closed, closeList>>
  BY <1>4 DEF Timers, Cleanup, GraceFires, ExpireCoordinator, DrainDeadline, SweepHome, Drain,
              Terminated, vars
<1> QED
  BY <1>1, <1>2, <1>3, <1>4 DEF Next

\* Once the relay is closed the registry gains no home.
LEMMA RegistryShrinks ==
    ASSUME CountInv, Next, closed
    PROVE  \A i \in HomeId : registry'[i] \in {registry[i], NoInst}
<1>0. registry \in [HomeId -> Inst \cup {NoInst}]
  BY DEF CountInv, TypeOK
<1>1. ASSUME NEW h, NEW r, Sweep(h, r)
      PROVE  \A i \in HomeId : registry'[i] \in {registry[i], NoInst}
  BY <1>0, <1>1 DEF Sweep
<1>2. ASSUME NEW c \in Conn, HomeStep(c)
      PROVE  \A i \in HomeId : registry'[i] \in {registry[i], NoInst}
  <2>1. Release(c) \/ registry' = registry
    BY <1>2 DEF HomeStep, AttachInsert, AttachPublish, Declare, DetachHome, Acquire, homeVars
  <2> QED
    BY <1>1, <2>1 DEF Release
<1>3. ASSUME NEW h \in Inst, TimerStep(h)
      PROVE  \A i \in HomeId : registry'[i] \in {registry[i], NoInst}
  <2>1. SweepHome(h) \/ registry' = registry
    BY <1>3 DEF TimerStep, GraceFires, ExpireCoordinator, CloseHome
  <2> QED
    BY <1>1, <2>1 DEF SweepHome
<1> QED
  BY <1>2, <1>3, HomesAlone

LEMMA CloseFindsStep ==
    ASSUME CountInv, HomesShut, CloseFindsHomes, Next
    PROVE  CloseFindsHomes'
<1>0. registry \in [HomeId -> Inst \cup {NoInst}]
  BY DEF CountInv, TypeOK
<1>1. StaysShut
  BY ShutStep
<1>2. CASE Close
  BY <1>0, <1>2 DEF Close, homeVars, CloseFindsHomes
<1>3. ASSUME closed, NEW h \in Inst, CloseHome(h)
      PROVE  CloseFindsHomes'
  <2>1. /\ closeList' = closeList \ {h} /\ registry' = registry /\ closed' = closed
        /\ home'[h].closed
    <3>1. home[h] \in HomeRecord /\ home \in [Inst -> HomeRecord]
      BY DEF CountInv, TypeOK
    <3> DEFINE r == [home[h] EXCEPT !.closed = TRUE, !.sweep = TRUE,
                                    !.slots = [n \in Name |-> CloseSlot(@[n])]]
    <3>2. home' = [home EXCEPT ![h] = r]
      BY <1>3, <3>1 DEF CloseHome
    <3>3. r.closed
      BY <3>1 DEF HomeRecord
    <3> HIDE DEF r
    <3> QED
      BY <1>3, <3>1, <3>2, <3>3 DEF CloseHome
  <2> QED
    BY <1>0, <1>1, <1>3, <2>1 DEF CloseFindsHomes, StaysShut
<1>4. CASE ~Close /\ \A h \in Inst : ~CloseHome(h)
  <2>1. closed' = closed /\ closeList' = closeList
    BY <1>4, ClosingVariables
  <2>2. CASE closed
    <3>1. \A i \in HomeId : registry'[i] \in {registry[i], NoInst}
      BY <2>2, RegistryShrinks
    <3> QED
      BY <1>0, <1>1, <2>1, <2>2, <3>1 DEF CloseFindsHomes, StaysShut
  <2>3. CASE ~closed
    BY <2>1, <2>3 DEF CloseFindsHomes
  <2> QED
    BY <2>2, <2>3
<1>5. ASSUME ~closed, NEW h \in Inst, CloseHome(h)
      PROVE  CloseFindsHomes'
  BY <1>5 DEF CloseHome, CloseFindsHomes
<1> QED
  BY <1>2, <1>3, <1>4, <1>5

\* A connection is over once it is forgotten, or when it came too late.
LEMMA DoneStep ==
    ASSUME CountInv, DoneHoldsNothing, Next
    PROVE  DoneHoldsNothing'
<1>1. ASSUME NEW c \in Conn, Acquire(c)
      PROVE  DoneHoldsNothing'
  <2>1. /\ \A d \in Conn \ {c} : peer'[d] = peer[d]
        /\ peer'[c].pc \in {"activating", "authfail"}
    BY <1>1, AcquirePeer
  <2> QED
    BY <2>1 DEF DoneHoldsNothing
<1>2. ASSUME NEW c \in Conn, Release(c)
      PROVE  DoneHoldsNothing'
  <2>1. /\ \A d \in Conn \ {c} : peer'[d] = peer[d]
        /\ peer'[c].pc = peer[c].pc /\ peer'[c].inst = peer[c].inst
    BY <1>2 DEF Release, CountInv, TypeOK, PeerRecord
  <2> QED
    BY <2>1 DEF DoneHoldsNothing
<1>3. ASSUME NEW c \in Conn, Forget(c)
      PROVE  DoneHoldsNothing'
  <2> DEFINE q == [NewPeer EXCEPT !.pc = "done", !.detach = "done", !.stopped = TRUE,
                                  !.shut = TRUE, !.phase = "Closed", !.drainOnce = peer[c].drainOnce]
  <2>1. peer' = [peer EXCEPT ![c] = q]
    BY <1>3 DEF Forget
  <2>2. q.inst = NoInst
    BY DEF NewPeer
  <2> HIDE DEF q
  <2>3. peer'[c].inst = NoInst /\ \A d \in Conn \ {c} : peer'[d] = peer[d]
    BY <2>1, <2>2 DEF CountInv, TypeOK
  <2> QED
    BY <2>3 DEF DoneHoldsNothing
<1>4. CASE \A c \in Conn : ~Acquire(c) /\ ~Release(c) /\ ~Forget(c)
  <2>1. \A d \in Conn : Moves(peer[d], peer'[d])
    BY <1>4, OtherStepsMove DEF PeersMove
  <2>2. \A d \in Conn : peer[d].pc = "new" => peer[d].inst = NoInst
    BY DEF CountInv, HandshakeHoldsNothing, Started
  <2> QED
    BY <2>1, <2>2 DEF DoneHoldsNothing, Moves
<1> QED
  BY <1>1, <1>2, <1>3, <1>4

\* Once every connection is over, so are their homes.
LEMMA NobodyHoldsHomes ==
    ASSUME CountInv, Membership, RegistryKnowsIds, RegistryHoldsUsedHomes, HomesShut,
           CloseFindsHomes, DoneHoldsNothing
    PROVE  CloseLeavesNoHome
<1> SUFFICES ASSUME closed, closeList = {}, \A c \in Conn : peer[c].pc = "done",
                    NEW i \in HomeId, registry[i] # NoInst
             PROVE  home[registry[i]].sweep
  BY DEF CloseLeavesNoHome, At
<1> DEFINE h == registry[i]
<1>1. h \in Inst /\ h # NoInst /\ home[h].id = i /\ home[h].closed
  BY DEF CountInv, TypeOK, RegistryKnowsIds, CloseFindsHomes
<1>2. \A c \in Conn : peer[c].inst # h
  BY <1>1 DEF DoneHoldsNothing
<1>3. home[h].refs = 0
  <2>1. {c \in Conn : peer[c].inst = h /\ peer[c].detach # "done"} = {}
    BY <1>2
  <2> QED
    BY <1>1, <2>1, FS_EmptySet DEF CountInv, RefsMatchHolders
<1>4. Present(home[h].slots) = {}
  <2> SUFFICES ASSUME NEW n \in Present(home[h].slots) PROVE FALSE
    OBVIOUS
  <2>1. home[h].slots[n].conn # None /\ n \in Name
    BY <1>1 DEF HomesShut, Shut, Present
  <2>2. home[h].slots[n].conn \in home[h].members
    BY <1>1, <2>1 DEF Membership, SlotsNameMembers
  <2>3. PICK c \in Conn : c \in home[h].members
    BY <1>1, <2>2, MembersType
  <2>4. peer[c].inst = h
    BY <1>1, <2>3 DEF Membership, MembersHold
  <2> QED
    BY <1>2, <2>4
<1>5. home[h].id # None /\ registry[home[h].id] = h
  BY <1>1, ConnAssumption
<1>6. home[h].refs > 0 \/ Present(home[h].slots) # {} \/ home[h].sweep
  BY <1>1, <1>5 DEF RegistryHoldsUsedHomes
<1> QED
  BY <1>3, <1>4, <1>6

\* Close, home.close and deleteIfUnused, on a relay that does not drain: when
\* shutdown is over and every connection with it, each home the registry still
\* knows is about to be deleted, whatever joined, declared, detached or expired
\* while the homes were being closed one by one.
THEOREM NothingOutlivesClose ==
    ASSUME Drains = FALSE
    PROVE  Spec => []CloseLeavesNoHome
<1> DEFINE Registry == RegistryKnowsIds /\ RegistryHoldsUsedHomes
           Closing == HomesShut /\ CloseFindsHomes /\ DoneHoldsNothing
<1>1. Spec => [](Membership /\ Registry)
  BY RegistryInvariant
<1>2. Init => Closing
  BY DEF Init, NewPeer, NewHome, HomesShut, Shut, CloseFindsHomes, DoneHoldsNothing
<1>3. CountInv /\ Closing /\ [Next]_vars => Closing'
  <2> SUFFICES ASSUME CountInv, Closing, [Next]_vars PROVE Closing'
    OBVIOUS
  <2>1. CASE Next
    BY <2>1, ShutStep, CloseFindsStep, DoneStep DEF HomesShut, StaysShut
  <2>2. CASE UNCHANGED vars
    BY <2>2 DEF vars, homeVars, serverVars, HomesShut, CloseFindsHomes, DoneHoldsNothing
  <2> QED
    BY <2>1, <2>2
<1>4. CountInv /\ Membership /\ Registry /\ Closing => CloseLeavesNoHome
  BY NobodyHoldsHomes
<1> QED
  BY <1>1, <1>2, <1>3, <1>4, LifecycleCounts, PTL DEF Spec

----------------------------------------------------------------------------
\* Presence and coordinator status, while nobody drains

\* attach holds the lock of its home over two steps; the connection is in the
\* home already, and a coordinator in its slot.
LockHeld ==
    \A c \in Conn : At(c, "publishing") =>
        LET h == peer[c].inst
        IN  /\ home[h].lock = c /\ c \in home[h].members
            /\ RoleOf[c] = "coordinator" => home[h].slots[NameOf[c]].conn = c

\* What a home keeps that nobody attaches to and nobody detaches from.
Untouched(r, t) ==
    /\ t.members = r.members /\ t.lock = r.lock /\ (r.closed => t.closed)
    /\ \A n \in Name : t.slots[n].conn = r.slots[n].conn

SameGens(r, t) == \A n \in Name : t.slots[n].gen = r.slots[n].gen

\* Expiry and shutdown drop offline slots.
Drops(h) == CloseHome(h) \/ \E e \in home[h].fired : ExpireCoordinator(h, e[1], e[2])

HomesQuiet ==
    \A h \in Inst : Untouched(home[h], home'[h]) /\ (SameGens(home[h], home'[h]) \/ Drops(h))

\* HomesQuiet for a step that changes one home.
LEMMA OneHomeQuiet ==
    ASSUME CountInv, NEW h \in Inst, NEW r, home' = [home EXCEPT ![h] = r], Untouched(home[h], r),
           SameGens(home[h], r) \/ Drops(h)
    PROVE  HomesQuiet
<1>1. \A g \in Inst : home'[g] = IF g = h THEN r ELSE home[g]
  BY DEF CountInv, TypeOK
<1> QED
  BY <1>1 DEF HomesQuiet, Untouched, SameGens

LEMMA OtherHomesQuiet ==
    ASSUME CountInv, Next, \A c \in Conn : ~AttachInsert(c) /\ ~AttachPublish(c) /\ ~DetachHome(c)
    PROVE  HomesQuiet
<1>1. /\ home \in [Inst -> HomeRecord]
      /\ \A h \in Inst : home[h].slots \in [Name -> Slot] /\ home[h] \in HomeRecord
      /\ \A c \in Conn : NameOf[c] \in Name
  BY BindingAssumption DEF CountInv, TypeOK, HomeRecord
<1>2. ASSUME NEW c \in Conn, Acquire(c)
      PROVE  HomesQuiet
  <2>1. PICK h, i : home' = home \/ home' = [home EXCEPT ![h].id = i, ![h].refs = @ + 1]
    BY <1>2 DEF Acquire, homeVars
  <2>2. \A g \in Inst : /\ home'[g].slots = home[g].slots /\ home'[g].closed = home[g].closed
                        /\ home'[g].members = home[g].members /\ home'[g].lock = home[g].lock
    BY <1>1, <2>1 DEF HomeRecord
  <2> QED
    BY <2>2 DEF HomesQuiet, Untouched, SameGens
<1>3. ASSUME NEW c \in Conn, Release(c)
      PROVE  HomesQuiet
  <2>1. PICK h \in Inst : h = peer[c].inst
    BY <1>3, HomeShape DEF Release, CountInv, HomesAreReached
  <2> DEFINE r == [home[h] EXCEPT !.refs = @ - 1]
  <2>2. home' = [home EXCEPT ![h] = r]
    BY <1>3, <2>1, HomeAfter
  <2>3. /\ r.slots = home[h].slots /\ r.closed = home[h].closed
        /\ r.members = home[h].members /\ r.lock = home[h].lock
    BY <1>1 DEF HomeRecord
  <2> HIDE DEF r
  <2>4. Untouched(home[h], r) /\ SameGens(home[h], r)
    BY <2>3 DEF Untouched, SameGens
  <2> QED
    BY <2>2, <2>4, OneHomeQuiet
<1>4. ASSUME NEW c \in Conn, Declare(c)
      PROVE  HomesQuiet
  <2>1. PICK h \in Inst : h = peer[c].inst
    BY <1>4, HomeShape DEF Declare, At, Inside
  <2> DEFINE S == [home[h].slots EXCEPT ![NameOf[c]].ready = TRUE, ![NameOf[c]].decl = peer[c].gen]
             r == [home[h] EXCEPT !.slots = S]
  <2>2. home' = [home EXCEPT ![h] = r]
    BY <1>1, <1>4, <2>1 DEF Declare
  <2>3. \A n \in Name : S[n].gen = home[h].slots[n].gen /\ S[n].conn = home[h].slots[n].conn
    BY <1>1 DEF Slot
  <2> HIDE DEF S
  <2>4. /\ r.slots = S /\ r.closed = home[h].closed
        /\ r.members = home[h].members /\ r.lock = home[h].lock
    BY <1>1 DEF HomeRecord
  <2> HIDE DEF r
  <2>5. Untouched(home[h], r) /\ SameGens(home[h], r)
    BY <2>3, <2>4 DEF Untouched, SameGens
  <2> QED
    BY <2>2, <2>5, OneHomeQuiet
<1>5. ASSUME NEW h \in Inst, NEW m \in Name, GraceFires(h, m)
      PROVE  HomesQuiet
  <2> DEFINE S == [home[h].slots EXCEPT ![m].grace = "fired"]
             F == home[h].fired \cup {<<m, home[h].slots[m].gen>>}
             r == [home[h] EXCEPT !.slots = S, !.fired = F]
  <2>1. home' = [home EXCEPT ![h] = r]
    BY <1>1, <1>5 DEF GraceFires
  <2>2. \A n \in Name : S[n].gen = home[h].slots[n].gen /\ S[n].conn = home[h].slots[n].conn
    BY <1>1 DEF Slot
  <2> HIDE DEF S, F
  <2>3. /\ r.slots = S /\ r.closed = home[h].closed
        /\ r.members = home[h].members /\ r.lock = home[h].lock
    BY <1>1 DEF HomeRecord
  <2> HIDE DEF r
  <2>4. Untouched(home[h], r) /\ SameGens(home[h], r)
    BY <2>2, <2>3 DEF Untouched, SameGens
  <2> QED
    BY <2>1, <2>4, OneHomeQuiet
<1>6. ASSUME NEW h \in Inst, NEW e \in home[h].fired, ExpireCoordinator(h, e[1], e[2])
      PROVE  HomesQuiet
  <2> DEFINE S == [home[h].slots EXCEPT ![e[1]] = NoSlot]
             F == home[h].fired \ {<<e[1], e[2]>>}
             t == [home[h] EXCEPT !.fired = F]
             r == [t EXCEPT !.slots = S, !.sweep = TRUE]
  <2>1. \/ home' = [home EXCEPT ![h] = r] /\ home[h].slots[e[1]].conn = None
        \/ home' = [home EXCEPT ![h] = t]
    BY <1>6 DEF ExpireCoordinator, Expires
  <2>2. home[h].slots[e[1]].conn = None => \A n \in Name : S[n].conn = home[h].slots[n].conn
    BY <1>1 DEF NoSlot
  <2> HIDE DEF S, F
  <2>3. /\ t.slots = home[h].slots /\ t.closed = home[h].closed
        /\ t.members = home[h].members /\ t.lock = home[h].lock
    BY <1>1 DEF HomeRecord
  <2>4. /\ r.slots = S /\ r.closed = home[h].closed
        /\ r.members = home[h].members /\ r.lock = home[h].lock
    BY <1>1 DEF HomeRecord
  <2> HIDE DEF r, t
  <2>5. Untouched(home[h], t) /\ (home[h].slots[e[1]].conn = None => Untouched(home[h], r))
    BY <2>2, <2>3, <2>4 DEF Untouched
  <2>6. Drops(h)
    BY <1>6 DEF Drops
  <2> QED
    BY <2>1, <2>5, <2>6, OneHomeQuiet
<1>7. ASSUME NEW h \in Inst, SweepHome(h)
      PROVE  HomesQuiet
  <2> DEFINE r == [home[h] EXCEPT !.sweep = FALSE]
  <2>1. home' = [home EXCEPT ![h] = r]
    BY <1>1, <1>7 DEF SweepHome
  <2>2. /\ r.slots = home[h].slots /\ r.closed = home[h].closed
        /\ r.members = home[h].members /\ r.lock = home[h].lock
    BY <1>1 DEF HomeRecord
  <2> HIDE DEF r
  <2>3. Untouched(home[h], r) /\ SameGens(home[h], r)
    BY <2>2 DEF Untouched, SameGens
  <2> QED
    BY <2>1, <2>3, OneHomeQuiet
<1>8. ASSUME NEW h \in Inst, CloseHome(h)
      PROVE  HomesQuiet
  <2> DEFINE S == [n \in Name |-> CloseSlot(home[h].slots[n])]
             r == [home[h] EXCEPT !.closed = TRUE, !.sweep = TRUE, !.slots = S]
  <2>1. home' = [home EXCEPT ![h] = r]
    BY <1>1, <1>8 DEF CloseHome
  <2>2. \A n \in Name : S[n].conn = home[h].slots[n].conn
    BY DEF CloseSlot, NoSlot
  <2> HIDE DEF S
  <2>3. /\ r.slots = S /\ r.closed
        /\ r.members = home[h].members /\ r.lock = home[h].lock
    BY <1>1 DEF HomeRecord
  <2> HIDE DEF r
  <2>4. Untouched(home[h], r) /\ Drops(h)
    BY <1>8, <2>2, <2>3 DEF Untouched, Drops
  <2> QED
    BY <2>1, <2>4, OneHomeQuiet
<1>9. ASSUME home' = home
      PROVE  HomesQuiet
  BY <1>9 DEF HomesQuiet, Untouched, SameGens
<1> QED
  BY <1>2, <1>3, <1>4, <1>5, <1>6, <1>7, <1>8, <1>9, HomesAlone DEF HomeStep, TimerStep

\* Members only stop being available, and nobody else starts to publish.
PeersQuiet ==
    /\ \A h \in Inst : \A c \in home[h].members :
         peer'[c].boot = peer[c].boot /\ (peer'[c].phase = "Active" => peer[c].phase = "Active")
    /\ \A c \in Conn : peer'[c].pc = "publishing" =>
         peer[c].pc = "publishing" /\ peer'[c].inst = peer[c].inst

LEMMA OtherPeersQuiet ==
    ASSUME CountInv, Membership, Drains = FALSE, Next,
           \A c \in Conn : ~AttachInsert(c) /\ ~DetachHome(c)
    PROVE  PeersQuiet
<1> USE DEF Membership
<1>1. ASSUME NEW c \in Conn, Acquire(c) \/ Release(c) \/ Forget(c)
      PROVE  PeersQuiet
  <2>1. /\ \A d \in Conn \ {c} : peer'[d] = peer[d]
        /\ peer'[c].pc = "publishing" =>
             peer[c].pc = "publishing" /\ peer'[c].inst = peer[c].inst
        /\ peer[c].pc = "hello" \/ peer[c].detach \in {"release", "done"}
    BY <1>1, AcquirePeer, ReleasePeer, ForgetPeer
  <2>2. \A h \in Inst : \A d \in home[h].members : d \in Conn \ {c}
    BY <2>1, MembersType DEF MembersHold
  <2> QED
    BY <2>1, <2>2 DEF PeersQuiet
<1>2. ASSUME \A c \in Conn : ~Acquire(c) /\ ~Release(c) /\ ~Forget(c)
      PROVE  PeersQuiet
  <2>1. \A d \in Conn : Moves(peer[d], peer'[d]) /\ Waits(peer[d], peer'[d])
    BY <1>2, OtherStepsMove, OtherStepsWait DEF PeersMove
  <2> QED
    BY <2>1, MembersType DEF PeersQuiet, Moves, Waits
<1> QED
  BY <1>1, <1>2

\* attach, up to activateInitialLease: the lock is taken, the connection is in.
LEMMA AttachEffect ==
    ASSUME CountInv, NEW c \in Conn, AttachInsert(c), NEW h, h = peer[c].inst
    PROVE  /\ h \in Inst /\ Free(h) /\ ~home[h].closed /\ peer[c].pc = "activating"
           /\ \A d \in Conn \ {c} : peer'[d] = peer[d]
           /\ peer'[c].pc = "publishing" /\ peer'[c].inst = h
           /\ \A g \in Inst \ {h} : home'[g] = home[g]
           /\ home'[h].members = home[h].members \cup {c} /\ home'[h].lock = c
           /\ home'[h].closed = home[h].closed
           /\ RoleOf[c] # "coordinator" => home'[h].slots = home[h].slots
           /\ RoleOf[c] = "coordinator" =>
                /\ home'[h].slots[NameOf[c]].conn = c
                /\ \A n \in Name \ {NameOf[c]} : home'[h].slots[n] = home[h].slots[n]
<1> DEFINE slot == home[h].slots[NameOf[c]]
           taken == [peer[c] EXCEPT !.gen = slot.gen + 1, !.replaced = Replaced(slot)]
           p == IF RoleOf[c] = "coordinator" THEN taken ELSE peer[c]
           S == [home[h].slots EXCEPT ![NameOf[c]] = TakeOver(slot, c)]
           joined == [home[h] EXCEPT !.lock = c, !.members = @ \cup {c}]
           r == [joined EXCEPT !.slots = S]
<1>1. /\ h \in Inst /\ home \in [Inst -> HomeRecord] /\ home[h] \in HomeRecord
      /\ home[h].slots \in [Name -> Slot] /\ NameOf[c] \in Name
      /\ peer \in [Conn -> PeerRecord] /\ peer[c] \in PeerRecord /\ slot \in Slot
      /\ peer[c].pc = "activating"
  BY HomeShape, BindingAssumption DEF CountInv, TypeOK, HomeRecord, AttachInsert, At, Inside
<1>2. PICK o \in BootOutcomes(peer[c]) :
        /\ peer' = [peer EXCEPT ![c] = Booted(p, o)]
        /\ home' = [home EXCEPT ![h] = IF RoleOf[c] = "coordinator" THEN r ELSE joined]
  BY DEF AttachInsert
<1>3. Free(h) /\ ~home[h].closed
  BY DEF AttachInsert, AttachRefused
<1>4. /\ p \in PeerRecord /\ p.inst = h
      /\ p.shut = peer[c].shut /\ p.failed = peer[c].failed
  <2>1. CASE RoleOf[c] = "coordinator"
    <3>1. taken \in PeerRecord
      BY <2>1, TakenFields
    <3>2. /\ taken.inst = h
          /\ taken.shut = peer[c].shut /\ taken.failed = peer[c].failed
      BY <1>1 DEF PeerRecord
    <3> QED
      BY <2>1, <3>1, <3>2
  <2>2. CASE RoleOf[c] # "coordinator"
    BY <1>1, <2>2
  <2> QED
    BY <2>1, <2>2
<1> HIDE DEF p, taken
<1>5. o \in BootOutcomes(p)
  BY <1>2, <1>4 DEF BootOutcomes, CanEnqueue
<1>6. Booted(p, o).pc = "publishing" /\ Booted(p, o).inst = h
  BY <1>4, <1>5, BootedFields
<1>7. /\ \A d \in Conn \ {c} : peer'[d] = peer[d]
      /\ peer'[c].pc = "publishing" /\ peer'[c].inst = h
  <2> DEFINE q == Booted(p, o)
  <2>1. q.pc = "publishing" /\ q.inst = h
    BY <1>6
  <2>2. peer'[c] = q /\ \A d \in Conn \ {c} : peer'[d] = peer[d]
    BY <1>1, <1>2
  <2> HIDE DEF q
  <2>3. peer'[c].pc = "publishing" /\ peer'[c].inst = h
    BY <2>1, <2>2
  <2> QED
    BY <2>2, <2>3
<1>8. /\ S[NameOf[c]].conn = c
      /\ \A n \in Name \ {NameOf[c]} : S[n] = home[h].slots[n]
  <2>1. S[NameOf[c]] = TakeOver(slot, c)
    BY <1>1
  <2>2. TakeOver(slot, c).conn = c
    BY <1>1, TakeOverFields
  <2>3. \A n \in Name \ {NameOf[c]} : S[n] = home[h].slots[n]
    BY <1>1
  <2> QED
    BY <2>1, <2>2, <2>3
<1> HIDE DEF S, slot
<1>9. /\ joined \in HomeRecord /\ joined.members = home[h].members \cup {c} /\ joined.lock = c
      /\ joined.closed = home[h].closed /\ joined.slots = home[h].slots
  BY <1>1 DEF HomeRecord
<1> HIDE DEF joined
<1>10. /\ r.members = home[h].members \cup {c} /\ r.lock = c
       /\ r.closed = home[h].closed /\ r.slots = S
  BY <1>9 DEF HomeRecord
<1> HIDE DEF r
<1>11. /\ \A g \in Inst \ {h} : home'[g] = home[g]
       /\ home'[h] = IF RoleOf[c] = "coordinator" THEN r ELSE joined
  BY <1>1, <1>2
<1> QED
  BY <1>1, <1>3, <1>7, <1>8, <1>9, <1>10, <1>11

\* The rest of attach: the lock is released.
LEMMA PublishEffect ==
    ASSUME CountInv, NEW c \in Conn, AttachPublish(c), NEW h, h = peer[c].inst
    PROVE  /\ h \in Inst /\ peer[c].pc = "publishing" /\ peer'[c].pc # "publishing"
           /\ \A d \in Conn \ {c} : peer'[d] = peer[d]
           /\ peer'[c].boot = peer[c].boot /\ peer'[c].phase = peer[c].phase
           /\ \A g \in Inst \ {h} : home'[g] = home[g]
           /\ home'[h].members = home[h].members /\ home'[h].lock = None
           /\ home'[h].closed = home[h].closed /\ home'[h].slots = home[h].slots
<1>1. /\ h \in Inst /\ home \in [Inst -> HomeRecord] /\ home[h] \in HomeRecord
      /\ peer \in [Conn -> PeerRecord] /\ peer[c] \in PeerRecord /\ peer[c].pc = "publishing"
  BY HomeShape DEF CountInv, TypeOK, AttachPublish, At, Inside
<1> DEFINE l == IF peer[c].replaced = None THEN AfterAttach(peer[c]) ELSE "replacing"
<1>2. l # "publishing" /\ peer' = [peer EXCEPT ![c] = [peer[c] EXCEPT !.pc = l]]
  BY <1>1 DEF AttachPublish, AfterAttach
<1> HIDE DEF l
<1>3. home' = [home EXCEPT ![h] = [home[h] EXCEPT !.lock = None]]
  BY <1>1, HomeAfter
<1>4. LET r == [home[h] EXCEPT !.lock = None]
      IN  /\ r.members = home[h].members /\ r.lock = None
          /\ r.closed = home[h].closed /\ r.slots = home[h].slots
  BY <1>1 DEF HomeRecord
<1>5. LET q == [peer[c] EXCEPT !.pc = l]
      IN  q.pc = l /\ q.boot = peer[c].boot /\ q.phase = peer[c].phase
  BY <1>1 DEF PeerRecord
<1> QED
  BY <1>1, <1>2, <1>3, <1>4, <1>5

\* detach: the connection leaves the home, and the slot it holds.
LEMMA DetachEffect ==
    ASSUME CountInv, NEW c \in Conn, DetachHome(c), NEW h, h = peer[c].inst
    PROVE  /\ h \in Inst /\ Free(h)
           /\ \A d \in Conn \ {c} : peer'[d] = peer[d]
           /\ peer'[c].pc = peer[c].pc /\ peer'[c].inst = h
           /\ peer'[c].boot = peer[c].boot /\ peer'[c].phase = peer[c].phase
           /\ \A g \in Inst \ {h} : home'[g] = home[g]
           /\ home'[h].members = home[h].members \ {c} /\ home'[h].lock = home[h].lock
           /\ home'[h].closed = home[h].closed
           /\ \/ home'[h].slots = home[h].slots
              \/ /\ DetachCoordinator(c, h) /\ home'[h].slots[NameOf[c]].conn = None
                 /\ home'[h].slots = [home[h].slots EXCEPT ![NameOf[c]] = SlotAfterDetach(c, h, @)]
<1> DEFINE M == home[h].members \ {c}
           S == [home[h].slots EXCEPT ![NameOf[c]] = SlotAfterDetach(c, h, @)]
           r == [home[h] EXCEPT !.members = M]
           t == [home[h] EXCEPT !.members = M, !.slots = S]
<1>1. /\ h \in Inst /\ home \in [Inst -> HomeRecord] /\ home[h] \in HomeRecord
      /\ home[h].slots \in [Name -> Slot] /\ NameOf[c] \in Name
      /\ peer \in [Conn -> PeerRecord] /\ peer[c] \in PeerRecord
  BY HomeShape, BindingAssumption DEF CountInv, TypeOK, HomeRecord, DetachHome
<1>2. \/ home' = [home EXCEPT ![h] = r]
      \/ home' = [home EXCEPT ![h] = t] /\ DetachCoordinator(c, h)
  BY <1>1 DEF DetachHome, DetachUser, DetachCoordinator
<1>3. peer' = [peer EXCEPT ![c] = [peer[c] EXCEPT !.detach = "release"]] /\ Free(h)
  BY <1>1 DEF DetachHome
<1>4. /\ \A d \in Conn \ {c} : peer'[d] = peer[d]
      /\ peer'[c].pc = peer[c].pc /\ peer'[c].inst = h
      /\ peer'[c].boot = peer[c].boot /\ peer'[c].phase = peer[c].phase
  BY <1>1, <1>3, DetachFields
<1>5. S[NameOf[c]].conn = None
  <2>1. Retain(home[h].slots[NameOf[c]]).conn = None
    BY <1>1 DEF Retain, Slot
  <2> QED
    BY <1>1, <2>1 DEF SlotAfterDetach, NoSlot
<1> HIDE DEF S, M
<1>6. /\ r.members = M /\ r.slots = home[h].slots
      /\ r.lock = home[h].lock /\ r.closed = home[h].closed
  BY <1>1 DEF HomeRecord
<1>7. /\ t.members = M /\ t.slots = S
      /\ t.lock = home[h].lock /\ t.closed = home[h].closed
  BY <1>1 DEF HomeRecord
<1> HIDE DEF r, t
<1>8. /\ \A g \in Inst \ {h} : home'[g] = home[g]
      /\ home'[h] = r \/ (home'[h] = t /\ DetachCoordinator(c, h))
  BY <1>1, <1>2
<1> QED
  BY <1>1, <1>3, <1>4, <1>5, <1>6, <1>7, <1>8 DEF M, S

\* The connection that publishes keeps its home's lock until it is done.
LEMMA LockStep ==
    ASSUME CountInv, Membership, LockHeld, Drains = FALSE, Next
    PROVE  LockHeld'
<1>1. ASSUME NEW c \in Conn, AttachInsert(c)
      PROVE  LockHeld'
  <2> DEFINE h == peer[c].inst
  <2> HIDE DEF h
  <2>1. /\ h \in Inst /\ Free(h)
        /\ \A d \in Conn \ {c} : peer'[d] = peer[d]
        /\ peer'[c].inst = h
        /\ \A g \in Inst \ {h} : home'[g] = home[g]
        /\ home'[h].members = home[h].members \cup {c} /\ home'[h].lock = c
        /\ RoleOf[c] = "coordinator" => home'[h].slots[NameOf[c]].conn = c
    BY <1>1, AttachEffect, SMTT(30) DEF h
  <2>2. ASSUME NEW d \in Conn \ {c}, peer[d].pc = "publishing"
        PROVE  peer[d].inst \in Inst \ {h}
    <3>1. peer[d].inst \in Inst /\ home[peer[d].inst].lock = d /\ d # None
      BY <2>2, HomeShape, ConnAssumption DEF LockHeld, At, Inside
    <3> QED
      BY <2>1, <3>1 DEF Free
  <2> QED
    BY <2>1, <2>2 DEF LockHeld, At
<1>2. ASSUME NEW c \in Conn, AttachPublish(c)
      PROVE  LockHeld'
  <2> DEFINE h == peer[c].inst
  <2> HIDE DEF h
  <2>1. /\ h \in Inst /\ peer[c].pc = "publishing" /\ peer'[c].pc # "publishing"
        /\ \A d \in Conn \ {c} : peer'[d] = peer[d]
        /\ \A g \in Inst \ {h} : home'[g] = home[g]
    BY <1>2, PublishEffect DEF h
  <2>2. ASSUME NEW d \in Conn \ {c}, peer[d].pc = "publishing"
        PROVE  peer[d].inst \in Inst \ {h}
    <3>1. peer[d].inst \in Inst /\ home[peer[d].inst].lock = d
      BY <2>2, HomeShape DEF LockHeld, At, Inside
    <3>2. home[h].lock = c
      BY <2>1 DEF LockHeld, At, h
    <3> QED
      BY <3>1, <3>2
  <2> QED
    BY <2>1, <2>2 DEF LockHeld, At
<1>3. ASSUME NEW c \in Conn, DetachHome(c)
      PROVE  LockHeld'
  <2> DEFINE h == peer[c].inst
  <2> HIDE DEF h
  <2>1. /\ h \in Inst /\ Free(h)
        /\ \A d \in Conn \ {c} : peer'[d] = peer[d]
        /\ peer'[c].pc = peer[c].pc /\ peer'[c].inst = peer[c].inst
        /\ \A g \in Inst \ {h} : home'[g] = home[g]
    BY <1>3, DetachEffect DEF h
  <2>2. ASSUME NEW d \in Conn, peer[d].pc = "publishing"
        PROVE  peer[d].inst \in Inst \ {h}
    <3>1. peer[d].inst \in Inst /\ home[peer[d].inst].lock = d /\ d # None
      BY <2>2, HomeShape, ConnAssumption DEF LockHeld, At, Inside
    <3> QED
      BY <2>1, <3>1 DEF Free
  <2> QED
    BY <2>1, <2>2 DEF LockHeld, At
<1>4. ASSUME \A c \in Conn : ~AttachInsert(c) /\ ~AttachPublish(c) /\ ~DetachHome(c)
      PROVE  LockHeld'
  <2>1. HomesQuiet /\ PeersQuiet
    BY <1>4, OtherHomesQuiet, OtherPeersQuiet
  <2>2. \A c \in Conn : peer[c].pc = "publishing" => peer[c].inst \in Inst
    BY HomeShape DEF Inside
  <2> QED
    BY <2>1, <2>2, BindingAssumption DEF HomesQuiet, Untouched, PeersQuiet, LockHeld, At
<1> QED
  BY <1>1, <1>2, <1>3, <1>4

----------------------------------------------------------------------------
\* Presence

\* A coordinator that can be routed to has been told every user that can, but
\* for the one attach is about to announce, and no user that is not there.
RostersAgree ==
    \A h \in Inst : ~home[h].closed => \A k \in Watchers(h) :
        /\ \A u \in UsersOf(h) : Available(u) /\ home[h].lock # u => u \in roster[k]
        /\ roster[k] \subseteq VisibleUsers(h)

\* Nobody watches two homes: a slot names a member, a member has one home.
LEMMA WatchersAreMembers ==
    ASSUME CountInv, Membership, NEW h \in Inst, NEW k \in Watchers(h)
    PROVE  k \in home[h].members /\ peer[k].inst = h /\ RoleOf[k] = "coordinator" /\ Available(k)
BY ConnAssumption DEF Membership, MembersHold, SlotsNameMembers, Watchers

\* What the rosters of one home need of a step that touches another.
LEMMA QuietRosters ==
    ASSUME CountInv, Membership, RostersAgree, PeersQuiet, NEW h \in Inst,
           Untouched(home[h], home'[h]), \A k \in Watchers(h) : roster'[k] = roster[k],
           ~home'[h].closed, NEW k \in Watchers(h)'
    PROVE  /\ \A u \in UsersOf(h)' : Available(u)' /\ home'[h].lock # u => u \in roster'[k]
           /\ roster'[k] \subseteq VisibleUsers(h)'
<1>1. home[h].members \subseteq Conn /\ home'[h].members = home[h].members /\ ~home[h].closed
  BY MembersType DEF Untouched
<1>2. PICK n \in Name : home'[h].slots[n].conn = k /\ Available(k)'
  BY DEF Watchers
<1>3. k \in home[h].members
  BY <1>2, ConnAssumption DEF Untouched, Membership, SlotsNameMembers, Watchers
<1>4. k \in Watchers(h)
  BY <1>2, <1>3, <1>1 DEF Untouched, PeersQuiet, Watchers, Available
<1>5. \A u \in UsersOf(h) : Available(u)' => Available(u)
  BY DEF PeersQuiet, UsersOf, Available
<1>6. VisibleUsers(h)' = VisibleUsers(h) /\ UsersOf(h)' = UsersOf(h)
  BY <1>1 DEF PeersQuiet, UsersOf, VisibleUsers
<1> QED
  BY <1>1, <1>4, <1>5, <1>6 DEF RostersAgree, Untouched

\* attach sends a coordinator the users there are; a user is still to come.
LEMMA AttachRosters ==
    ASSUME CountInv, Membership, RostersAgree, NEW c \in Conn, AttachInsert(c)
    PROVE  RostersAgree'
<1>0. PICK h \in Inst : h = peer[c].inst
  BY AttachEffect
<1>1. /\ h \in Inst /\ Free(h) /\ ~home[h].closed
      /\ \A d \in Conn \ {c} : peer'[d] = peer[d]
      /\ \A g \in Inst \ {h} : home'[g] = home[g]
      /\ home'[h].members = home[h].members \cup {c} /\ home'[h].lock = c
      /\ RoleOf[c] # "coordinator" => home'[h].slots = home[h].slots
      /\ RoleOf[c] = "coordinator" =>
           \A n \in Name \ {NameOf[c]} : home'[h].slots[n] = home[h].slots[n]
  BY <1>0, AttachEffect
<1>2. /\ RoleOf[c] # "coordinator" => roster' = roster
      /\ RoleOf[c] = "coordinator" => roster' = [roster EXCEPT ![c] = VisibleUsers(h)]
  BY <1>0 DEF AttachInsert
<1>3. /\ \A d \in Conn \ {c} : roster'[d] = roster[d]
      /\ RoleOf[c] = "coordinator" => roster'[c] = VisibleUsers(h)
  BY <1>2 DEF CountInv, TypeOK
<1>4. \A g \in Inst : c \notin home[g].members /\ home[g].members \subseteq Conn
  BY MembersType DEF AttachInsert, At, Membership, MembersHold
<1>5. \A g \in Inst : \A n \in Name : home[g].slots[n].conn # c
  BY <1>4, ConnAssumption DEF Membership, SlotsNameMembers
<1>6. ASSUME NEW g \in Inst \ {h}, ~home'[g].closed, NEW k \in Watchers(g)'
      PROVE  /\ \A u \in UsersOf(g)' : Available(u)' /\ home'[g].lock # u => u \in roster'[k]
             /\ roster'[k] \subseteq VisibleUsers(g)'
  <2>1. k # c /\ k \in Watchers(g)
    BY <1>1, <1>5, <1>6 DEF Watchers, Available
  <2>2. UsersOf(g)' = UsersOf(g) /\ VisibleUsers(g)' = VisibleUsers(g)
    BY <1>1, <1>4 DEF UsersOf, VisibleUsers
  <2>3. \A u \in UsersOf(g) : Available(u)' => Available(u)
    BY <1>1, <1>4 DEF UsersOf, Available
  <2> QED
    BY <1>1, <1>3, <1>6, <2>1, <2>2, <2>3 DEF RostersAgree, Watchers
<1>7. ASSUME NEW k \in Watchers(h)'
      PROVE  /\ \A u \in UsersOf(h)' : Available(u)' /\ home'[h].lock # u => u \in roster'[k]
             /\ roster'[k] \subseteq VisibleUsers(h)'
  <2>1. /\ \A u \in UsersOf(h)' : u # c => u \in UsersOf(h) /\ peer'[u] = peer[u]
        /\ VisibleUsers(h) \subseteq VisibleUsers(h)'
    BY <1>1, <1>4 DEF UsersOf, VisibleUsers
  <2>2. CASE k = c
    <3>1. RoleOf[c] = "coordinator"
      BY <1>1, <1>5, <2>2 DEF Watchers
    <3>2. \A u \in UsersOf(h) : Available(u) => u \in VisibleUsers(h)
      BY DEF Available, VisibleUsers
    <3> QED
      BY <1>1, <1>3, <2>1, <2>2, <3>1, <3>2 DEF Available
  <2>3. CASE k # c
    <3>1. PICK n \in Name : home'[h].slots[n].conn = k /\ Available(k)'
      BY DEF Watchers
    <3>2. home[h].slots[n].conn = k
      <4>1. RoleOf[c] = "coordinator" /\ n = NameOf[c] => home'[h].slots[n].conn = c
        BY <1>0, AttachEffect
      <4> QED
        BY <1>1, <2>3, <3>1, <4>1
    <3>3. k \in Watchers(h)
      BY <1>1, <2>3, <3>1, <3>2 DEF Watchers, Available
    <3>4. \A u \in UsersOf(h) : u # None
      BY <1>1, <1>4, ConnAssumption DEF UsersOf
    <3> QED
      BY <1>1, <1>3, <2>1, <2>3, <3>3, <3>4 DEF RostersAgree, Available, Free, Watchers
  <2> QED
    BY <2>2, <2>3
<1> QED
  BY <1>6, <1>7 DEF RostersAgree

\* The end of attach announces a user that can be routed to by then.
LEMMA PublishRosters ==
    ASSUME CountInv, Membership, LockHeld, RostersAgree, NEW c \in Conn, AttachPublish(c)
    PROVE  RostersAgree'
<1>0. PICK h \in Inst : h = peer[c].inst
  BY PublishEffect
<1>1. /\ h \in Inst /\ peer[c].pc = "publishing"
      /\ \A d \in Conn \ {c} : peer'[d] = peer[d]
      /\ peer'[c].boot = peer[c].boot /\ peer'[c].phase = peer[c].phase
      /\ \A g \in Inst \ {h} : home'[g] = home[g]
      /\ home'[h].members = home[h].members /\ home'[h].lock = None
      /\ home'[h].closed = home[h].closed /\ home'[h].slots = home[h].slots
  BY <1>0, PublishEffect
<1>2. home[h].lock = c /\ c \in home[h].members
  BY <1>0, <1>1 DEF LockHeld, At
<1>3. roster' = IF Available(c) /\ RoleOf[c] = "user" THEN Announce(c, h) ELSE roster
  BY <1>0 DEF AttachPublish
<1>4. \A g \in Inst : home[g].members \subseteq Conn
  BY MembersType
<1>5. \A d \in Conn : peer'[d].boot = peer[d].boot /\ (Available(d)' <=> Available(d))
  BY <1>1 DEF Available
<1>6. \A g \in Inst : /\ Watchers(g)' = Watchers(g) /\ UsersOf(g)' = UsersOf(g)
                      /\ VisibleUsers(g)' = VisibleUsers(g) /\ home'[g].closed = home[g].closed
  BY <1>1, <1>4, <1>5 DEF Watchers, UsersOf, VisibleUsers
<1>7. ASSUME NEW g \in Inst, ~home'[g].closed, NEW k \in Watchers(g)'
      PROVE  /\ \A u \in UsersOf(g)' : Available(u)' /\ home'[g].lock # u => u \in roster'[k]
             /\ roster'[k] \subseteq VisibleUsers(g)'
  <2>1. k \in Watchers(g) /\ k \in Conn /\ ~home[g].closed /\ peer[k].inst = g
    BY <1>6, <1>7, WatchersAreMembers DEF Watchers
  <2>2. CASE g # h
    <3>1. k \notin Watchers(h)
      BY <1>1, <2>1, <2>2, WatchersAreMembers
    <3>2. roster'[k] = roster[k]
      BY <1>3, <2>1, <3>1 DEF Announce
    <3>3. \A u \in UsersOf(g) : u \in Conn
      BY <1>4 DEF UsersOf
    <3> QED
      BY <1>1, <1>5, <1>6, <2>1, <2>2, <3>2, <3>3 DEF RostersAgree
  <2>3. CASE g = h /\ Available(c) /\ RoleOf[c] = "user"
    <3>1. roster'[k] = roster[k] \cup {c}
      BY <1>3, <2>1, <2>3 DEF Announce
    <3>2. c \in VisibleUsers(h)
      BY <1>2, <2>3 DEF VisibleUsers, UsersOf, Available
    <3>3. \A u \in UsersOf(h) : u \in Conn
      BY <1>1, <1>4 DEF UsersOf
    <3> QED
      BY <1>2, <1>5, <1>6, <2>1, <2>3, <3>1, <3>2, <3>3 DEF RostersAgree
  <2>4. CASE g = h /\ ~(Available(c) /\ RoleOf[c] = "user")
    <3>1. roster'[k] = roster[k]
      BY <1>3, <2>4
    <3>2. \A u \in UsersOf(h) : u \in Conn /\ (u = c => ~Available(u))
      BY <1>1, <1>4, <2>4 DEF UsersOf
    <3> QED
      BY <1>2, <1>5, <1>6, <2>1, <2>4, <3>1, <3>2 DEF RostersAgree
  <2> QED
    BY <2>2, <2>3, <2>4
<1> QED
  BY <1>7 DEF RostersAgree

\* detach takes a user off every roster it was on.
LEMMA DetachRosters ==
    ASSUME CountInv, Membership, RostersAgree, NEW c \in Conn, DetachHome(c)
    PROVE  RostersAgree'
<1>0. PICK h \in Inst : h = peer[c].inst
  BY DetachEffect
<1>1. /\ h \in Inst
      /\ \A d \in Conn \ {c} : peer'[d] = peer[d]
      /\ peer'[c].boot = peer[c].boot /\ peer'[c].phase = peer[c].phase
      /\ \A g \in Inst \ {h} : home'[g] = home[g]
      /\ home'[h].members = home[h].members \ {c} /\ home'[h].lock = home[h].lock
      /\ home'[h].closed = home[h].closed
      /\ \/ home'[h].slots = home[h].slots
         \/ /\ home'[h].slots[NameOf[c]].conn = None
            /\ home'[h].slots = [home[h].slots EXCEPT ![NameOf[c]] = SlotAfterDetach(c, h, @)]
  BY <1>0, DetachEffect
<1>2. \/ roster' = roster /\ ~(c \in home[h].members /\ RoleOf[c] = "user")
      \/ roster' = roster /\ (~peer[c].boot \/ home[h].closed)
      \/ roster' = [k \in Conn |-> IF k \in Watchers(h) THEN roster[k] \ {c} ELSE roster[k]]
  BY <1>0 DEF DetachHome, DetachUser, DetachCoordinator, viewVars
<1>3. \A g \in Inst : home[g].members \subseteq Conn /\ \A n \in Name : home[g].slots[n].conn \in Conn \cup {None}
  BY MembersType DEF CountInv, TypeOK, HomeRecord, Slot
<1>4. \A d \in Conn : peer'[d].boot = peer[d].boot /\ (Available(d)' <=> Available(d))
  BY <1>1 DEF Available
<1>5. ASSUME NEW g \in Inst, ~home'[g].closed, NEW k \in Watchers(g)'
      PROVE  /\ \A u \in UsersOf(g)' : Available(u)' /\ home'[g].lock # u => u \in roster'[k]
             /\ roster'[k] \subseteq VisibleUsers(g)'
  <2>1. k \in Watchers(g)
    <3>1. PICK n \in Name : home'[g].slots[n].conn = k /\ Available(k)'
      BY DEF Watchers
    <3>2. k \in Conn /\ k # None
      BY ConnAssumption DEF Watchers
    <3>3. home \in [Inst -> HomeRecord] /\ home[h].slots \in [Name -> Slot]
      BY <1>1 DEF CountInv, TypeOK, HomeRecord
    <3>4. home[g].slots[n].conn = k
      BY <1>1, <3>1, <3>2, <3>3
    <3> QED
      BY <1>4, <3>1, <3>2, <3>4 DEF Watchers
  <2>2. k \in Conn /\ ~home[g].closed /\ peer[k].inst = g
    BY <1>1, <1>5, <2>1, WatchersAreMembers DEF Watchers
  <2>3. CASE g # h
    <3>1. k \notin Watchers(h)
      BY <1>1, <2>2, <2>3, WatchersAreMembers
    <3>2. roster'[k] = roster[k]
      BY <1>2, <2>2, <3>1
    <3>3. UsersOf(g)' = UsersOf(g) /\ VisibleUsers(g)' = VisibleUsers(g)
      BY <1>1, <1>3, <1>4, <2>3 DEF UsersOf, VisibleUsers
    <3>4. \A u \in UsersOf(g) : u \in Conn
      BY <1>3 DEF UsersOf
    <3> QED
      BY <1>1, <1>4, <2>1, <2>2, <2>3, <3>2, <3>3, <3>4 DEF RostersAgree
  <2>4. CASE g = h
    <3>1. /\ \A u \in UsersOf(h)' : u \in UsersOf(h) /\ u # c /\ u \in Conn
          /\ VisibleUsers(h)' = VisibleUsers(h) \ {c}
      BY <1>1, <1>3, <1>4 DEF UsersOf, VisibleUsers
    <3>2. \A u \in UsersOf(h)' : Available(u)' /\ home'[h].lock # u => u \in roster[k]
      BY <1>1, <1>4, <2>1, <2>2, <2>4, <3>1 DEF RostersAgree
    <3>3. roster[k] \subseteq VisibleUsers(h)
      BY <1>1, <2>1, <2>2, <2>4 DEF RostersAgree
    <3>4. CASE roster' = roster /\ ~(c \in home[h].members /\ RoleOf[c] = "user")
      <4>1. c \notin VisibleUsers(h)
        BY <3>4 DEF VisibleUsers, UsersOf
      <4> QED
        BY <2>4, <3>1, <3>2, <3>3, <3>4, <4>1
    <3>5. CASE roster' = roster /\ (~peer[c].boot \/ home[h].closed)
      <4>1. c \notin VisibleUsers(h)
        BY <2>2, <2>4, <3>5 DEF VisibleUsers
      <4> QED
        BY <2>4, <3>1, <3>2, <3>3, <3>5, <4>1
    <3>6. CASE roster' = [d \in Conn |-> IF d \in Watchers(h) THEN roster[d] \ {c} ELSE roster[d]]
      <4>1. roster'[k] = roster[k] \ {c}
        BY <2>1, <2>2, <2>4, <3>6
      <4> QED
        BY <2>4, <3>1, <3>2, <3>3, <4>1
    <3> QED
      BY <1>2, <3>4, <3>5, <3>6
  <2> QED
    BY <2>3, <2>4
<1> QED
  BY <1>5 DEF RostersAgree

\* The steps that do not send PRESENCE_CHANGE.
LEMMA OtherRosters ==
    ASSUME Next,
           \A c \in Conn : ~AttachInsert(c) /\ ~AttachPublish(c) /\ ~DetachHome(c) /\ ~Forget(c)
    PROVE  roster' = roster /\ silent' = silent
<1> USE DEF viewVars
<1>1. ASSUME NEW c \in Conn, Goroutine(c)
      PROVE  roster' = roster /\ silent' = silent
  BY <1>1 DEF Goroutine, Track, HelloTimesOut, HelloRejected, Acquire, RefuseAttach,
              FailReplaced, AuthenticationFails, Arrive, ReadCancelled, DeclareFenced, Declare
<1>2. ASSUME NEW c \in Conn, Background(c)
      PROVE  roster' = roster /\ silent' = silent
  BY <1>2 DEF Background, DetachNothing, Release, WriteFatal, DrainOne, StopOne, StopShuts
<1>3. ASSUME NEW c \in Conn, Peer(c)
      PROVE  roster' = roster /\ silent' = silent
  BY <1>3 DEF Peer, PeerLeaves, PeerFatal, AsyncFail, TransportLost, HandleDeclaration
<1>4. ASSUME Timers \/ Cleanup
      PROVE  roster' = roster /\ silent' = silent
  BY <1>4 DEF Timers, Cleanup, GraceFires, ExpireCoordinator, DrainDeadline, SweepHome, CloseHome
<1>5. ASSUME Drain \/ Close \/ Terminated
      PROVE  roster' = roster /\ silent' = silent
  BY <1>5 DEF Drain, Close, Terminated, vars
<1> QED
  BY <1>1, <1>2, <1>3, <1>4, <1>5 DEF Next

LEMMA RostersStep ==
    ASSUME CountInv, Membership, LockHeld, RostersAgree, Drains = FALSE, Next
    PROVE  RostersAgree'
<1>1. ASSUME \A c \in Conn : ~AttachInsert(c) /\ ~AttachPublish(c) /\ ~DetachHome(c)
      PROVE  RostersAgree'
  <2>1. HomesQuiet /\ PeersQuiet
    BY <1>1, OtherHomesQuiet, OtherPeersQuiet
  <2>2. ASSUME NEW c \in Conn, Forget(c), NEW h \in Inst, NEW k \in Watchers(h)
        PROVE  roster'[k] = roster[k]
    <3>1. peer[c].detach = "done" /\ roster' = [roster EXCEPT ![c] = {}]
      BY <2>2 DEF Forget
    <3>2. k \in Conn \ {c}
      BY <3>1, WatchersAreMembers DEF Membership, MembersHold, Watchers
    <3> QED
      BY <3>1, <3>2 DEF CountInv, TypeOK
  <2>3. \A h \in Inst : \A k \in Watchers(h) : roster'[k] = roster[k]
    BY <1>1, <2>2, OtherRosters
  <2>4. ASSUME NEW h \in Inst, ~home'[h].closed, NEW k \in Watchers(h)'
        PROVE  /\ \A u \in UsersOf(h)' : Available(u)' /\ home'[h].lock # u => u \in roster'[k]
               /\ roster'[k] \subseteq VisibleUsers(h)'
    BY <2>1, <2>3, <2>4, QuietRosters DEF HomesQuiet
  <2> QED
    BY <2>4 DEF RostersAgree
<1> QED
  BY <1>1, AttachRosters, PublishRosters, DetachRosters

\* presenceSnapshotLocked, attach and detach, on a relay that does not drain:
\* however users join, fail, are announced and leave while a coordinator takes
\* its snapshot, takes over a slot or expires, a coordinator that can be routed
\* to knows every user that can, and none that has left.
THEOREM CoordinatorsKnowUsers ==
    ASSUME Drains = FALSE
    PROVE  Spec => []PresenceAgrees
<1> DEFINE Presence == Membership /\ LockHeld /\ RostersAgree
<1>1. Init => Presence
  BY ConnAssumption
     DEF Init, NewPeer, NewHome, NoSlot, Membership, HandshakeStaysIdle, MembersHold,
         SlotsNameMembers, LockHeld, At, RostersAgree, Watchers, Available
<1>2. CountInv /\ Presence /\ [Next]_vars => Presence'
  <2> SUFFICES ASSUME CountInv, Presence, [Next]_vars PROVE Presence'
    OBVIOUS
  <2>1. CASE Next
    BY <2>1, MembershipStep, LockStep, RostersStep
  <2>2. CASE UNCHANGED vars
    <3>1. Membership'
      BY <2>2, MembershipStep
    <3>2. LockHeld' /\ RostersAgree'
      BY <2>2 DEF vars, viewVars, homeVars, LockHeld, At, RostersAgree, Watchers, UsersOf,
                  VisibleUsers, Available
    <3> QED
      BY <3>1, <3>2
  <2> QED
    BY <2>1, <2>2
<1>3. CountInv /\ Presence => PresenceAgrees
  <2> SUFFICES ASSUME CountInv, Presence, NEW h \in Inst, Free(h), ~home[h].closed,
                      NEW k \in Watchers(h)
               PROVE  /\ {u \in UsersOf(h) : Available(u)} \subseteq roster[k]
                      /\ roster[k] \subseteq UsersOf(h)
    BY DEF PresenceAgrees
  <2>1. \A u \in UsersOf(h) : u # None
    BY MembersType, ConnAssumption DEF UsersOf
  <2> QED
    BY <2>1 DEF RostersAgree, Free, VisibleUsers
<1> QED
  BY <1>1, <1>2, <1>3, LifecycleCounts, PTL DEF Spec

----------------------------------------------------------------------------
\* Coordinator status

\* The list of coordinators when each of them is offline or can be routed to.
Listing(S) == {<<n, S[n].gen, IF S[n].conn # None THEN 1 ELSE 2>> : n \in Present(S)}

Settled(S) == \A n \in Name : S[n].conn = None \/ Available(S[n].conn)

\* A user that can be routed to has that list, unless attach is about to
\* broadcast it.
Told(h) ==
    (/\ ~home[h].closed /\ Settled(home[h].slots)
     /\ home[h].lock = None \/ RoleOf[home[h].lock] # "coordinator") =>
        \A u \in UsersOf(h) : Available(u) => told[u] = Listing(home[h].slots)

\* It holds but where detach dropped a slot unannounced.
ToldAgrees == \A h \in Inst \ silent : Told(h)

\* What a step may do to the lists of one home's users.
NotTold(h) == \A u \in UsersOf(h) : told'[u] = told[u]

Informed(h) == \A u \in UsersOf(h) : Available(u) => told'[u] = Status(home'[h].slots, None)

\* coordinatorStatusIncludingLocked, whichever connection it includes.
LEMMA SettledStatus ==
    ASSUME NEW S, Settled(S), NEW x
    PROVE  Status(S, x) = Listing(S)
<1>1. \A n \in Present(S) : S[n].conn = None \/ Available(S[n].conn)
  BY DEF Settled, Present
<1> QED
  BY <1>1 DEF Status, Listing, Present

\* The same connections in the same generations are the same list.
LEMMA SameListing ==
    ASSUME NEW S, NEW T,
           \A n \in Name : T[n].conn = S[n].conn /\ T[n].gen = S[n].gen
    PROVE  Listing(T) = Listing(S)
<1>1. Present(T) = Present(S)
  BY DEF Present
<1>2. \A n \in Present(S) : <<n, T[n].gen, IF T[n].conn # None THEN 1 ELSE 2>>
                              = <<n, S[n].gen, IF S[n].conn # None THEN 1 ELSE 2>>
  BY DEF Present
<1> QED
  BY <1>1, <1>2 DEF Listing

\* Members only stop being available, so what is settled was settled.
LEMMA SettledBefore ==
    ASSUME CountInv, Membership', NEW h \in Inst, home'[h].members \subseteq home[h].members,
           \A c \in home[h].members : Available(c)' => Available(c), NEW S, S = home'[h].slots,
           Settled(S)'
    PROVE  Settled(S)
<1> SUFFICES ASSUME NEW n \in Name, S[n].conn # None PROVE Available(S[n].conn)
  BY DEF Settled
<1>1. S[n].conn \in home[h].members
  BY DEF Membership, SlotsNameMembers
<1>2. Available(S[n].conn)'
  BY DEF Settled
<1> QED
  BY <1>1, <1>2

\* Members of a home only leave it, and only stop being available.
Settling(h) ==
    /\ home'[h].members \subseteq home[h].members /\ (home[h].closed => home'[h].closed)
    /\ \A c \in home[h].members : Available(c)' => Available(c)

\* A home whose users are told nothing has nothing new to tell them.
LEMMA NotToldAgrees ==
    ASSUME CountInv, Membership', NEW h \in Inst, Told(h), Settling(h), NotTold(h),
           SameGens(home[h], home'[h]),
           \A n \in Name : home'[h].slots[n].conn = home[h].slots[n].conn,
           home'[h].lock = None \/ RoleOf[home'[h].lock] # "coordinator" =>
               home[h].lock = None \/ RoleOf[home[h].lock] # "coordinator"
    PROVE  Told(h)'
<1> SUFFICES ASSUME ~home'[h].closed, Settled(home[h].slots)',
                    home'[h].lock = None \/ RoleOf[home'[h].lock] # "coordinator",
                    NEW u \in UsersOf(h)', Available(u)'
             PROVE  told'[u] = Listing(home[h].slots)'
  BY DEF Told
<1>0. PICK S, T : S = home[h].slots /\ T = home'[h].slots
  OBVIOUS
<1>1. Settled(T)'
  BY <1>0 DEF Settled
<1>2. Settled(T)
  BY <1>0, <1>1, SettledBefore DEF Settling
<1>3. Settled(home[h].slots)
  BY <1>0, <1>2 DEF Settled
<1>4. u \in UsersOf(h) /\ Available(u)
  BY DEF Settling, UsersOf
<1>5. Listing(T) = Listing(S)
  BY <1>0, SameListing DEF SameGens
<1>6. Listing(home[h].slots) = Listing(S) /\ Listing(home[h].slots)' = Listing(T)
  BY <1>0 DEF Listing, Present
<1> QED
  BY <1>3, <1>4, <1>5, <1>6 DEF Told, NotTold, Settling

\* homeStatusActionsLocked tells every user that can be routed to.
LEMMA InformedAgrees ==
    ASSUME CountInv, Membership', NEW h \in Inst, Settling(h), Informed(h)
    PROVE  Told(h)'
<1> SUFFICES ASSUME Settled(home[h].slots)', NEW u \in UsersOf(h)', Available(u)'
             PROVE  told'[u] = Listing(home[h].slots)'
  BY DEF Told
<1>0. PICK T : T = home'[h].slots
  OBVIOUS
<1>1. Settled(T)'
  BY <1>0 DEF Settled
<1>2. Settled(T)
  BY <1>0, <1>1, SettledBefore DEF Settling
<1>3. u \in UsersOf(h) /\ Available(u)
  BY DEF Settling, UsersOf
<1>4. Listing(home[h].slots)' = Listing(T) /\ Status(home'[h].slots, None) = Status(T, None)
  BY <1>0 DEF Listing, Present, Status
<1>5. Status(T, None) = Listing(T)
  BY <1>2, SettledStatus
<1> QED
  BY <1>3, <1>4, <1>5 DEF Informed

\* A broadcast reaches the users of one home.
LEMMA BroadcastReaches ==
    ASSUME CountInv, Membership, NEW h \in Inst, told' = Broadcast(h, home'[h].slots)
    PROVE  Informed(h) /\ \A g \in Inst \ {h} : NotTold(g)
<1>1. \A g \in Inst : UsersOf(g) \subseteq Conn
  BY MembersType DEF UsersOf
<1>2. \A g \in Inst \ {h} : \A u \in UsersOf(g) : u \notin UsersOf(h)
  BY DEF UsersOf, Membership, MembersHold
<1> QED
  BY <1>1, <1>2 DEF Broadcast, Informed, NotTold

\* attach tells a user the coordinators there are; those who are in a home
\* learn of a new coordinator later.
LEMMA AttachTold ==
    ASSUME CountInv, Membership, Membership', ToldAgrees, NEW c \in Conn, AttachInsert(c)
    PROVE  ToldAgrees'
<1>0. PICK h \in Inst : h = peer[c].inst
  BY AttachEffect
<1>1. /\ Free(h) /\ ~home[h].closed
      /\ \A d \in Conn \ {c} : peer'[d] = peer[d]
      /\ \A g \in Inst \ {h} : home'[g] = home[g]
      /\ home'[h].members = home[h].members \cup {c} /\ home'[h].lock = c
      /\ RoleOf[c] # "coordinator" => home'[h].slots = home[h].slots
  BY <1>0, AttachEffect, SMTT(30)
<1>2. /\ silent' = silent /\ (RoleOf[c] # "user" => told' = told)
      /\ RoleOf[c] = "user" => told' = [told EXCEPT ![c] = Status(home[h].slots, c)]
  <2>1. RoleOf[c] # "coordinator" =>
          told' = [told EXCEPT ![c] = IF RoleOf[c] = "user" THEN Status(home[h].slots, c) ELSE @]
    BY <1>0 DEF AttachInsert
  <2>2. RoleOf[c] = "coordinator" => told' = told
    BY DEF AttachInsert
  <2>3. silent' = silent /\ told \in [Conn -> SUBSET (Name \X Nat \X {1, 2})]
    BY DEF AttachInsert, CountInv, TypeOK
  <2> QED
    BY <2>1, <2>2, <2>3
<1>3. \A d \in Conn \ {c} : told'[d] = told[d]
  BY <1>2 DEF CountInv, TypeOK
<1>4. \A g \in Inst : c \notin home[g].members /\ home[g].members \subseteq Conn
  BY MembersType DEF AttachInsert, At, Membership, MembersHold
<1>5. ASSUME NEW g \in Inst \ {h}, g \notin silent
      PROVE  Told(g)'
  <2>1. Told(g) /\ home'[g] = home[g]
    BY <1>1, <1>5 DEF ToldAgrees
  <2>2. Settling(g) /\ NotTold(g)
    BY <1>1, <1>3, <1>4, <2>1 DEF Settling, NotTold, UsersOf, Available
  <2> QED
    BY <2>1, <2>2, NotToldAgrees DEF SameGens
<1>6. ASSUME h \notin silent
      PROVE  Told(h)'
  <2> SUFFICES ASSUME Settled(home[h].slots)', RoleOf[c] # "coordinator",
                      NEW u \in UsersOf(h)', Available(u)'
               PROVE  told'[u] = Listing(home[h].slots)'
    BY <1>1, ConnAssumption DEF Told
  <2>1. Settled(home[h].slots)
    <3>1. \A n \in Name : home[h].slots[n].conn # None => home[h].slots[n].conn \in Conn \ {c}
      BY <1>4 DEF Membership, SlotsNameMembers
    <3>2. \A n \in Name : home[h].slots[n].conn = None \/ Available(home[h].slots[n].conn)'
      BY <1>1 DEF Settled
    <3> QED
      BY <1>1, <3>1, <3>2 DEF Settled, Available
  <2>2. PICK S : S = home[h].slots /\ S = home'[h].slots
    BY <1>1
  <2>3. Settled(S)
    BY <2>1, <2>2 DEF Settled
  <2>4. Listing(home[h].slots) = Listing(S) /\ Listing(home[h].slots)' = Listing(S)
    BY <2>2 DEF Listing, Present
  <2>5. CASE u = c
    <3>1. Status(S, c) = Listing(S) /\ Status(home[h].slots, c) = Status(S, c)
      BY <2>2, <2>3, SettledStatus
    <3>2. RoleOf[c] = "user"
      BY <2>5 DEF UsersOf
    <3>3. told'[c] = Status(home[h].slots, c)
      BY <1>2, <3>2 DEF CountInv, TypeOK
    <3> QED
      BY <2>4, <2>5, <3>1, <3>3
  <2>6. CASE u # c
    <3>1. u \in UsersOf(h) /\ u \in Conn \ {c} /\ Available(u)
      BY <1>1, <1>4, <2>6 DEF UsersOf, Available
    <3>2. told[u] = Listing(home[h].slots)
      BY <1>1, <1>6, <2>1, <3>1 DEF ToldAgrees, Told, Free
    <3> QED
      BY <1>3, <2>4, <3>1, <3>2
  <2> QED
    BY <2>5, <2>6
<1> QED
  BY <1>2, <1>5, <1>6 DEF ToldAgrees

\* The end of attach broadcasts a coordinator that can be routed to; until one
\* can, its home's coordinators are not settled.
LEMMA PublishTold ==
    ASSUME CountInv, Membership, Membership', LockHeld, ToldAgrees, NEW c \in Conn,
           AttachPublish(c)
    PROVE  ToldAgrees'
<1>0. PICK h \in Inst : h = peer[c].inst
  BY PublishEffect
<1>1. /\ peer[c].pc = "publishing"
      /\ \A d \in Conn \ {c} : peer'[d] = peer[d]
      /\ peer'[c].boot = peer[c].boot /\ peer'[c].phase = peer[c].phase
      /\ \A g \in Inst \ {h} : home'[g] = home[g]
      /\ home'[h].members = home[h].members /\ home'[h].lock = None
      /\ home'[h].closed = home[h].closed /\ home'[h].slots = home[h].slots
  BY <1>0, PublishEffect
<1>2. home[h].lock = c /\ (RoleOf[c] = "coordinator" => home[h].slots[NameOf[c]].conn = c)
  BY <1>0, <1>1 DEF LockHeld, At
<1>3. silent' = silent /\ told' = IF Available(c) /\ RoleOf[c] = "coordinator"
                                    THEN Broadcast(h, home'[h].slots) ELSE told
  BY <1>0, <1>1 DEF AttachPublish
<1>4. \A g \in Inst : home[g].members \subseteq Conn
  BY MembersType
<1>5. \A d \in Conn : Available(d)' <=> Available(d)
  BY <1>1 DEF Available
<1>6. \A g \in Inst : Settling(g)
  BY <1>1, <1>4, <1>5 DEF Settling
<1>7. \A g \in Inst : SameGens(home[g], home'[g])
                      /\ \A n \in Name : home'[g].slots[n].conn = home[g].slots[n].conn
  BY <1>1 DEF SameGens
<1>8. ASSUME NEW g \in Inst, g \notin silent
      PROVE  Told(g)'
  <2>1. Told(g)
    BY <1>8 DEF ToldAgrees
  <2>2. CASE Available(c) /\ RoleOf[c] = "coordinator"
    <3>1. Informed(h) /\ \A f \in Inst \ {h} : NotTold(f)
      BY <1>3, <2>2, BroadcastReaches
    <3>2. CASE g = h
      BY <1>6, <3>1, <3>2, InformedAgrees
    <3>3. CASE g # h
      BY <1>1, <1>6, <1>7, <2>1, <3>1, <3>3, NotToldAgrees
    <3> QED
      BY <3>2, <3>3
  <2>3. CASE ~Available(c) /\ RoleOf[c] = "coordinator" /\ g = h
    <3>1. ~Settled(home[h].slots)'
      BY <1>1, <1>2, <1>5, <2>3, BindingAssumption, ConnAssumption DEF Settled
    <3> QED
      BY <2>3, <3>1 DEF Told
  <2>4. CASE told' = told /\ ~(RoleOf[c] = "coordinator" /\ g = h)
    <3>1. NotTold(g)
      BY <2>4 DEF NotTold
    <3> QED
      BY <1>1, <1>2, <1>6, <1>7, <2>1, <2>4, <3>1, NotToldAgrees
  <2> QED
    BY <1>3, <2>2, <2>3, <2>4
<1> QED
  BY <1>3, <1>8 DEF ToldAgrees

\* detach broadcasts a coordinator that goes offline; a slot it drops is dropped
\* unannounced.
LEMMA DetachTold ==
    ASSUME CountInv, Membership, Membership', ToldAgrees, NEW c \in Conn, DetachHome(c)
    PROVE  ToldAgrees'
<1>0. PICK h \in Inst : h = peer[c].inst
  BY DetachEffect
<1>1. /\ \A d \in Conn \ {c} : peer'[d] = peer[d]
      /\ peer'[c].boot = peer[c].boot /\ peer'[c].phase = peer[c].phase
      /\ \A g \in Inst \ {h} : home'[g] = home[g]
      /\ home'[h].members = home[h].members \ {c} /\ home'[h].lock = home[h].lock
      /\ home'[h].closed = home[h].closed
      /\ home'[h].slots = home[h].slots \/ DetachCoordinator(c, h)
  BY <1>0, DetachEffect
<1>2. \A g \in Inst : home[g].members \subseteq Conn
  BY MembersType
<1>3. \A d \in Conn : Available(d)' <=> Available(d)
  BY <1>1 DEF Available
<1>4. \A g \in Inst : Settling(g)
  BY <1>1, <1>2, <1>3 DEF Settling
<1>5. \/ told' = told /\ silent' = silent
      \/ DetachCoordinator(c, h)
  BY <1>0 DEF DetachHome, DetachUser, viewVars
<1>6. DetachCoordinator(c, h) =>
        \/ told' = Broadcast(h, home'[h].slots) /\ silent' = silent
        \/ told' = told /\ silent' = silent /\ home[h].closed
        \/ told' = told /\ silent' = silent \cup {h}
  <2> SUFFICES ASSUME DetachCoordinator(c, h)
               PROVE  \/ told' = Broadcast(h, home'[h].slots) /\ silent' = silent
                      \/ told' = told /\ silent' = silent /\ home[h].closed
                      \/ told' = told /\ silent' = silent \cup {h}
    OBVIOUS
  <2> DEFINE M == home[h].members \ {c}
             S == [home[h].slots EXCEPT ![NameOf[c]] = SlotAfterDetach(c, h, @)]
             t == [home[h] EXCEPT !.members = M, !.slots = S]
  <2>1. home \in [Inst -> HomeRecord] /\ home[h] \in HomeRecord
    BY DEF CountInv, TypeOK
  <2>2. home' = [home EXCEPT ![h] = t]
    BY <2>1 DEF DetachCoordinator
  <2>3. /\ told' = IF S[NameOf[c]] = NoSlot THEN told ELSE Broadcast(h, S)
        /\ silent' = IF S[NameOf[c]] = NoSlot /\ ~home[h].closed THEN silent \cup {h} ELSE silent
    BY DEF DetachCoordinator
  <2> HIDE DEF S, M
  <2>4. t.slots = S
    BY <2>1 DEF HomeRecord
  <2> HIDE DEF t
  <2>5. home'[h].slots = S
    BY <2>1, <2>2, <2>4
  <2> QED
    BY <2>3, <2>5
<1>7. ASSUME NEW g \in Inst, g \notin silent'
      PROVE  Told(g)'
  <2>1. Told(g)
    BY <1>5, <1>6, <1>7 DEF ToldAgrees
  <2>2. CASE told' = Broadcast(h, home'[h].slots)
    <3>1. Informed(h) /\ \A f \in Inst \ {h} : NotTold(f)
      BY <2>2, BroadcastReaches
    <3>2. CASE g = h
      BY <1>4, <3>1, <3>2, InformedAgrees
    <3>3. CASE g # h
      BY <1>1, <1>4, <2>1, <3>1, <3>3, NotToldAgrees DEF SameGens
    <3> QED
      BY <3>2, <3>3
  <2>3. CASE told' = told /\ (g # h \/ home'[h].slots = home[h].slots)
    <3>1. NotTold(g)
      BY <2>3 DEF NotTold
    <3> QED
      BY <1>1, <1>4, <2>1, <2>3, <3>1, NotToldAgrees DEF SameGens
  <2>4. CASE g = h /\ home[h].closed
    BY <1>1, <2>4 DEF Told
  <2>5. h \in silent' => g # h
    BY <1>7
  <2> QED
    BY <1>1, <1>5, <1>6, <2>2, <2>3, <2>4, <2>5
<1>8. silent \subseteq silent'
  BY <1>5, <1>6
<1> QED
  BY <1>7 DEF ToldAgrees

\* The steps that do not send COORDINATOR_STATUS.
LEMMA OtherTold ==
    ASSUME Next,
           \A c \in Conn : /\ ~AttachInsert(c) /\ ~AttachPublish(c) /\ ~DetachHome(c)
                           /\ ~Forget(c) /\ ~Declare(c),
           \A h \in Inst : \A e \in home[h].fired : ~ExpireCoordinator(h, e[1], e[2])
    PROVE  told' = told
<1> USE DEF viewVars
<1>1. ASSUME NEW c \in Conn, Goroutine(c)
      PROVE  told' = told
  BY <1>1 DEF Goroutine, Track, HelloTimesOut, HelloRejected, Acquire, RefuseAttach,
              FailReplaced, AuthenticationFails, Arrive, ReadCancelled, DeclareFenced
<1>2. ASSUME NEW c \in Conn, Background(c)
      PROVE  told' = told
  BY <1>2 DEF Background, DetachNothing, Release, WriteFatal, DrainOne, StopOne, StopShuts
<1>3. ASSUME NEW c \in Conn, Peer(c)
      PROVE  told' = told
  BY <1>3 DEF Peer, PeerLeaves, PeerFatal, AsyncFail, TransportLost, HandleDeclaration
<1>4. ASSUME Timers \/ Cleanup
      PROVE  told' = told
  BY <1>4 DEF Timers, Cleanup, GraceFires, DrainDeadline, SweepHome, CloseHome
<1>5. ASSUME Drain \/ Close \/ Terminated
      PROVE  told' = told
  BY <1>5 DEF Drain, Close, Terminated, vars
<1> QED
  BY <1>1, <1>2, <1>3, <1>4, <1>5 DEF Next

\* handleDeclaration broadcasts; the slot keeps its connection and generation.
LEMMA DeclareTold ==
    ASSUME CountInv, NEW c \in Conn, Declare(c), NEW h \in Inst, h = peer[c].inst
    PROVE  /\ told' = Broadcast(h, home'[h].slots)
           /\ \A g \in Inst : SameGens(home[g], home'[g])
<1> DEFINE S == [home[h].slots EXCEPT ![NameOf[c]].ready = TRUE, ![NameOf[c]].decl = peer[c].gen]
           r == [home[h] EXCEPT !.slots = S]
<1>1. /\ home \in [Inst -> HomeRecord] /\ home[h] \in HomeRecord
      /\ home[h].slots \in [Name -> Slot] /\ NameOf[c] \in Name
  BY BindingAssumption DEF CountInv, TypeOK, HomeRecord
<1>2. home' = [home EXCEPT ![h] = r] /\ told' = Broadcast(h, S)
  BY <1>1 DEF Declare
<1>3. \A n \in Name : S[n].gen = home[h].slots[n].gen
  <2> DEFINE s == home[h].slots[NameOf[c]]
             t == [s EXCEPT !.ready = TRUE, !.decl = peer[c].gen]
  <2>1. s \in Slot
    BY <1>1
  <2>2. t.gen = s.gen
    BY <2>1 DEF Slot
  <2>3. S[NameOf[c]] = t /\ \A n \in Name \ {NameOf[c]} : S[n] = home[h].slots[n]
    BY <1>1
  <2> QED
    BY <2>2, <2>3
<1> HIDE DEF S
<1>4. r.slots = S
  BY <1>1 DEF HomeRecord
<1> HIDE DEF r
<1>5. \A g \in Inst : home'[g] = IF g = h THEN r ELSE home[g]
  BY <1>1, <1>2
<1> QED
  BY <1>2, <1>3, <1>4, <1>5 DEF SameGens

\* expireCoordinator broadcasts when it drops the slot.
LEMMA ExpireTold ==
    ASSUME CountInv, NEW h \in Inst, NEW e \in home[h].fired, ExpireCoordinator(h, e[1], e[2])
    PROVE  /\ \A g \in Inst \ {h} : home'[g] = home[g]
           /\ \/ told' = Broadcast(h, home'[h].slots)
              \/ told' = told /\ SameGens(home[h], home'[h])
<1> DEFINE S == [home[h].slots EXCEPT ![e[1]] = NoSlot]
           F == home[h].fired \ {<<e[1], e[2]>>}
           t == [home[h] EXCEPT !.fired = F]
           r == [t EXCEPT !.slots = S, !.sweep = TRUE]
<1>1. /\ home \in [Inst -> HomeRecord] /\ home[h] \in HomeRecord
      /\ home[h].slots \in [Name -> Slot]
  BY DEF CountInv, TypeOK, HomeRecord
<1>2. \/ home' = [home EXCEPT ![h] = r] /\ told' = Broadcast(h, S)
      \/ home' = [home EXCEPT ![h] = t] /\ told' = told
  BY <1>1 DEF ExpireCoordinator
<1> HIDE DEF S, F
<1>3. t \in [id : HomeId \cup {None}, lock : Conn \cup {None}, refs : Nat, closed : BOOLEAN,
             members : SUBSET Conn, slots : [Name -> Slot], fired : {F}, sweep : BOOLEAN]
      /\ t.slots = home[h].slots
  BY <1>1 DEF HomeRecord
<1> HIDE DEF t
<1>4. r.slots = S
  BY <1>3
<1> HIDE DEF r
<1>5. /\ \A g \in Inst \ {h} : home'[g] = home[g]
      /\ \/ home'[h].slots = S /\ told' = Broadcast(h, S)
         \/ home'[h].slots = home[h].slots /\ told' = told
  BY <1>1, <1>2, <1>3, <1>4
<1> QED
  BY <1>5 DEF SameGens

\* home.close closes its home, and no other.
LEMMA CloseTold ==
    ASSUME CountInv, NEW h \in Inst, CloseHome(h)
    PROVE  told' = told /\ home'[h].closed /\ \A g \in Inst \ {h} : home'[g] = home[g]
<1> DEFINE S == [n \in Name |-> CloseSlot(home[h].slots[n])]
           r == [home[h] EXCEPT !.closed = TRUE, !.sweep = TRUE, !.slots = S]
<1>1. home \in [Inst -> HomeRecord] /\ home[h] \in HomeRecord
  BY DEF CountInv, TypeOK
<1>2. home' = [home EXCEPT ![h] = r] /\ told' = told
  BY <1>1 DEF CloseHome, viewVars
<1> HIDE DEF S
<1>3. r.closed
  BY <1>1 DEF HomeRecord
<1> HIDE DEF r
<1> QED
  BY <1>1, <1>2, <1>3

\* Every other step: a home's users hear of a change, or there is none.
LEMMA OneHomeTold ==
    ASSUME CountInv, Membership, Membership', ToldAgrees, Drains = FALSE, Next,
           \A c \in Conn : ~AttachInsert(c) /\ ~AttachPublish(c) /\ ~DetachHome(c),
           NEW g \in Inst, home'[g].closed \/ Informed(g)
                             \/ (NotTold(g) /\ SameGens(home[g], home'[g])),
           g \notin silent
    PROVE  Told(g)'
<1>1. HomesQuiet /\ PeersQuiet
  BY OtherHomesQuiet, OtherPeersQuiet
<1>2. Settling(g)
  BY <1>1, MembersType DEF HomesQuiet, PeersQuiet, Untouched, Settling, Available
<1>3. CASE home'[g].closed
  BY <1>3 DEF Told
<1>4. CASE Informed(g)
  BY <1>2, <1>4, InformedAgrees
<1>5. CASE NotTold(g) /\ SameGens(home[g], home'[g])
  <2>1. /\ \A n \in Name : home'[g].slots[n].conn = home[g].slots[n].conn
        /\ home'[g].lock = home[g].lock
    BY <1>1 DEF HomesQuiet, Untouched
  <2> QED
    BY <1>2, <1>5, <2>1, NotToldAgrees DEF ToldAgrees
<1> QED
  BY <1>3, <1>4, <1>5

LEMMA ToldStep ==
    ASSUME CountInv, Membership, LockHeld, ToldAgrees, Drains = FALSE, Next
    PROVE  ToldAgrees'
<1>0. Membership'
  BY MembershipStep
<1>1. ASSUME \A c \in Conn : ~AttachInsert(c) /\ ~AttachPublish(c) /\ ~DetachHome(c)
      PROVE  ToldAgrees'
  <2>1. HomesQuiet
    BY <1>1, OtherHomesQuiet
  <2>2. silent \subseteq silent'
    <3>1. \A c \in Conn : Forget(c) => silent' = silent
      BY DEF Forget
    <3> QED
      BY <1>1, <3>1, OtherRosters
  <2>3. ASSUME NEW g \in Inst
        PROVE  \/ home'[g].closed \/ Informed(g)
               \/ NotTold(g) /\ SameGens(home[g], home'[g])
    <3>1. ASSUME NEW c \in Conn, Declare(c)
          PROVE  Informed(g) \/ (NotTold(g) /\ SameGens(home[g], home'[g]))
      <4>1. PICK h \in Inst : h = peer[c].inst
        BY <3>1, HomeShape DEF Declare, At, Inside
      <4> QED
        BY <3>1, <4>1, DeclareTold, BroadcastReaches
    <3>2. ASSUME NEW h \in Inst, NEW e \in home[h].fired, ExpireCoordinator(h, e[1], e[2])
          PROVE  Informed(g) \/ (NotTold(g) /\ SameGens(home[g], home'[g]))
      <4>1. /\ g # h => SameGens(home[g], home'[g])
            /\ \/ told' = Broadcast(h, home'[h].slots)
               \/ told' = told /\ SameGens(home[h], home'[h])
        BY <3>2, ExpireTold DEF SameGens
      <4>2. told' = told => NotTold(g)
        BY DEF NotTold
      <4>3. told' = Broadcast(h, home'[h].slots) =>
              Informed(h) /\ \A f \in Inst \ {h} : NotTold(f)
        BY BroadcastReaches
      <4> QED
        BY <4>1, <4>2, <4>3
    <3>3. ASSUME NEW h \in Inst, CloseHome(h)
          PROVE  home'[g].closed \/ (NotTold(g) /\ SameGens(home[g], home'[g]))
      BY <3>3, CloseTold DEF NotTold, SameGens
    <3>4. ASSUME NEW c \in Conn, Forget(c)
          PROVE  NotTold(g) /\ SameGens(home[g], home'[g])
      <4>1. peer[c].detach = "done" /\ told' = [told EXCEPT ![c] = {}] /\ home' = home
        BY <3>4 DEF Forget, homeVars
      <4>2. \A u \in UsersOf(g) : u \in Conn \ {c}
        BY <4>1, MembersType DEF Membership, MembersHold, UsersOf
      <4> QED
        BY <4>1, <4>2 DEF CountInv, TypeOK, NotTold, SameGens
    <3>5. ASSUME \A c \in Conn : ~Forget(c) /\ ~Declare(c), \A h \in Inst : ~CloseHome(h),
                 \A h \in Inst : \A e \in home[h].fired : ~ExpireCoordinator(h, e[1], e[2])
          PROVE  NotTold(g) /\ SameGens(home[g], home'[g])
      <4>1. told' = told
        BY <1>1, <3>5, OtherTold
      <4> QED
        BY <2>1, <3>5, <4>1 DEF NotTold, HomesQuiet, Drops
    <3> QED
      BY <3>1, <3>2, <3>3, <3>4, <3>5
  <2> QED
    BY <1>0, <1>1, <2>2, <2>3, OneHomeTold DEF ToldAgrees
<1> QED
  BY <1>0, <1>1, AttachTold, PublishTold, DetachTold

\* homeStatusActionsLocked, on a relay that does not drain: however
\* coordinators attach, replace one another, declare, detach and expire, a user
\* that can be routed to has been told exactly the coordinators of its home
\* once none of them is coming or going.
THEOREM UsersAreTold ==
    ASSUME Drains = FALSE
    PROVE  Spec => []UsersKnowCoordinators
<1> DEFINE Statuses == Membership /\ LockHeld /\ ToldAgrees
<1>1. Init => Statuses
  BY ConnAssumption
     DEF Init, NewPeer, NewHome, NoSlot, Membership, HandshakeStaysIdle, MembersHold,
         SlotsNameMembers, LockHeld, At, ToldAgrees, Told, UsersOf
<1>2. CountInv /\ Statuses /\ [Next]_vars => Statuses'
  <2> SUFFICES ASSUME CountInv, Statuses, [Next]_vars PROVE Statuses'
    OBVIOUS
  <2>1. CASE Next
    BY <2>1, MembershipStep, LockStep, ToldStep
  <2>2. CASE UNCHANGED vars
    <3>1. Membership'
      BY <2>2, MembershipStep
    <3>2. LockHeld'
      BY <2>2 DEF vars, viewVars, homeVars, LockHeld, At
    <3>3. ToldAgrees'
      BY <2>2 DEF vars, viewVars, homeVars, ToldAgrees, Told, UsersOf, Available, Settled,
                  Listing, Present
    <3> QED
      BY <3>1, <3>2, <3>3
  <2> QED
    BY <2>1, <2>2
<1>3. CountInv /\ Statuses => UsersKnowCoordinators
  <2> SUFFICES ASSUME CountInv, Statuses, NEW h \in Inst \ silent, Free(h), ~home[h].closed,
                      \A n \in Name : \/ home[h].slots[n].conn = None
                                      \/ Available(home[h].slots[n].conn),
                      NEW u \in UsersOf(h), Available(u)
               PROVE  told[u] = Status(home[h].slots, None)
    BY DEF UsersKnowCoordinators
  <2>1. PICK S : S = home[h].slots
    OBVIOUS
  <2>2. Settled(S) /\ Settled(home[h].slots)
    BY <2>1 DEF Settled
  <2>3. Status(S, None) = Listing(S)
    BY <2>2, SettledStatus
  <2>4. told[u] = Listing(home[h].slots)
    BY <2>2 DEF ToldAgrees, Told, Free
  <2> QED
    BY <2>1, <2>3, <2>4
<1> QED
  BY <1>1, <1>2, <1>3, LifecycleCounts, PTL DEF Spec

==============================================================================
