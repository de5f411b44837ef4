-------------------------- MODULE HomeLifecycleTypes --------------------------
(***************************************************************************)
(* Types and reference counts of HomeLifecycle, for any connections, homes *)
(* and limits, with every fault, drains and shutdown.                      *)
(*                                                                         *)
(* Most steps only move peers along and leave the counts alone (Moves,     *)
(* HomesKeep); acquiring, attaching, releasing and forgetting are left.    *)
(***************************************************************************)
EXTENDS HomeLifecycle, FiniteSetTheorems, TLAPS

Started(c) == peer[c].pc \notin {"new", "hello"}

Served == {"serving", "handling"}

Inside == {"activating", "publishing", "replacing", "arriving", "serving", "handling"}

\* Before a connection acquires a home it holds nothing and cannot be failed,
\* and until it has attached it is not visible.
HandshakeHoldsNothing ==
    \A c \in Conn :
        /\ ~Started(c) => /\ peer[c].inst = NoInst /\ peer[c].detach = "idle"
                          /\ peer[c].phase \in {"AwaitHello", "Closed"}
        /\ peer[c].pc \in {"new", "hello", "activating"} => ~peer[c].boot

\* A connection inside a home, or about to release one, has one, and only a
\* connection that has left its handshake holds a slot or is replaced.
HomesAreReached ==
    /\ \A c \in Conn :
         /\ peer[c].pc \in Inside \/ peer[c].detach = "release" => peer[c].inst # NoInst
         /\ peer[c].replaced # None => Started(peer[c].replaced)
    /\ \A h \in Inst : \A n \in Name :
         home[h].slots[n].conn # None => Started(home[h].slots[n].conn)

\* Every home was created for a connection of its own.
HomesAreCounted == born <= Cardinality({c \in Conn : Started(c)})

\* The inductive invariant behind types and counts.
CountInv ==
    /\ TypeOK /\ RefsMatchHolders
    /\ HandshakeHoldsNothing /\ HomesAreReached /\ HomesAreCounted

----------------------------------------------------------------------------
\* Steps that keep the counts

\* How a peer may change without acquiring, releasing or being forgotten.
Moves(p, q) ==
    /\ q.inst = p.inst
    /\ q.boot => p.boot \/ (p.pc = "activating" /\ q.pc = "publishing" /\ ~p.shut)
    /\ q.detach # p.detach =>
         /\ p.detach \in {"idle", "spawned"}
         /\ q.pc \notin {"new", "hello"}
         /\ q.detach = "release" => p.inst # NoInst
         /\ q.detach = "done" => p.inst = NoInst
    /\ q.pc \in {"new", "hello"} => p.pc \in {"new", "hello"} /\ q.phase \in {p.phase, "Closed"}
    /\ q.pc = "activating" => p.pc = "activating"
    /\ q.pc \in Inside => p.pc \in Inside
    /\ q.pc = "serving" => p.pc \in Served \cup {"arriving"}
    /\ q.pc = "handling" => p.pc \in Served
    /\ q.pc = "done" => p.pc \in {"new", "done"}
    /\ p.drainOnce => q.drainOnce
    /\ q.gen # p.gen => p.pc = "activating"
    /\ q.phase \in {"AwaitHello", "Active"} => q.phase = p.phase

PeersMove ==
    /\ peer' \in [Conn -> PeerRecord]
    /\ \A c \in Conn :
         /\ Moves(peer[c], peer'[c])
         /\ peer'[c].replaced \in {None, peer[c].replaced} \cup {d \in Conn : Started(d)}
         /\ peer[c].pc = "arriving" /\ peer'[c].pc = "serving" /\ draining => peer'[c].drainOnce

HomesKeep ==
    /\ home' \in [Inst -> HomeRecord]
    /\ \A h \in Inst :
         /\ home'[h].refs = home[h].refs
         /\ \A n \in Name : home'[h].slots[n].conn \in
              {None, home[h].slots[n].conn} \cup {d \in Conn : Started(d)}

\* The constants: a connection is not None, and no home is NoInst.
LEMMA Bounds ==
    /\ Cardinality(Conn) \in Nat /\ IsFiniteSet(Conn) /\ None \notin Conn
    /\ \A S \in SUBSET Conn : IsFiniteSet(S) /\ Cardinality(S) \in Nat
    /\ NoInst \notin Inst /\ Inst \subseteq Nat
<1>1. IsFiniteSet(Conn) /\ None \notin Conn
  BY ConnAssumption
<1>2. Cardinality(Conn) \in Nat
  BY <1>1, FS_CardinalityType
<1>3. \A S \in SUBSET Conn : IsFiniteSet(S) /\ Cardinality(S) \in Nat
  BY <1>1, FS_Subset, FS_CardinalityType
<1> QED
  BY <1>1, <1>2, <1>3 DEF Inst, NoInst

\* A step that moves peers and keeps homes preserves all but the types.
LEMMA MovesKeepCounts ==
    ASSUME CountInv, PeersMove, HomesKeep, born' = born
    PROVE  /\ RefsMatchHolders' /\ HandshakeHoldsNothing'
           /\ HomesAreReached' /\ HomesAreCounted'
<1>1. \A c \in Conn :
        /\ peer[c] \in PeerRecord /\ peer'[c] \in PeerRecord /\ Moves(peer[c], peer'[c])
        /\ Started(c) => Started(c)'
        /\ peer[c].inst # NoInst => (peer'[c].detach # "done" <=> peer[c].detach # "done")
  BY DEF PeersMove, Moves, CountInv, TypeOK, Started
<1>2. RefsMatchHolders'
  <2>1. \A h \in Inst :
          {c \in Conn : peer'[c].inst = h /\ peer'[c].detach # "done"}
            = {c \in Conn : peer[c].inst = h /\ peer[c].detach # "done"}
    BY <1>1, Bounds DEF Moves
  <2> QED
    BY <2>1 DEF HomesKeep, CountInv, RefsMatchHolders
<1>3. HandshakeHoldsNothing'
  BY <1>1 DEF Moves, Started, CountInv, HandshakeHoldsNothing
<1>4. HomesAreReached'
  <2>1. \A c \in Conn :
          peer'[c].pc \in Inside \/ peer'[c].detach = "release" => peer'[c].inst # NoInst
    BY <1>1 DEF Moves, CountInv, HomesAreReached
  <2>2. \A c \in Conn : peer'[c].replaced # None =>
          peer'[peer'[c].replaced].pc \notin {"new", "hello"}
    <3>1. \A c \in Conn : peer[c].replaced \in Conn \cup {None}
      BY <1>1 DEF PeerRecord
    <3> QED
      BY <1>1, <3>1 DEF PeersMove, CountInv, HomesAreReached, Started
  <2>3. \A h \in Inst : \A n \in Name : home'[h].slots[n].conn # None =>
          peer'[home'[h].slots[n].conn].pc \notin {"new", "hello"}
    <3>1. \A h \in Inst : \A n \in Name : home[h].slots[n].conn \in Conn \cup {None}
      BY DEF CountInv, TypeOK, HomeRecord, Slot
    <3> QED
      BY <1>1, <3>1 DEF HomesKeep, CountInv, HomesAreReached, Started
  <2> QED
    BY <2>1, <2>2, <2>3 DEF HomesAreReached, Started
<1>5. HomesAreCounted'
  <2>1. {c \in Conn : Started(c)} \subseteq {c \in Conn : Started(c)'}
    BY <1>1
  <2>2. /\ Cardinality({c \in Conn : Started(c)}) <= Cardinality({c \in Conn : Started(c)'})
        /\ Cardinality({c \in Conn : Started(c)}) \in Nat
        /\ Cardinality({c \in Conn : Started(c)'}) \in Nat
    BY <2>1, Bounds, FS_Subset
  <2>3. born \in Nat
    BY Bounds DEF CountInv, TypeOK, NoInst
  <2> QED
    BY <2>2, <2>3 DEF CountInv, HomesAreCounted
<1> QED
  BY <1>2, <1>3, <1>4, <1>5

----------------------------------------------------------------------------
\* fail, stop and startDraining

\* What fail does to a peer.
LEMMA FailFields ==
    ASSUME NEW p \in PeerRecord
    PROVE  /\ Fail(p) \in PeerRecord
           /\ Fail(p).pc = p.pc /\ Fail(p).inst = p.inst /\ Fail(p).boot = p.boot
           /\ Fail(p).gen = p.gen /\ Fail(p).replaced = p.replaced
           /\ Fail(p).stopped = p.stopped /\ Fail(p).drainOnce = p.drainOnce
           /\ Fail(p).phase \in {p.phase, "Closed"}
           /\ Fail(p).detach # p.detach => p.detach = "idle" /\ Fail(p).detach = "spawned"
<1>1. CASE p.failed
  BY <1>1 DEF Fail
<1>2. CASE ~p.failed
  <2> DEFINE d == IF SpawnOnce(p) THEN "spawned" ELSE p.detach
             q == [p EXCEPT !.failed = TRUE, !.phase = "Closed", !.detach = d]
  <2>1. Fail(p) = q
    BY <1>2 DEF Fail
  <2>2. d \in {"idle", "spawned", "release", "done"} /\ (d # p.detach => p.detach = "idle" /\ d = "spawned")
    BY DEF SpawnOnce, PeerRecord
  <2> HIDE DEF d
  <2>3. q \in PeerRecord
    BY <2>2 DEF PeerRecord
  <2>4. /\ q.pc = p.pc /\ q.inst = p.inst /\ q.boot = p.boot /\ q.gen = p.gen
        /\ q.replaced = p.replaced /\ q.stopped = p.stopped /\ q.drainOnce = p.drainOnce
        /\ q.phase = "Closed" /\ q.detach = d
    BY DEF PeerRecord
  <2> QED
    BY <2>1, <2>2, <2>3, <2>4
<1> QED
  BY <1>1, <1>2 DEF PeerRecord

\* What stop does to a peer.
LEMMA StopFields ==
    ASSUME NEW p \in PeerRecord
    PROVE  /\ Stop(p) \in PeerRecord
           /\ Stop(p).pc = p.pc /\ Stop(p).inst = p.inst /\ Stop(p).boot = p.boot
           /\ Stop(p).gen = p.gen /\ Stop(p).replaced = p.replaced
           /\ Stop(p).stopped /\ Stop(p).drainOnce = p.drainOnce
           /\ Stop(p).phase = IF p.stopped THEN p.phase ELSE "Closed"
           /\ Stop(p).detach = p.detach
<1>1. CASE p.stopped
  BY <1>1 DEF Stop
<1>2. CASE ~p.stopped
  <2> DEFINE s == ~Joining(p)
             q == [p EXCEPT !.stopped = TRUE, !.phase = "Closed", !.shut = s]
  <2>1. Stop(p) = q
    BY <1>2 DEF Stop
  <2>5. s \in BOOLEAN
    OBVIOUS
  <2> HIDE DEF s
  <2>2. q \in PeerRecord
    BY <2>5 DEF PeerRecord
  <2>3. /\ q.pc = p.pc /\ q.inst = p.inst /\ q.boot = p.boot /\ q.gen = p.gen
        /\ q.replaced = p.replaced /\ q.stopped /\ q.drainOnce = p.drainOnce
        /\ q.phase = "Closed" /\ q.detach = p.detach
    BY DEF PeerRecord
  <2> QED
    BY <1>2, <2>1, <2>2, <2>3
<1> QED
  BY <1>1, <1>2 DEF PeerRecord

\* What startDraining does to a peer.
LEMMA DrainingFields ==
    ASSUME NEW p \in PeerRecord, NEW q \in StartDraining(p)
    PROVE  /\ q \in PeerRecord /\ q.drainOnce
           /\ q.pc = p.pc /\ q.inst = p.inst /\ q.boot = p.boot
           /\ q.gen = p.gen /\ q.replaced = p.replaced /\ q.stopped = p.stopped
           /\ q.phase \in {p.phase, "Draining", "Closed"}
           /\ p.phase # "Active" => q.phase = p.phase /\ q.detach = p.detach
           /\ q.detach # p.detach => p.detach = "idle" /\ q.detach = "spawned"
<1> DEFINE r == [p EXCEPT !.drainOnce = TRUE]
<1>1. /\ r \in PeerRecord /\ r.drainOnce
      /\ r.pc = p.pc /\ r.inst = p.inst /\ r.boot = p.boot /\ r.gen = p.gen
      /\ r.replaced = p.replaced /\ r.stopped = p.stopped /\ r.phase = p.phase
      /\ r.detach = p.detach
  BY DEF PeerRecord
<1>2. (q = p /\ p.drainOnce) \/ q = r \/ (p.phase = "Active" /\ (q = Fail(r) \/ q = [r EXCEPT !.phase = "Draining"]))
  BY DEF StartDraining, PeerRecord
<1> HIDE DEF r
<1>3. CASE q = p /\ p.drainOnce
  BY <1>3
<1>4. CASE q = r
  BY <1>1, <1>4
<1>5. CASE p.phase = "Active" /\ q = Fail(r)
  BY <1>1, <1>5, FailFields
<1>6. CASE p.phase = "Active" /\ q = [r EXCEPT !.phase = "Draining"]
  BY <1>1, <1>6 DEF PeerRecord
<1> QED
  BY <1>2, <1>3, <1>4, <1>5, <1>6

\* A step of one peer moves the peers.
LEMMA OneMoves ==
    ASSUME CountInv, NEW c \in Conn, NEW q \in PeerRecord, Moves(peer[c], q),
           q.replaced \in {None, peer[c].replaced} \cup {d \in Conn : Started(d)},
           peer[c].pc = "arriving" /\ q.pc = "serving" /\ draining => q.drainOnce,
           peer' = [peer EXCEPT ![c] = q]
    PROVE  PeersMove
<1>1. \A d \in Conn : Moves(peer[d], peer[d])
  BY DEF Moves, Served
<1> QED
  BY <1>1 DEF PeersMove, CountInv, TypeOK

\* A step that leaves the peers or the homes alone.
LEMMA Stays ==
    ASSUME CountInv
    PROVE  (peer' = peer => PeersMove) /\ (home' = home => HomesKeep)
<1>1. \A d \in Conn : Moves(peer[d], peer[d])
  BY DEF Moves, Served
<1>2. peer' = peer => PeersMove
  BY <1>1 DEF PeersMove, CountInv, TypeOK
<1>3. home' = home => HomesKeep
  BY DEF HomesKeep, CountInv, TypeOK
<1> QED
  BY <1>2, <1>3

Place == {"authfail", "publishing", "replacing", "arriving", "serving", "handling",
          "exiting", "done"}

\* A peer that only gets another program counter.
LEMMA PlaceFields ==
    ASSUME NEW p \in PeerRecord,
           NEW l \in Place \cup {"hello", "activating"}
    PROVE  LET q == [p EXCEPT !.pc = l]
           IN  /\ q \in PeerRecord /\ q.pc = l
               /\ q.inst = p.inst /\ q.boot = p.boot /\ q.gen = p.gen
               /\ q.stopped = p.stopped /\ q.failed = p.failed /\ q.drainOnce = p.drainOnce
               /\ q.phase = p.phase /\ q.detach = p.detach /\ q.replaced = p.replaced
  BY DEF PeerRecord, Place

\* A peer that run itself has stopped.
StoppedAt(p, l) == [Stop(p) EXCEPT !.shut = TRUE, !.pc = l]

\* fail, stop and a plain jump, on the way out.
LEMMA WayOut ==
    ASSUME NEW p \in PeerRecord, NEW l \in {"exiting", "authfail"}, NEW q,
           \/ q = [p EXCEPT !.pc = l]
           \/ q = [Fail(p) EXCEPT !.pc = l]
           \/ q = StoppedAt(p, l)
    PROVE  q \in PeerRecord /\ Moves(p, q) /\ q.replaced = p.replaced /\ q.pc = l
<1>1. CASE q = [p EXCEPT !.pc = l]
  <2>1. /\ q \in PeerRecord /\ q.pc = l /\ q.inst = p.inst /\ q.boot = p.boot
        /\ q.gen = p.gen /\ q.drainOnce = p.drainOnce
        /\ q.stopped = p.stopped /\ q.phase = p.phase
        /\ q.detach = p.detach /\ q.replaced = p.replaced
    BY <1>1, PlaceFields, ZenonT(40) DEF Place
  <2> QED
    BY <2>1 DEF Moves, Inside, Served
<1>2. CASE q = [Fail(p) EXCEPT !.pc = l]
  <2>1. Fail(p) \in PeerRecord
    BY FailFields
  <2>2. /\ q \in PeerRecord /\ q.pc = l /\ q.inst = Fail(p).inst /\ q.boot = Fail(p).boot
        /\ q.gen = Fail(p).gen /\ q.drainOnce = Fail(p).drainOnce
        /\ q.stopped = Fail(p).stopped /\ q.phase = Fail(p).phase
        /\ q.detach = Fail(p).detach /\ q.replaced = Fail(p).replaced
    BY <1>2, <2>1, PlaceFields, ZenonT(40) DEF Place
  <2> QED
    BY <2>2, FailFields DEF Moves, Inside, Served
<1>3. CASE q = StoppedAt(p, l)
  <2> DEFINE r == [Stop(p) EXCEPT !.shut = TRUE]
  <2>1. Stop(p) \in PeerRecord
    BY StopFields
  <2>2. /\ r \in PeerRecord /\ r.inst = Stop(p).inst /\ r.boot = Stop(p).boot
        /\ r.gen = Stop(p).gen /\ r.drainOnce = Stop(p).drainOnce /\ r.phase = Stop(p).phase
        /\ r.detach = Stop(p).detach /\ r.replaced = Stop(p).replaced
    BY <2>1 DEF PeerRecord
  <2>3. q = [r EXCEPT !.pc = l]
    BY <1>3, <2>1 DEF PeerRecord, StoppedAt
  <2> HIDE DEF r
  <2>4. /\ q \in PeerRecord /\ q.pc = l /\ q.inst = r.inst /\ q.boot = r.boot
        /\ q.gen = r.gen /\ q.drainOnce = r.drainOnce /\ q.phase = r.phase
        /\ q.detach = r.detach /\ q.replaced = r.replaced
    BY <2>2, <2>3, SMTT(30) DEF PeerRecord, Place
  <2>5. Stop(p).phase \in {p.phase, "Closed"}
    BY StopFields
  <2> QED
    BY <2>2, <2>4, <2>5, StopFields DEF Moves, Inside, Served
<1> QED
  BY <1>1, <1>2, <1>3

\* fail and stop beside the goroutine of the peer.
LEMMA FromOutside ==
    ASSUME NEW p \in PeerRecord
    PROVE  /\ p.pc \notin {"new", "hello"} => Moves(p, Fail(p))
           /\ Moves(p, Stop(p))
<1>1. p.pc \notin {"new", "hello"} => Moves(p, Fail(p))
  BY FailFields DEF Moves, Served
<1>2. Moves(p, Stop(p))
  BY StopFields DEF Moves, Served, PeerRecord
<1> QED
  BY <1>1, <1>2

----------------------------------------------------------------------------
\* The steps of one peer that leave the homes alone

\* A peer gives up, or is sent away.
LEMMA LeavingSteps ==
    ASSUME CountInv, NEW c \in Conn,
           \/ HelloTimesOut(c) \/ HelloRejected(c) \/ RefuseAttach(c) \/ AuthenticationFails(c)
           \/ PeerLeaves(c) \/ ReadCancelled(c) \/ PeerFatal(c) \/ DeclareFenced(c)
    PROVE  PeersMove
<1>1. peer \in [Conn -> PeerRecord] /\ peer[c] \in PeerRecord
  BY DEF CountInv, TypeOK
<1>2. PICK l \in {"exiting", "authfail"} :
        \/ peer' = [peer EXCEPT ![c] = [peer[c] EXCEPT !.pc = l]]
        \/ peer' = [peer EXCEPT ![c] = [Fail(peer[c]) EXCEPT !.pc = l]]
        \/ peer' = [peer EXCEPT ![c] = StoppedAt(peer[c], l)]
  BY <1>1 DEF HelloTimesOut, HelloRejected, RefuseAttach, AuthenticationFails,
              PeerLeaves, ReadCancelled, PeerFatal, DeclareFenced, StoppedAt
<1>3. PICK q :
        /\ peer' = [peer EXCEPT ![c] = q]
        /\ \/ q = [peer[c] EXCEPT !.pc = l]
           \/ q = [Fail(peer[c]) EXCEPT !.pc = l]
           \/ q = StoppedAt(peer[c], l)
  BY <1>2
<1>4. q \in PeerRecord /\ Moves(peer[c], q) /\ q.replaced = peer[c].replaced /\ q.pc = l
  BY <1>1, <1>3, WayOut
<1> QED
  BY <1>3, <1>4, OneMoves

\* A peer moves along on its way in, and takes a frame.
LEMMA AdvancingSteps ==
    ASSUME CountInv, NEW c \in Conn, Track(c) \/ HandleDeclaration(c)
    PROVE  PeersMove
<1>1. peer \in [Conn -> PeerRecord] /\ peer[c] \in PeerRecord
  BY DEF CountInv, TypeOK
<1>2. PICK l \in {"done", "hello", "handling"} :
        /\ peer' = [peer EXCEPT ![c] = [peer[c] EXCEPT !.pc = l]]
        /\ peer[c].pc = IF l = "handling" THEN "serving" ELSE "new"
  BY <1>1 DEF Track, HandleDeclaration, At
<1> DEFINE q == [peer[c] EXCEPT !.pc = l]
<1>3. /\ q \in PeerRecord /\ q.pc = l /\ q.inst = peer[c].inst /\ q.boot = peer[c].boot
      /\ q.gen = peer[c].gen /\ q.drainOnce = peer[c].drainOnce
      /\ q.stopped = peer[c].stopped /\ q.phase = peer[c].phase
      /\ q.detach = peer[c].detach /\ q.replaced = peer[c].replaced
  BY <1>1, PlaceFields, ZenonT(40) DEF Place
<1> HIDE DEF q
<1>4. Moves(peer[c], q)
  BY <1>2, <1>3 DEF Moves, Inside, Served
<1> QED
  BY <1>2, <1>3, <1>4, OneMoves DEF q

\* fail and stop from another goroutine.
LEMMA OutsideSteps ==
    ASSUME CountInv, NEW c \in Conn,
           \/ AsyncFail(c) \/ WriteFatal(c) \/ TransportLost(c) \/ StopOne(c) \/ StopShuts(c)
    PROVE  PeersMove
<1>1. peer \in [Conn -> PeerRecord] /\ peer[c] \in PeerRecord
  BY DEF CountInv, TypeOK
<1>2. CASE AsyncFail(c)
  <2>1. peer[c].pc \notin {"new", "hello"}
    BY <1>2 DEF AsyncFail, CountInv, HandshakeHoldsNothing
  <2>2. peer' = [peer EXCEPT ![c] = Fail(peer[c])]
    BY <1>1, <1>2 DEF AsyncFail
  <2> QED
    BY <1>1, <2>1, <2>2, FailFields, FromOutside, OneMoves
<1>3. CASE WriteFatal(c) \/ TransportLost(c) \/ StopOne(c)
  <2>1. peer' = [peer EXCEPT ![c] = Stop(peer[c])]
    BY <1>1, <1>3 DEF WriteFatal, TransportLost, StopOne
  <2> QED
    BY <1>1, <2>1, StopFields, FromOutside, OneMoves
<1>4. CASE StopShuts(c)
  <2> DEFINE q == [peer[c] EXCEPT !.shut = TRUE]
  <2>1. peer' = [peer EXCEPT ![c] = q]
    BY <1>1, <1>4 DEF StopShuts
  <2>2. /\ q \in PeerRecord /\ q.pc = peer[c].pc /\ q.inst = peer[c].inst
        /\ q.boot = peer[c].boot /\ q.gen = peer[c].gen /\ q.drainOnce = peer[c].drainOnce
        /\ q.phase = peer[c].phase /\ q.detach = peer[c].detach
        /\ q.replaced = peer[c].replaced
    BY <1>1 DEF PeerRecord
  <2> HIDE DEF q
  <2>3. Moves(peer[c], q)
    BY <2>2 DEF Moves, Served
  <2>4. peer[c].pc = "arriving" => q.pc # "serving"
    BY <2>2
  <2> QED
    BY <2>1, <2>2, <2>3, <2>4, OneMoves
<1> QED
  BY <1>2, <1>3, <1>4

\* startDraining only fails a peer that has left its handshake.
LEMMA DrainingMoves ==
    ASSUME CountInv, NEW c \in Conn, NEW q \in StartDraining(peer[c])
    PROVE  q \in PeerRecord /\ Moves(peer[c], q) /\ q.replaced = peer[c].replaced /\ q.drainOnce
<1>1. peer[c] \in PeerRecord
  BY DEF CountInv, TypeOK
<1>2. peer[c].pc \in {"new", "hello"} => peer[c].phase # "Active"
  BY DEF CountInv, HandshakeHoldsNothing, Started
<1> QED
  BY <1>1, <1>2, DrainingFields DEF Moves, Served

LEMMA DrainSteps ==
    ASSUME CountInv, NEW c \in Conn, DrainOne(c)
    PROVE  PeersMove
<1>1. PICK q \in StartDraining(peer[c]) : peer' = [peer EXCEPT ![c] = q]
  BY DEF DrainOne
<1> QED
  BY <1>1, DrainingMoves, OneMoves

\* The end of authenticate: the drain state, then the read loop.
LEMMA ArriveStep ==
    ASSUME CountInv, NEW c \in Conn, Arrive(c)
    PROVE  PeersMove
<1>1. peer[c] \in PeerRecord /\ peer[c].pc = "arriving"
  BY DEF CountInv, TypeOK, Arrive, At
<1>2. PICK p \in TellArrival(peer[c]) : peer' = [peer EXCEPT ![c] = [p EXCEPT !.pc = "serving"]]
  BY DEF Arrive
<1>3. /\ p \in PeerRecord /\ Moves(peer[c], p) /\ p.replaced = peer[c].replaced
      /\ p.pc = "arriving" /\ (draining => p.drainOnce)
  BY <1>1, <1>2, DrainingMoves, DrainingFields DEF TellArrival, Moves
<1> DEFINE q == [p EXCEPT !.pc = "serving"]
<1>4. /\ q \in PeerRecord /\ q.pc = "serving" /\ q.inst = p.inst /\ q.boot = p.boot
      /\ q.gen = p.gen /\ q.drainOnce = p.drainOnce
      /\ q.stopped = p.stopped /\ q.phase = p.phase
      /\ q.detach = p.detach /\ q.replaced = p.replaced
  BY <1>3, PlaceFields, ZenonT(40) DEF Place
<1> HIDE DEF q
<1>5. Moves(peer[c], q)
  BY <1>1, <1>3, <1>4 DEF Moves, Inside, Served
<1> QED
  BY <1>2, <1>3, <1>4, <1>5, OneMoves DEF q

\* attach, after the unlock: the peer that held the slot is failed.
LEMMA FailReplacedStep ==
    ASSUME CountInv, NEW c \in Conn, FailReplaced(c)
    PROVE  PeersMove
<1> DEFINE r == peer[c].replaced
           l == AfterAttach(peer[c])
           b == IF r = c THEN Fail(peer[c]) ELSE peer[c]
           q == [b EXCEPT !.replaced = None, !.pc = l]
<1>1. /\ peer \in [Conn -> PeerRecord] /\ peer[c].pc = "replacing"
      /\ l \in {"arriving", "authfail"} /\ r \in Conn \cup {None}
      /\ r \in Conn => peer[r] \in PeerRecord /\ peer[r].pc \notin {"new", "hello"}
  BY DEF CountInv, TypeOK, HomesAreReached, Started, FailReplaced, At, AfterAttach, PeerRecord
<1>2. /\ b \in PeerRecord /\ b.pc = "replacing" /\ Moves(peer[c], b)
      /\ b.replaced = peer[c].replaced
  <2>1. CASE r = c
    BY <1>1, <2>1, FailFields, FromOutside
  <2>2. CASE r # c
    BY <1>1, <2>2 DEF Moves
  <2> QED
    BY <2>1, <2>2
<1>3. /\ DOMAIN peer' = Conn /\ peer' = [d \in Conn |-> peer'[d]]
      /\ peer'[c] = q
      /\ \A d \in Conn \ {c} : peer'[d] = IF d = r THEN Fail(peer[d]) ELSE peer[d]
  BY <1>1 DEF FailReplaced
<1> HIDE DEF b, l
<1>4. /\ q \in PeerRecord /\ q.pc = l /\ q.inst = b.inst /\ q.boot = b.boot
      /\ q.gen = b.gen /\ q.drainOnce = b.drainOnce
      /\ q.stopped = b.stopped /\ q.phase = b.phase
      /\ q.detach = b.detach /\ q.replaced = None
  BY <1>1, <1>2 DEF PeerRecord
<1> HIDE DEF q
<1>5. Moves(peer[c], q)
  BY <1>1, <1>2, <1>4 DEF Moves, Inside, Served
<1>6. \A d \in Conn \ {c} :
        /\ peer'[d] \in PeerRecord /\ Moves(peer[d], peer'[d])
        /\ peer'[d].replaced = peer[d].replaced /\ peer'[d].pc = peer[d].pc
  BY <1>1, <1>3, FailFields, FromOutside DEF Moves, Served
<1>7. peer' \in [Conn -> PeerRecord]
  BY <1>3, <1>4, <1>6
<1>8. peer[c].pc # "arriving" /\ (peer'[c].replaced = None)
  BY <1>1, <1>3, <1>4
<1> QED
  BY <1>3, <1>5, <1>6, <1>7, <1>8 DEF PeersMove

\* detach changes only what detachOnce guards.
LEMMA DetachFields ==
    ASSUME NEW p \in PeerRecord, NEW w \in {"release", "done"}
    PROVE  LET q == [p EXCEPT !.detach = w]
           IN  /\ q \in PeerRecord /\ q.pc = p.pc /\ q.inst = p.inst /\ q.boot = p.boot
               /\ q.stopped = p.stopped /\ q.phase = p.phase /\ q.gen = p.gen
               /\ q.drainOnce = p.drainOnce
               /\ q.detach = w /\ q.replaced = p.replaced
  BY DEF PeerRecord

LEMMA DetachSteps ==
    ASSUME CountInv, NEW c \in Conn, DetachNothing(c) \/ DetachHome(c)
    PROVE  PeersMove
<1>1. /\ peer[c] \in PeerRecord /\ peer[c].detach \in {"idle", "spawned"}
      /\ peer[c].pc \notin {"new", "hello"}
  BY DEF CountInv, TypeOK, DetachNothing, DetachHome, DetachCalled, HandshakeHoldsNothing, Started
<1> DEFINE w == IF peer[c].inst = NoInst THEN "done" ELSE "release"
           q == [peer[c] EXCEPT !.detach = w]
<1>2. peer' = [peer EXCEPT ![c] = q]
  BY <1>1 DEF DetachNothing, DetachHome
<1>3. w \in {"release", "done"} /\ (w = "done" <=> peer[c].inst = NoInst)
  OBVIOUS
<1> HIDE DEF w
<1>4. /\ q \in PeerRecord /\ q.pc = peer[c].pc /\ q.inst = peer[c].inst
      /\ q.gen = peer[c].gen /\ q.drainOnce = peer[c].drainOnce
      /\ q.boot = peer[c].boot /\ q.stopped = peer[c].stopped /\ q.phase = peer[c].phase
      /\ q.detach = w /\ q.replaced = peer[c].replaced
  BY <1>1, <1>3, DetachFields
<1> HIDE DEF q
<1>5. Moves(peer[c], q)
  BY <1>1, <1>3, <1>4 DEF Moves, Served
<1> QED
  BY <1>2, <1>4, <1>5, OneMoves

\* The end of attach releases the lock and moves on.
LEMMA PublishStep ==
    ASSUME CountInv, NEW c \in Conn, AttachPublish(c)
    PROVE  PeersMove
<1>1. peer[c] \in PeerRecord /\ peer[c].pc = "publishing"
  BY DEF CountInv, TypeOK, AttachPublish, At
<1>2. PICK l \in {"arriving", "authfail", "replacing"} :
        peer' = [peer EXCEPT ![c] = [peer[c] EXCEPT !.pc = l]]
  BY <1>1 DEF AttachPublish, AfterAttach
<1> DEFINE q == [peer[c] EXCEPT !.pc = l]
<1>3. /\ q \in PeerRecord /\ q.pc = l /\ q.inst = peer[c].inst /\ q.boot = peer[c].boot
      /\ q.gen = peer[c].gen /\ q.drainOnce = peer[c].drainOnce
      /\ q.stopped = peer[c].stopped /\ q.phase = peer[c].phase
      /\ q.detach = peer[c].detach /\ q.replaced = peer[c].replaced
  <2>1. l \in Place
    BY DEF Place
  <2> QED
    BY <1>1, <2>1, PlaceFields
<1> HIDE DEF q
<1>4. Moves(peer[c], q)
  BY <1>1, <1>3 DEF Moves, Inside, Served
<1> QED
  BY <1>2, <1>3, <1>4, OneMoves DEF q

----------------------------------------------------------------------------
\* The homes

\* A step that changes one home, but not its references.
LEMMA OneHomeKeeps ==
    ASSUME CountInv, NEW h \in Inst, NEW r \in HomeRecord, r.refs = home[h].refs,
           \A n \in Name : r.slots[n].conn \in
               {None, home[h].slots[n].conn} \cup {d \in Conn : Started(d)},
           home' = [home EXCEPT ![h] = r]
    PROVE  HomesKeep
  BY DEF HomesKeep, CountInv, TypeOK

\* The home of a peer inside one, and its slots.
LEMMA HomeShape ==
    ASSUME CountInv
    PROVE  /\ \A c \in Conn : peer[c].inst # NoInst => peer[c].inst \in Inst
           /\ \A c \in Conn : peer[c].pc \in Inside => peer[c].inst \in Inst
           /\ \A h \in Inst : home[h] \in HomeRecord /\ home[h].refs \in Nat
           /\ \A h \in Inst : \A n \in Name : home[h].slots[n] \in Slot
           /\ NoSlot \in Slot
<1>1. \A c \in Conn : peer[c].inst \in Inst \cup {NoInst}
  BY DEF CountInv, TypeOK, PeerRecord
<1>2. \A h \in Inst : home[h] \in HomeRecord
  BY DEF CountInv, TypeOK
<1>3. \A h \in Inst : home[h].refs \in Nat /\ \A n \in Name : home[h].slots[n] \in Slot
  BY <1>2 DEF HomeRecord
<1>4. NoSlot \in Slot
  BY DEF NoSlot, Slot
<1> QED
  BY <1>1, <1>2, <1>3, <1>4 DEF CountInv, HomesAreReached

\* What users and coordinators are told has the type they keep it in.
LEMMA StatusType ==
    ASSUME NEW S \in [Name -> Slot], NEW x
    PROVE  Status(S, x) \in SUBSET (Name \X Nat \X {1, 2})
  BY DEF Status, Present, Slot

LEMMA BroadcastType ==
    ASSUME CountInv, NEW h, NEW S \in [Name -> Slot]
    PROVE  Broadcast(h, S) \in [Conn -> SUBSET (Name \X Nat \X {1, 2})]
<1>1. Status(S, None) \in SUBSET (Name \X Nat \X {1, 2})
  BY StatusType
<1> QED
  BY <1>1 DEF Broadcast, CountInv, TypeOK

\* A home whose lock, members, slots, timers, sweep or closed flag change.
LEMMA HomeFields ==
    ASSUME NEW r \in HomeRecord
    PROVE  /\ \A l \in Conn \cup {None} : \A M \in SUBSET Conn :
                [r EXCEPT !.lock = l, !.members = M] \in HomeRecord
           /\ \A S \in [Name -> Slot] : [r EXCEPT !.slots = S] \in HomeRecord
           /\ \A F \in SUBSET (Name \X Nat) : [r EXCEPT !.fired = F] \in HomeRecord
           /\ \A b \in BOOLEAN :
                [r EXCEPT !.sweep = b] \in HomeRecord /\ [r EXCEPT !.closed = b] \in HomeRecord
           /\ \A k \in Nat : \A i \in HomeId : [r EXCEPT !.id = i, !.refs = k] \in HomeRecord
  BY DEF HomeRecord

\* The timers, home.close and the sweep change one home each.
LEMMA TimerSteps ==
    ASSUME CountInv, NEW h \in Inst,
           \/ \E n \in Name : GraceFires(h, n)
           \/ \E e \in home[h].fired : ExpireCoordinator(h, e[1], e[2])
           \/ SweepHome(h) \/ CloseHome(h)
    PROVE  HomesKeep
<1>1. /\ home \in [Inst -> HomeRecord] /\ home[h] \in HomeRecord
      /\ home[h].slots \in [Name -> Slot] /\ home[h].fired \in SUBSET (Name \X Nat)
      /\ \A n \in Name : home[h].slots[n].gen \in Nat
      /\ NoSlot \in Slot
  BY HomeShape DEF CountInv, TypeOK, HomeRecord, Slot
<1>2. ASSUME NEW n \in Name, GraceFires(h, n)
      PROVE  HomesKeep
  <2> DEFINE S == [home[h].slots EXCEPT ![n].grace = "fired"]
             F == home[h].fired \cup {<<n, home[h].slots[n].gen>>}
             r == [home[h] EXCEPT !.slots = S, !.fired = F]
  <2>1. home' = [home EXCEPT ![h] = r]
    BY <1>1, <1>2 DEF GraceFires
  <2>2. /\ S \in [Name -> Slot] /\ F \in SUBSET (Name \X Nat)
        /\ \A m \in Name : S[m].conn = home[h].slots[m].conn
    BY <1>1 DEF Slot
  <2> HIDE DEF S, F
  <2>3. r \in HomeRecord /\ r.refs = home[h].refs /\ r.slots = S
    BY <1>1, <2>2 DEF HomeRecord
  <2>4. \A m \in Name : r.slots[m].conn \in
          {None, home[h].slots[m].conn} \cup {d \in Conn : Started(d)}
    BY <2>2, <2>3
  <2> HIDE DEF r
  <2> QED
    BY <2>1, <2>3, <2>4, OneHomeKeeps
<1>3. ASSUME NEW e \in home[h].fired, ExpireCoordinator(h, e[1], e[2])
      PROVE  HomesKeep
  <2> DEFINE S == [home[h].slots EXCEPT ![e[1]] = NoSlot]
             F == home[h].fired \ {<<e[1], e[2]>>}
             r == [[home[h] EXCEPT !.fired = F] EXCEPT !.slots = S, !.sweep = TRUE]
             t == [home[h] EXCEPT !.fired = F]
  <2>1. home' = [home EXCEPT ![h] = r] \/ home' = [home EXCEPT ![h] = t]
    BY <1>3 DEF ExpireCoordinator
  <2>2. /\ S \in [Name -> Slot] /\ F \in SUBSET (Name \X Nat)
        /\ \A m \in Name : S[m].conn \in {None, home[h].slots[m].conn}
    BY <1>1 DEF NoSlot
  <2> HIDE DEF S, F
  <2>3. t \in HomeRecord /\ t.refs = home[h].refs /\ t.slots = home[h].slots
    BY <1>1, <2>2 DEF HomeRecord
  <2>4. r \in HomeRecord /\ r.refs = home[h].refs /\ r.slots = S
    BY <1>1, <2>2 DEF HomeRecord
  <2> HIDE DEF r, t
  <2> QED
    BY <2>1, <2>2, <2>3, <2>4, OneHomeKeeps
<1>4. ASSUME SweepHome(h)
      PROVE  HomesKeep
  <2> DEFINE r == [home[h] EXCEPT !.sweep = FALSE]
  <2>1. home' = [home EXCEPT ![h] = r]
    BY <1>1, <1>4 DEF SweepHome
  <2>2. r \in HomeRecord /\ r.refs = home[h].refs /\ r.slots = home[h].slots
    BY <1>1 DEF HomeRecord
  <2> HIDE DEF r
  <2> QED
    BY <2>1, <2>2, OneHomeKeeps
<1>5. ASSUME CloseHome(h)
      PROVE  HomesKeep
  <2> DEFINE S == [n \in Name |-> CloseSlot(home[h].slots[n])]
             r == [home[h] EXCEPT !.closed = TRUE, !.sweep = TRUE, !.slots = S]
  <2>1. home' = [home EXCEPT ![h] = r]
    BY <1>1, <1>5 DEF CloseHome
  <2>2. /\ S \in [Name -> Slot]
        /\ \A m \in Name : S[m].conn \in {None, home[h].slots[m].conn}
    BY <1>1 DEF CloseSlot, NoSlot
  <2> HIDE DEF S
  <2>3. r \in HomeRecord /\ r.refs = home[h].refs /\ r.slots = S
    BY <1>1, <2>2 DEF HomeRecord
  <2> HIDE DEF r
  <2> QED
    BY <2>1, <2>2, <2>3, OneHomeKeeps
<1> QED
  BY <1>2, <1>3, <1>4, <1>5

\* A declaration, the end of attach and detach change the home of the peer.
LEMMA PeerHomeSteps ==
    ASSUME CountInv, NEW c \in Conn, AttachPublish(c) \/ Declare(c) \/ DetachHome(c)
    PROVE  HomesKeep
<1> DEFINE h == peer[c].inst
<1>1. /\ h \in Inst /\ home \in [Inst -> HomeRecord] /\ home[h] \in HomeRecord
      /\ home[h].slots \in [Name -> Slot] /\ home[h].members \in SUBSET Conn
      /\ NameOf[c] \in Name /\ NoSlot \in Slot /\ peer[c].gen \in Nat
  BY HomeShape, BindingAssumption
     DEF CountInv, TypeOK, HomeRecord, PeerRecord, AttachPublish, Declare, DetachHome, At, Inside
<1> HIDE DEF h
<1>2. ASSUME AttachPublish(c)
      PROVE  HomesKeep
  <2> DEFINE r == [home[h] EXCEPT !.lock = None]
  <2>1. home' = [home EXCEPT ![h] = r]
    BY <1>1, <1>2 DEF AttachPublish, h
  <2>2. r \in HomeRecord /\ r.refs = home[h].refs /\ r.slots = home[h].slots
    BY <1>1 DEF HomeRecord
  <2> HIDE DEF r
  <2> QED
    BY <1>1, <2>1, <2>2, OneHomeKeeps
<1>3. ASSUME Declare(c)
      PROVE  HomesKeep
  <2> DEFINE S == [home[h].slots EXCEPT ![NameOf[c]].ready = TRUE,
                                        ![NameOf[c]].decl = peer[c].gen]
             r == [home[h] EXCEPT !.slots = S]
  <2>1. home' = [home EXCEPT ![h] = r]
    BY <1>1, <1>3 DEF Declare, h
  <2>2. /\ S \in [Name -> Slot]
        /\ \A m \in Name : S[m].conn = home[h].slots[m].conn
    BY <1>1 DEF Slot
  <2> HIDE DEF S
  <2>3. r \in HomeRecord /\ r.refs = home[h].refs /\ r.slots = S
    BY <1>1, <2>2 DEF HomeRecord
  <2> HIDE DEF r
  <2> QED
    BY <1>1, <2>1, <2>2, <2>3, OneHomeKeeps, ZenonT(40)
<1>4. ASSUME DetachHome(c)
      PROVE  HomesKeep
  <2> DEFINE M == home[h].members \ {c}
             S == [home[h].slots EXCEPT ![NameOf[c]] = SlotAfterDetach(c, h, @)]
             r == [home[h] EXCEPT !.members = M]
             t == [home[h] EXCEPT !.members = M, !.slots = S]
  <2>1. home' = [home EXCEPT ![h] = r] \/ home' = [home EXCEPT ![h] = t]
    BY <1>1, <1>4 DEF DetachHome, DetachUser, DetachCoordinator, h
  <2>2. /\ S \in [Name -> Slot] /\ M \in SUBSET Conn
        /\ \A m \in Name : S[m].conn \in {None, home[h].slots[m].conn}
    <3>1. \A m \in Name : Retain(home[h].slots[m]) \in Slot /\ Retain(home[h].slots[m]).conn = None
      BY <1>1 DEF Slot, Retain
    <3> QED
      BY <1>1, <3>1 DEF SlotAfterDetach, NoSlot
  <2> HIDE DEF S, M
  <2>3. r \in HomeRecord /\ r.refs = home[h].refs /\ r.slots = home[h].slots
    BY <1>1, <2>2 DEF HomeRecord
  <2>4. t \in HomeRecord /\ t.refs = home[h].refs /\ t.slots = S
    BY <1>1, <2>2 DEF HomeRecord
  <2> HIDE DEF r, t
  <2> QED
    BY <1>1, <2>1, <2>2, <2>3, <2>4, OneHomeKeeps
<1> QED
  BY <1>2, <1>3, <1>4

----------------------------------------------------------------------------
\* attach

\* How a bootstrap leaves the peer.
LEMMA BootedFields ==
    ASSUME NEW p \in PeerRecord, NEW o \in BootOutcomes(p), NEW q, q = Booted(p, o)
    PROVE  /\ q \in PeerRecord /\ q.pc = "publishing" /\ q.inst = p.inst /\ q.gen = p.gen
           /\ q.replaced = p.replaced /\ q.drainOnce = p.drainOnce
           /\ q.boot => ~p.shut
           /\ q.phase \in {p.phase, "Closed"}
           /\ q.detach # p.detach => p.detach = "idle" /\ q.detach = "spawned"
<1> DEFINE r == [p EXCEPT !.pc = "publishing", !.boot = o = "ok"]
<1>1. /\ r \in PeerRecord /\ r.pc = "publishing" /\ r.inst = p.inst /\ r.gen = p.gen
      /\ r.replaced = p.replaced /\ r.drainOnce = p.drainOnce
      /\ (r.boot => o = "ok") /\ r.phase = p.phase /\ r.detach = p.detach
  BY DEF PeerRecord
<1>2. o = "ok" => ~p.shut
  BY DEF BootOutcomes, CanEnqueue
<1>3. q = r \/ q = Fail(r)
  BY DEF Booted
<1> HIDE DEF r
<1>4. CASE q = r
  BY <1>1, <1>2, <1>4
<1>5. CASE q = Fail(r)
  <2>1. /\ q \in PeerRecord /\ q.pc = r.pc /\ q.inst = r.inst /\ q.gen = r.gen
        /\ q.boot = r.boot /\ q.replaced = r.replaced
        /\ q.drainOnce = r.drainOnce /\ q.phase \in {r.phase, "Closed"}
        /\ q.detach # r.detach => r.detach = "idle" /\ q.detach = "spawned"
    BY <1>1, <1>5, FailFields
  <2>2. q.boot => ~p.shut
    BY <1>1, <1>2, <2>1
  <2> QED
    BY <1>1, <2>1, <2>2
<1> QED
  BY <1>3, <1>4, <1>5

\* The connection that attach is about to replace has left its handshake.
LEMMA TakenFields ==
    ASSUME CountInv, NEW c \in Conn, AttachInsert(c), RoleOf[c] = "coordinator"
    PROVE  LET slot == home[peer[c].inst].slots[NameOf[c]]
               taken == [peer[c] EXCEPT !.gen = slot.gen + 1, !.replaced = Replaced(slot)]
           IN  /\ taken \in PeerRecord /\ taken.pc = "activating" /\ taken.inst = peer[c].inst
               /\ taken.drainOnce = peer[c].drainOnce
               /\ taken.boot = peer[c].boot /\ taken.shut = peer[c].shut
               /\ taken.phase = peer[c].phase /\ taken.detach = peer[c].detach
               /\ taken.gen = slot.gen + 1
               /\ taken.replaced \in {None} \cup {d \in Conn : Started(d)}
<1> DEFINE slot == home[peer[c].inst].slots[NameOf[c]]
<1>1. /\ peer[c] \in PeerRecord /\ peer[c].pc = "activating" /\ peer[c].inst \in Inst
      /\ NameOf[c] \in Name
  BY HomeShape, BindingAssumption DEF CountInv, TypeOK, AttachInsert, At, Inside
<1>2. slot.gen \in Nat /\ slot.conn \in Conn \cup {None}
  BY <1>1, HomeShape DEF Slot
<1>3. slot.conn \in {None} \cup {d \in Conn : Started(d)}
  BY <1>1, <1>2 DEF CountInv, HomesAreReached
<1> HIDE DEF slot
<1>4. slot.gen + 1 \in Nat
  BY <1>2
<1> QED
  BY <1>1, <1>2, <1>3, <1>4 DEF PeerRecord, Replaced, slot

\* The slot that attach hands to a connection.
LEMMA TakeOverFields ==
    ASSUME NEW s \in Slot, NEW c \in Conn
    PROVE  LET t == TakeOver(s, c)
           IN  /\ t \in Slot /\ t.gen = s.gen + 1 /\ t.conn = c /\ t.ready = FALSE
               /\ t.decl = s.decl /\ t.grace = "none"
<1>1. s.gen + 1 \in Nat
  BY DEF Slot
<1> QED
  BY <1>1 DEF TakeOver, Slot

\* attach, up to activateInitialLease.
LEMMA InsertStep ==
    ASSUME CountInv, NEW c \in Conn, AttachInsert(c)
    PROVE  /\ PeersMove /\ HomesKeep
           /\ roster' \in [Conn -> SUBSET Conn]
           /\ told' \in [Conn -> SUBSET (Name \X Nat \X {1, 2})]
<1> DEFINE h == peer[c].inst
           slot == home[h].slots[NameOf[c]]
           taken == [peer[c] EXCEPT !.gen = slot.gen + 1, !.replaced = Replaced(slot)]
           S == [home[h].slots EXCEPT ![NameOf[c]] = TakeOver(slot, c)]
           joined == [home[h] EXCEPT !.lock = c, !.members = @ \cup {c}]
           r == [joined EXCEPT !.slots = S]
<1>1. /\ peer[c] \in PeerRecord /\ peer[c].pc = "activating" /\ ~peer[c].boot
      /\ h \in Inst /\ home[h] \in HomeRecord /\ slot \in Slot
      /\ home[h].slots \in [Name -> Slot] /\ NameOf[c] \in Name
      /\ home[h].members \in SUBSET Conn /\ Started(c)
  BY HomeShape, BindingAssumption
     DEF CountInv, TypeOK, HandshakeHoldsNothing, AttachInsert, At, Inside, HomeRecord, Started
<1>2. roster \in [Conn -> SUBSET Conn] /\ told \in [Conn -> SUBSET (Name \X Nat \X {1, 2})]
  BY DEF CountInv, TypeOK
<1>3. /\ joined \in HomeRecord /\ joined.refs = home[h].refs /\ joined.slots = home[h].slots
  BY <1>1 DEF HomeRecord
<1>4. S \in [Name -> Slot] /\ \A n \in Name : S[n].conn \in {home[h].slots[n].conn, c}
  <2>1. TakeOver(slot, c) \in Slot /\ TakeOver(slot, c).conn = c
    BY <1>1, TakeOverFields
  <2> QED
    BY <1>1, <2>1
<1>5. VisibleUsers(h) \in SUBSET Conn /\ Status(home[h].slots, c) \in SUBSET (Name \X Nat \X {1, 2})
  BY <1>1, StatusType DEF VisibleUsers, UsersOf
<1>6. CASE RoleOf[c] = "coordinator"
  <2>1. PICK o \in BootOutcomes(peer[c]) :
          /\ peer' = [peer EXCEPT ![c] = Booted(taken, o)]
          /\ home' = [home EXCEPT ![h] = r]
          /\ roster' = [roster EXCEPT ![c] = VisibleUsers(h)]
          /\ told' = told
    BY <1>6 DEF AttachInsert
  <2>2. /\ taken \in PeerRecord /\ taken.pc = "activating" /\ taken.inst = peer[c].inst
        /\ taken.drainOnce = peer[c].drainOnce
        /\ taken.boot = peer[c].boot /\ taken.shut = peer[c].shut
        /\ taken.phase = peer[c].phase /\ taken.detach = peer[c].detach
        /\ taken.replaced \in {None} \cup {d \in Conn : Started(d)}
    BY <1>6, TakenFields
  <2>3. o \in BootOutcomes(taken)
    BY <1>1, <2>1 DEF BootOutcomes, CanEnqueue, PeerRecord
  <2> HIDE DEF h, slot, taken, S, joined
  <2> DEFINE q == Booted(taken, o)
  <2>4. /\ q \in PeerRecord /\ q.pc = "publishing" /\ q.inst = peer[c].inst
        /\ q.drainOnce = peer[c].drainOnce
        /\ q.replaced = taken.replaced
        /\ q.boot => ~peer[c].shut
        /\ q.phase \in {peer[c].phase, "Closed"}
        /\ q.detach # peer[c].detach => peer[c].detach = "idle" /\ q.detach = "spawned"
    BY <2>2, <2>3, BootedFields
  <2> HIDE DEF q
  <2>5. Moves(peer[c], q)
    BY <1>1, <2>4 DEF Moves, Inside, Served
  <2>6. PeersMove
    BY <2>1, <2>2, <2>4, <2>5, OneMoves DEF q
  <2>7. r \in HomeRecord /\ r.refs = home[h].refs /\ r.slots = S
    BY <1>3, <1>4 DEF HomeRecord
  <2> HIDE DEF r
  <2>8. \A n \in Name : r.slots[n].conn \in
          {None, home[h].slots[n].conn} \cup {d \in Conn : Started(d)}
    BY <1>1, <1>4, <2>7
  <2>9. HomesKeep
    BY <1>1, <2>1, <2>7, <2>8, OneHomeKeeps
  <2> QED
    BY <1>2, <1>5, <2>1, <2>6, <2>9
<1>7. CASE RoleOf[c] # "coordinator"
  <2>1. PICK o \in BootOutcomes(peer[c]) :
          /\ peer' = [peer EXCEPT ![c] = Booted(peer[c], o)]
          /\ home' = [home EXCEPT ![h] = joined]
          /\ told' = [told EXCEPT ![c] = IF RoleOf[c] = "user" THEN Status(home[h].slots, c)
                                                              ELSE @]
          /\ roster' = roster
    BY <1>7 DEF AttachInsert
  <2> HIDE DEF h, slot, taken, S, joined
  <2> DEFINE q == Booted(peer[c], o)
  <2>4. /\ q \in PeerRecord /\ q.pc = "publishing" /\ q.inst = peer[c].inst
        /\ q.drainOnce = peer[c].drainOnce
        /\ q.replaced = peer[c].replaced
        /\ q.boot => ~peer[c].shut
        /\ q.phase \in {peer[c].phase, "Closed"}
        /\ q.detach # peer[c].detach => peer[c].detach = "idle" /\ q.detach = "spawned"
    BY <1>1, <2>1, BootedFields
  <2> HIDE DEF q
  <2>5. Moves(peer[c], q)
    BY <1>1, <2>4 DEF Moves, Inside, Served
  <2>6. PeersMove
    BY <2>1, <2>4, <2>5, OneMoves DEF q
  <2>9. HomesKeep
    BY <1>1, <1>3, <2>1, OneHomeKeeps
  <2> QED
    BY <1>2, <1>5, <2>1, <2>6, <2>9
<1> QED
  BY <1>6, <1>7

----------------------------------------------------------------------------
\* acquire, release and the end of run

\* The connections that hold a reference on a home.
Holders(h) == {c \in Conn : peer[c].inst = h /\ peer[c].detach # "done"}

\* A step of one connection that starts keeps what is said of the others.
LEMMA OthersStay ==
    ASSUME CountInv, NEW c \in Conn, NEW q \in PeerRecord,
           peer' = [peer EXCEPT ![c] = q]
    PROVE  /\ peer' \in [Conn -> PeerRecord] /\ peer'[c] = q
           /\ \A d \in Conn \ {c} : peer'[d] = peer[d]
  BY DEF CountInv, TypeOK

\* acquire takes a place in the range of the home objects.
LEMMA PlaceForHome ==
    ASSUME CountInv, NEW c \in Conn, ~Started(c)
    PROVE  born + 1 \in Inst /\ born + 1 <= Cardinality({d \in Conn : Started(d)} \cup {c})
<1> DEFINE S == {d \in Conn : Started(d)}
<1>1. IsFiniteSet(S) /\ Cardinality(S) \in Nat /\ c \notin S /\ S \cup {c} \in SUBSET Conn
  BY Bounds
<1>2. Cardinality(S \cup {c}) = Cardinality(S) + 1
  BY <1>1, FS_AddElement
<1>3. Cardinality(S \cup {c}) <= Cardinality(Conn) /\ Cardinality(S \cup {c}) \in Nat
  BY <1>1, Bounds, FS_Subset
<1>4. born \in Nat /\ born <= Cardinality(S)
  BY Bounds DEF CountInv, TypeOK, HomesAreCounted, NoInst
<1> QED
  BY <1>1, <1>2, <1>3, <1>4, Bounds DEF Inst

\* acquire refuses and the peer is turned away, or it succeeds: one more
\* holder, perhaps one more home.
LEMMA AcquireStep ==
    ASSUME CountInv, NEW c \in Conn, Acquire(c)
    PROVE  CountInv'
<1>1. /\ peer[c] \in PeerRecord /\ peer[c].pc = "hello" /\ ~Started(c)
      /\ peer[c].inst = NoInst /\ peer[c].detach = "idle" /\ ~peer[c].boot
      /\ peer[c].replaced \in Conn \cup {None}
      /\ HomeOf[c] \in HomeId /\ registry \in [HomeId -> Inst \cup {NoInst}]
      /\ born \in Inst \cup {NoInst}
      /\ home \in [Inst -> HomeRecord]
  BY BindingAssumption
     DEF CountInv, TypeOK, HandshakeHoldsNothing, Acquire, At, Started, PeerRecord
<1>2. CASE /\ peer' = [peer EXCEPT ![c].pc = "authfail"] /\ UNCHANGED homeVars
  <2> DEFINE q == [peer[c] EXCEPT !.pc = "authfail"]
  <2>1. /\ q \in PeerRecord /\ Moves(peer[c], q) /\ q.replaced = peer[c].replaced
        /\ q.pc = "authfail"
    BY <1>1, WayOut
  <2>2. peer' = [peer EXCEPT ![c] = q]
    BY <1>2
  <2> HIDE DEF q
  <2>3. PeersMove /\ HomesKeep
    BY <1>2, <2>1, <2>2, OneMoves, Stays DEF homeVars
  <2>4. TypeOK'
    BY <1>2, <2>3 DEF CountInv, TypeOK, PeersMove, Acquire, homeVars, viewVars, serverVars
  <2> QED
    BY <1>2, <2>3, <2>4, MovesKeepCounts DEF CountInv, homeVars
<1>3. CASE ~(/\ peer' = [peer EXCEPT ![c].pc = "authfail"] /\ UNCHANGED homeVars)
  <2> DEFINE id == HomeOf[c]
             known == registry[id] # NoInst
             h == IF known THEN registry[id] ELSE born + 1
             q == [peer[c] EXCEPT !.pc = "activating", !.phase = "Active", !.inst = h]
             r == [home[h] EXCEPT !.id = id, !.refs = @ + 1]
  <2>1. /\ peer' = [peer EXCEPT ![c] = q]
        /\ registry' = [registry EXCEPT ![id] = h]
        /\ home' = [home EXCEPT ![h] = r]
        /\ born' = IF known THEN born ELSE h
        /\ UNCHANGED <<viewVars, serverVars>>
    BY <1>3 DEF Acquire
  <2>2. h \in Inst /\ (~known => h = born + 1)
    BY <1>1, PlaceForHome
  <2>3. born' \in Inst \cup {NoInst} /\ born' \in {born, born + 1}
    BY <1>1, <2>1, <2>2
  <2>4. registry' \in [HomeId -> Inst \cup {NoInst}]
    BY <1>1, <2>1, <2>2
  <2>5. id \in HomeId
    BY <1>1
  <2> HIDE DEF id, known, h
  <2>6. /\ q \in PeerRecord /\ q.pc = "activating" /\ q.inst = h /\ ~q.boot
        /\ q.detach = "idle" /\ q.replaced = peer[c].replaced
    BY <1>1, <2>2 DEF PeerRecord
  <2>7. /\ r \in HomeRecord /\ r.refs = home[h].refs + 1 /\ r.slots = home[h].slots
    <3>1. home[h].refs + 1 \in Nat /\ home[h] \in HomeRecord
      BY <2>2, HomeShape
    <3> QED
      BY <2>5, <3>1 DEF HomeRecord
  <2> HIDE DEF q, r
  <2>8. /\ peer' \in [Conn -> PeerRecord] /\ peer'[c] = q
        /\ \A d \in Conn \ {c} : peer'[d] = peer[d]
    BY <2>1, <2>6, OthersStay
  <2>9. /\ home' \in [Inst -> HomeRecord] /\ home'[h] = r
        /\ \A g \in Inst \ {h} : home'[g] = home[g]
    BY <1>1, <2>1, <2>2, <2>7
  <2>10. TypeOK'
    BY <2>1, <2>3, <2>4, <2>8, <2>9 DEF CountInv, TypeOK, viewVars, serverVars
  <2>11. RefsMatchHolders'
    <3>1. \A g \in Inst : g # h => Holders(g)' = Holders(g)
      BY <1>1, <2>6, <2>8, Bounds DEF Holders
    <3>2. \A g \in Inst : g = h => Holders(g)' = Holders(g) \cup {c} /\ c \notin Holders(g)
      BY <1>1, <2>6, <2>8, Bounds DEF Holders
    <3>3. \A g \in Inst : IsFiniteSet(Holders(g)) /\ home[g].refs = Cardinality(Holders(g))
      BY Bounds DEF Holders, CountInv, RefsMatchHolders
    <3>4. \A g \in Inst : g = h => Cardinality(Holders(g)') = Cardinality(Holders(g)) + 1
      BY <3>2, <3>3, FS_AddElement
    <3>5. \A g \in Inst : home'[g].refs = Cardinality(Holders(g)')
      BY <2>2, <2>7, <2>9, <3>1, <3>3, <3>4
    <3> QED
      BY <3>5 DEF RefsMatchHolders, Holders
  <2>12. \A d \in Conn : (Started(d)' <=> (Started(d) \/ d = c))
    BY <2>6, <2>8 DEF Started
  <2>13. HandshakeHoldsNothing'
    BY <2>6, <2>8 DEF CountInv, HandshakeHoldsNothing, Started
  <2>14. HomesAreReached'
    <3>1. \A d \in Conn : peer'[d].pc \in Inside \/ peer'[d].detach = "release" =>
            peer'[d].inst # NoInst
      BY <2>2, <2>6, <2>8, Bounds DEF CountInv, HomesAreReached
    <3>2. \A d \in Conn : peer'[d].replaced = peer[d].replaced
      BY <2>6, <2>8
    <3>3. \A d \in Conn : peer'[d].replaced # None =>
            peer'[peer'[d].replaced].pc \notin {"new", "hello"}
      <4>1. \A d \in Conn : peer[d].replaced \in Conn \cup {None}
        BY DEF CountInv, TypeOK, PeerRecord
      <4> QED
        BY <2>6, <2>8, <3>2, <4>1 DEF CountInv, HomesAreReached, Started
    <3>4. \A g \in Inst : home'[g].slots = home[g].slots
      BY <2>7, <2>9
    <3>5. \A g \in Inst : \A n \in Name : home'[g].slots[n].conn # None =>
            peer'[home'[g].slots[n].conn].pc \notin {"new", "hello"}
      <4>1. \A g \in Inst : \A n \in Name : home[g].slots[n].conn \in Conn \cup {None}
        BY HomeShape DEF Slot
      <4> QED
        BY <2>6, <2>8, <3>4, <4>1 DEF CountInv, HomesAreReached, Started
    <3> QED
      BY <3>1, <3>3, <3>5 DEF HomesAreReached, Started
  <2>15. HomesAreCounted'
    <3>1. {d \in Conn : Started(d)}' = {d \in Conn : Started(d)} \cup {c}
      BY <2>12
    <3>2. born' <= born + 1 /\ born + 1 \in Nat /\ born' \in Nat
      BY <1>1, <2>3, Bounds DEF NoInst
    <3>3. born + 1 <= Cardinality({d \in Conn : Started(d)} \cup {c})
      BY <1>1, PlaceForHome
    <3>4. Cardinality({d \in Conn : Started(d)} \cup {c}) \in Nat
      BY Bounds
    <3> QED
      BY <3>1, <3>2, <3>3, <3>4 DEF HomesAreCounted
  <2> QED
    BY <2>10, <2>11, <2>13, <2>14, <2>15 DEF CountInv
<1> QED
  BY <1>2, <1>3

\* deleteIfUnusedLocked only takes a home out of the registry.
LEMMA SweepType ==
    ASSUME CountInv, NEW h, NEW r, Sweep(h, r)
    PROVE  registry' \in [HomeId -> Inst \cup {NoInst}]
  BY DEF Sweep, CountInv, TypeOK

\* A step that takes one connection out of a home it no longer refers to.
LEMMA ReleaseStep ==
    ASSUME CountInv, NEW c \in Conn, Release(c)
    PROVE  CountInv'
<1> DEFINE q == [peer[c] EXCEPT !.detach = "done"]
<1>1. /\ peer[c] \in PeerRecord /\ peer[c].detach = "release" /\ peer[c].inst \in Inst
      /\ home \in [Inst -> HomeRecord]
  BY HomeShape DEF CountInv, TypeOK, Release, HomesAreReached
<1>2. PICK h \in Inst : h = peer[c].inst
  BY <1>1
<1> DEFINE r == [home[h] EXCEPT !.refs = @ - 1]
<1>3. /\ peer' = [peer EXCEPT ![c] = q]
      /\ home' = [home EXCEPT ![h] = r]
      /\ UNCHANGED <<viewVars, born, serverVars>>
      /\ registry' \in [HomeId -> Inst \cup {NoInst}]
  BY <1>1, <1>2, SweepType DEF Release
<1>4. /\ q \in PeerRecord /\ q.pc = peer[c].pc /\ q.inst = peer[c].inst
      /\ q.boot = peer[c].boot /\ q.phase = peer[c].phase
      /\ q.detach = "done" /\ q.replaced = peer[c].replaced
  BY <1>1, DetachFields
<1> HIDE DEF q
<1>5. /\ peer' \in [Conn -> PeerRecord] /\ peer'[c] = q
      /\ \A d \in Conn \ {c} : peer'[d] = peer[d]
  BY <1>3, <1>4, OthersStay
<1>6. /\ \A g \in Inst : g # h => Holders(g)' = Holders(g)
      /\ \A g \in Inst : g = h => Holders(g)' = Holders(g) \ {c} /\ c \in Holders(g)
  BY <1>1, <1>2, <1>4, <1>5, Bounds DEF Holders
<1>7. \A g \in Inst : /\ IsFiniteSet(Holders(g)) /\ Cardinality(Holders(g)) \in Nat
                     /\ Cardinality(Holders(g)') \in Nat
                     /\ home[g].refs = Cardinality(Holders(g))
  <2>1. \A g \in Inst : Holders(g) \in SUBSET Conn /\ Holders(g)' \in SUBSET Conn
    BY DEF Holders
  <2> QED
    BY <2>1, Bounds DEF CountInv, RefsMatchHolders, Holders
<1>8. \A g \in Inst : g = h => Cardinality(Holders(g)') = Cardinality(Holders(g)) - 1
  BY <1>6, <1>7, FS_RemoveElement
<1>9. home[h].refs - 1 \in Nat
  BY <1>7, <1>8
<1>10. r \in HomeRecord /\ r.refs = home[h].refs - 1 /\ r.slots = home[h].slots
  BY <1>1, <1>9 DEF HomeRecord
<1> HIDE DEF r
<1>11. /\ home' \in [Inst -> HomeRecord] /\ home'[h] = r
       /\ \A g \in Inst \ {h} : home'[g] = home[g]
  BY <1>1, <1>3, <1>10
<1>12. TypeOK'
  BY <1>3, <1>5, <1>11 DEF CountInv, TypeOK, viewVars, serverVars
<1>13. RefsMatchHolders'
  <2>1. \A g \in Inst : home'[g].refs = Cardinality(Holders(g)')
    BY <1>6, <1>7, <1>8, <1>10, <1>11
  <2> QED
    BY <2>1 DEF RefsMatchHolders, Holders
<1>14. \A d \in Conn :
         /\ peer'[d].pc = peer[d].pc /\ peer'[d].inst = peer[d].inst
         /\ peer'[d].boot = peer[d].boot /\ peer'[d].phase = peer[d].phase
         /\ peer'[d].replaced = peer[d].replaced
         /\ d # c => peer'[d].detach = peer[d].detach
  BY <1>4, <1>5
<1>15. Started(c)
  BY <1>1 DEF CountInv, HandshakeHoldsNothing
<1>16. HandshakeHoldsNothing'
  BY <1>14, <1>15 DEF CountInv, HandshakeHoldsNothing, Started
<1>17. HomesAreReached'
  <2>1. \A g \in Inst : home'[g].slots = home[g].slots
    BY <1>10, <1>11
  <2>2. \A d \in Conn : peer[d].replaced \in Conn \cup {None}
    BY DEF CountInv, TypeOK, PeerRecord
  <2>3. \A g \in Inst : \A n \in Name : home[g].slots[n].conn \in Conn \cup {None}
    BY HomeShape DEF Slot
  <2>4. \A d \in Conn :
          /\ peer'[d].pc \in Inside \/ peer'[d].detach = "release" => peer'[d].inst # NoInst
          /\ peer'[d].replaced # None => peer'[peer'[d].replaced].pc \notin {"new", "hello"}
    BY <1>4, <1>5, <1>14, <2>2 DEF CountInv, HomesAreReached, Started
  <2>5. \A g \in Inst : \A n \in Name : home'[g].slots[n].conn # None =>
          peer'[home'[g].slots[n].conn].pc \notin {"new", "hello"}
    BY <1>14, <2>1, <2>3 DEF CountInv, HomesAreReached, Started
  <2> QED
    BY <2>4, <2>5 DEF HomesAreReached, Started
<1>18. HomesAreCounted'
  <2>1. {d \in Conn : Started(d)}' = {d \in Conn : Started(d)}
    BY <1>14 DEF Started
  <2> QED
    BY <1>3, <2>1 DEF CountInv, HomesAreCounted
<1> QED
  BY <1>12, <1>13, <1>16, <1>17, <1>18 DEF CountInv

\* The end of run forgets a connection that has released its home.
LEMMA ForgetStep ==
    ASSUME CountInv, NEW c \in Conn, Forget(c)
    PROVE  CountInv'
<1> DEFINE q == [NewPeer EXCEPT !.pc = "done", !.detach = "done", !.stopped = TRUE,
                                !.shut = TRUE, !.phase = "Closed",
                                !.drainOnce = peer[c].drainOnce]
<1>1. /\ peer[c] \in PeerRecord /\ peer[c].pc = "exiting" /\ peer[c].detach = "done"
      /\ peer[c].drainOnce \in BOOLEAN
  BY DEF CountInv, TypeOK, Forget, At, PeerRecord
<1>2. /\ peer' = [peer EXCEPT ![c] = q] /\ home' = home
      /\ roster' = [roster EXCEPT ![c] = {}] /\ told' = [told EXCEPT ![c] = {}]
      /\ UNCHANGED <<silent, registry, born, serverVars>>
  BY DEF Forget, homeVars
<1>3. /\ q \in PeerRecord /\ q.pc = "done" /\ q.inst = NoInst /\ q.detach = "done"
      /\ q.replaced = None
  BY <1>1 DEF NewPeer, PeerRecord
<1> HIDE DEF q
<1>4. /\ peer' \in [Conn -> PeerRecord] /\ peer'[c] = q
      /\ \A d \in Conn \ {c} : peer'[d] = peer[d]
  BY <1>2, <1>3, OthersStay
<1>5. TypeOK'
  BY <1>2, <1>4 DEF CountInv, TypeOK, serverVars
<1>6. RefsMatchHolders'
  <2>1. \A g \in Inst : Holders(g)' = Holders(g)
    BY <1>1, <1>3, <1>4 DEF Holders
  <2> QED
    BY <1>2, <2>1 DEF CountInv, RefsMatchHolders, Holders
<1>7. \A d \in Conn : Started(d)' <=> Started(d)
  BY <1>1, <1>3, <1>4 DEF Started
<1>8. HandshakeHoldsNothing'
  BY <1>3, <1>4 DEF CountInv, HandshakeHoldsNothing, Started
<1>9. HomesAreReached'
  <2>1. \A d \in Conn : peer[d].replaced \in Conn \cup {None}
    BY DEF CountInv, TypeOK, PeerRecord
  <2>2. \A g \in Inst : \A n \in Name : home[g].slots[n].conn \in Conn \cup {None}
    BY HomeShape DEF Slot
  <2>3. \A d \in Conn :
          /\ peer'[d].pc \in Inside \/ peer'[d].detach = "release" => peer'[d].inst # NoInst
          /\ peer'[d].replaced # None => peer'[peer'[d].replaced].pc \notin {"new", "hello"}
    BY <1>3, <1>4, <2>1 DEF CountInv, HomesAreReached, Started, Inside
  <2>4. \A g \in Inst : \A n \in Name : home'[g].slots[n].conn # None =>
          peer'[home'[g].slots[n].conn].pc \notin {"new", "hello"}
    BY <1>2, <1>3, <1>4, <2>2 DEF CountInv, HomesAreReached, Started
  <2> QED
    BY <2>3, <2>4 DEF HomesAreReached, Started
<1>10. HomesAreCounted'
  <2>1. {d \in Conn : Started(d)}' = {d \in Conn : Started(d)}
    BY <1>7
  <2> QED
    BY <1>2, <2>1 DEF CountInv, HomesAreCounted
<1> QED
  BY <1>5, <1>6, <1>8, <1>9, <1>10 DEF CountInv

\* What users and coordinators are told when the home of a peer changes.
LEMMA PeerHomeViews ==
    ASSUME CountInv, NEW c \in Conn, AttachPublish(c) \/ Declare(c) \/ DetachHome(c)
    PROVE  /\ roster' \in [Conn -> SUBSET Conn]
           /\ told' \in [Conn -> SUBSET (Name \X Nat \X {1, 2})]
           /\ silent' \subseteq Inst
<1> DEFINE h == peer[c].inst
<1>1. /\ roster \in [Conn -> SUBSET Conn] /\ silent \subseteq Inst
      /\ told \in [Conn -> SUBSET (Name \X Nat \X {1, 2})]
  BY DEF CountInv, TypeOK
<1>2. /\ h \in Inst /\ home[h].slots \in [Name -> Slot]
      /\ NameOf[c] \in Name /\ NoSlot \in Slot /\ peer[c].gen \in Nat
  BY HomeShape, BindingAssumption
     DEF CountInv, TypeOK, HomeRecord, PeerRecord, AttachPublish, Declare, DetachHome, At, Inside
<1> HIDE DEF h
<1>3. CASE AttachPublish(c)
  <2>1. Announce(c, h) \in [Conn -> SUBSET Conn]
    BY <1>1 DEF Announce
  <2>2. Broadcast(h, home[h].slots) \in [Conn -> SUBSET (Name \X Nat \X {1, 2})]
    BY <1>2, BroadcastType
  <2> QED
    BY <1>1, <1>3, <2>1, <2>2 DEF AttachPublish, h
<1>4. CASE Declare(c)
  <2> DEFINE S == [home[h].slots EXCEPT ![NameOf[c]].ready = TRUE,
                                        ![NameOf[c]].decl = peer[c].gen]
  <2>1. S \in [Name -> Slot]
    BY <1>2 DEF Slot
  <2>2. told' = Broadcast(h, S) /\ UNCHANGED <<roster, silent>>
    BY <1>4 DEF Declare, h
  <2> HIDE DEF S
  <2> QED
    BY <1>1, <2>1, <2>2, BroadcastType
<1>5. CASE DetachHome(c)
  <2> DEFINE S == [home[h].slots EXCEPT ![NameOf[c]] = SlotAfterDetach(c, h, @)]
  <2>1. S \in [Name -> Slot]
    <3>1. \A m \in Name : Retain(home[h].slots[m]) \in Slot
      BY <1>2 DEF Slot, Retain
    <3> QED
      BY <1>2, <3>1 DEF SlotAfterDetach
  <2>2. /\ told' = told \/ told' = Broadcast(h, S)
        /\ silent' = silent \/ silent' = silent \cup {h}
        /\ roster' = roster
              \/ roster' = [k \in Conn |-> IF k \in Watchers(h) THEN roster[k] \ {c} ELSE roster[k]]
    BY <1>5 DEF DetachHome, DetachUser, DetachCoordinator, h, viewVars
  <2>3. [k \in Conn |-> IF k \in Watchers(h) THEN roster[k] \ {c} ELSE roster[k]]
          \in [Conn -> SUBSET Conn]
    BY <1>1
  <2> HIDE DEF S
  <2> QED
    BY <1>1, <1>2, <2>1, <2>2, <2>3, BroadcastType
<1> QED
  BY <1>3, <1>4, <1>5

\* The views, the registry and the server's lists after a timer or home.close.
LEMMA TimerViews ==
    ASSUME CountInv, NEW h \in Inst,
           \/ \E n \in Name : GraceFires(h, n)
           \/ \E e \in home[h].fired : ExpireCoordinator(h, e[1], e[2])
           \/ SweepHome(h) \/ CloseHome(h)
    PROVE  /\ told' \in [Conn -> SUBSET (Name \X Nat \X {1, 2})]
           /\ registry' \in [HomeId -> Inst \cup {NoInst}]
           /\ closeList' \subseteq Inst /\ stopList' \subseteq Conn
           /\ UNCHANGED <<peer, roster, silent, born, closed, draining, drainTargets, window>>
<1>1. /\ told \in [Conn -> SUBSET (Name \X Nat \X {1, 2})]
      /\ registry \in [HomeId -> Inst \cup {NoInst}]
      /\ closeList \subseteq Inst /\ stopList \subseteq Conn
      /\ home[h] \in HomeRecord /\ home[h].members \subseteq Conn
      /\ home[h].slots \in [Name -> Slot] /\ NoSlot \in Slot
  BY HomeShape DEF CountInv, TypeOK, HomeRecord
<1>2. \A m : [home[h].slots EXCEPT ![m] = NoSlot] \in [Name -> Slot]
  BY <1>1
<1>3. CASE \E n \in Name : GraceFires(h, n)
  BY <1>1, <1>3 DEF GraceFires, viewVars, serverVars
<1>4. CASE \E e \in home[h].fired : ExpireCoordinator(h, e[1], e[2])
  <2>1. PICK e \in home[h].fired : ExpireCoordinator(h, e[1], e[2])
    BY <1>4
  <2> DEFINE S == [home[h].slots EXCEPT ![e[1]] = NoSlot]
  <2>2. /\ told' = told \/ told' = Broadcast(h, S)
        /\ UNCHANGED <<peer, roster, silent, registry, born, serverVars>>
    BY <2>1 DEF ExpireCoordinator
  <2>3. S \in [Name -> Slot]
    BY <1>2
  <2> HIDE DEF S
  <2> QED
    BY <1>1, <2>2, <2>3, BroadcastType DEF serverVars
<1>5. CASE SweepHome(h)
  BY <1>1, <1>5, SweepType DEF SweepHome, viewVars, serverVars
<1>6. CASE CloseHome(h)
  BY <1>1, <1>6 DEF CloseHome, viewVars
<1> QED
  BY <1>3, <1>4, <1>5, <1>6

----------------------------------------------------------------------------
\* Every step

\* The steps that neither acquire, release nor forget: peers move, homes keep.
LEMMA OtherStepsMove ==
    ASSUME CountInv, Next, \A c \in Conn : ~Acquire(c) /\ ~Release(c) /\ ~Forget(c)
    PROVE  PeersMove /\ HomesKeep /\ TypeOK' /\ born' = born
<1> USE DEF homeVars, viewVars, serverVars
<1>0. TypeOK
  BY DEF CountInv
<1>1. ASSUME NEW c \in Conn,
             \/ HelloTimesOut(c) \/ HelloRejected(c) \/ RefuseAttach(c)
             \/ AuthenticationFails(c) \/ PeerLeaves(c) \/ ReadCancelled(c)
             \/ PeerFatal(c) \/ DeclareFenced(c)
      PROVE  PeersMove /\ HomesKeep /\ TypeOK' /\ born' = born
  <2>1. UNCHANGED <<viewVars, homeVars, serverVars>>
    BY <1>1 DEF HelloTimesOut, HelloRejected, RefuseAttach, AuthenticationFails,
                PeerLeaves, ReadCancelled, PeerFatal, DeclareFenced
  <2>2. PeersMove
    BY <1>1, LeavingSteps
  <2> QED
    BY <1>0, <2>1, <2>2, Stays DEF TypeOK, PeersMove
<1>2. ASSUME NEW c \in Conn, Track(c) \/ HandleDeclaration(c)
      PROVE  PeersMove /\ HomesKeep /\ TypeOK' /\ born' = born
  BY <1>0, <1>2, AdvancingSteps, Stays DEF TypeOK, PeersMove, Track, HandleDeclaration
<1>3. ASSUME NEW c \in Conn, AsyncFail(c) \/ WriteFatal(c) \/ TransportLost(c) \/ StopShuts(c)
      PROVE  PeersMove /\ HomesKeep /\ TypeOK' /\ born' = born
  BY <1>0, <1>3, OutsideSteps, Stays DEF TypeOK, PeersMove, AsyncFail, WriteFatal, TransportLost, StopShuts
<1>4. ASSUME NEW c \in Conn, StopOne(c)
      PROVE  PeersMove /\ HomesKeep /\ TypeOK' /\ born' = born
  BY <1>0, <1>4, OutsideSteps, Stays DEF TypeOK, PeersMove, StopOne
<1>5. ASSUME NEW c \in Conn, DrainOne(c)
      PROVE  PeersMove /\ HomesKeep /\ TypeOK' /\ born' = born
  BY <1>0, <1>5, DrainSteps, Stays DEF TypeOK, PeersMove, DrainOne
<1>6. ASSUME NEW c \in Conn, Arrive(c)
      PROVE  PeersMove /\ HomesKeep /\ TypeOK' /\ born' = born
  BY <1>0, <1>6, ArriveStep, Stays DEF TypeOK, PeersMove, Arrive
<1>7. ASSUME NEW c \in Conn, FailReplaced(c)
      PROVE  PeersMove /\ HomesKeep /\ TypeOK' /\ born' = born
  BY <1>0, <1>7, FailReplacedStep, Stays DEF TypeOK, PeersMove, FailReplaced
<1>8. ASSUME NEW c \in Conn, DetachNothing(c)
      PROVE  PeersMove /\ HomesKeep /\ TypeOK' /\ born' = born
  BY <1>0, <1>8, DetachSteps, Stays DEF TypeOK, PeersMove, DetachNothing
<1>9. ASSUME NEW c \in Conn, AttachInsert(c)
      PROVE  PeersMove /\ HomesKeep /\ TypeOK' /\ born' = born
  BY <1>0, <1>9, InsertStep DEF TypeOK, PeersMove, HomesKeep, AttachInsert
<1>10. ASSUME NEW c \in Conn, AttachPublish(c) \/ Declare(c) \/ DetachHome(c)
       PROVE  PeersMove /\ HomesKeep /\ TypeOK' /\ born' = born
  <2>1. PeersMove /\ HomesKeep
    <3>1. CASE Declare(c)
      <4>1. /\ peer[c] \in PeerRecord /\ peer[c].pc = "handling"
            /\ peer' = [peer EXCEPT ![c] = [peer[c] EXCEPT !.pc = "serving"]]
        BY <1>0, <3>1 DEF TypeOK, Declare, At
      <4> DEFINE q == [peer[c] EXCEPT !.pc = "serving"]
      <4>2. /\ q \in PeerRecord /\ q.pc = "serving" /\ q.inst = peer[c].inst
            /\ q.gen = peer[c].gen /\ q.drainOnce = peer[c].drainOnce
            /\ q.boot = peer[c].boot /\ q.stopped = peer[c].stopped
            /\ q.phase = peer[c].phase /\ q.detach = peer[c].detach
            /\ q.replaced = peer[c].replaced
        BY <4>1, PlaceFields, ZenonT(40) DEF Place
      <4> HIDE DEF q
      <4>3. Moves(peer[c], q)
        BY <4>1, <4>2 DEF Moves, Inside, Served
      <4> QED
        BY <3>1, <4>1, <4>2, <4>3, OneMoves, PeerHomeSteps DEF q
    <3> QED
      BY <1>10, <3>1, PublishStep, DetachSteps, PeerHomeSteps
  <2>2. /\ roster' \in [Conn -> SUBSET Conn]
        /\ told' \in [Conn -> SUBSET (Name \X Nat \X {1, 2})]
        /\ silent' \subseteq Inst
    BY <1>0, <1>10, PeerHomeViews
  <2> QED
    BY <1>0, <1>10, <2>1, <2>2
       DEF TypeOK, PeersMove, HomesKeep, AttachPublish, Declare, DetachHome
<1>11. ASSUME NEW h \in Inst,
              \/ \E n \in Name : GraceFires(h, n)
              \/ \E e \in home[h].fired : ExpireCoordinator(h, e[1], e[2])
              \/ SweepHome(h) \/ CloseHome(h)
       PROVE  PeersMove /\ HomesKeep /\ TypeOK' /\ born' = born
  BY <1>0, <1>11, TimerSteps, TimerViews, Stays DEF TypeOK, HomesKeep
<1>12. ASSUME Drain \/ Close \/ DrainDeadline \/ Terminated
       PROVE  PeersMove /\ HomesKeep /\ TypeOK' /\ born' = born
  BY <1>0, <1>12, Stays, ZenonT(40)
     DEF TypeOK, Drain, Close, DrainDeadline, Terminated, vars, Live, Remaining
<1> QED
  BY <1>1, <1>2, <1>3, <1>4, <1>5, <1>6, <1>7, <1>8, <1>9, <1>10, <1>11, <1>12
     DEF Next, Goroutine, Background, Peer, Timers, Cleanup

LEMMA NextKeepsCounts ==
    ASSUME CountInv, [Next]_vars
    PROVE  CountInv'
<1>1. ASSUME NEW c \in Conn, Acquire(c) \/ Release(c) \/ Forget(c)
      PROVE  CountInv'
  BY <1>1, AcquireStep, ReleaseStep, ForgetStep
<1>2. CASE Next /\ \A c \in Conn : ~Acquire(c) /\ ~Release(c) /\ ~Forget(c)
  BY <1>2, OtherStepsMove, MovesKeepCounts DEF CountInv
<1>3. CASE UNCHANGED vars
  BY <1>3, Stays, MovesKeepCounts
     DEF CountInv, TypeOK, vars, viewVars, homeVars, serverVars
<1> QED
  BY <1>1, <1>2, <1>3

LEMMA InitCounts == Init => CountInv
<1> SUFFICES ASSUME Init
             PROVE  CountInv
  OBVIOUS
<1>1. \A c \in Conn :
        /\ peer[c] = NewPeer /\ peer[c].pc = "new" /\ peer[c].inst = NoInst /\ ~peer[c].boot
        /\ peer[c].detach = "idle" /\ peer[c].phase = "AwaitHello" /\ peer[c].replaced = None
  BY DEF Init, NewPeer
<1>2. \A h \in Inst : home[h].refs = 0 /\ \A n \in Name : home[h].slots[n].conn = None
  BY DEF Init, NewHome, NoSlot
<1>3. NewPeer \in PeerRecord
  BY DEF NewPeer, PeerRecord
<1>4. NewHome \in HomeRecord
  BY DEF NewHome, HomeRecord, NoSlot, Slot
<1>5. TypeOK
  BY <1>3, <1>4 DEF Init, TypeOK
<1>6. RefsMatchHolders
  <2>1. \A h \in Inst : {c \in Conn : peer[c].inst = h /\ peer[c].detach # "done"} = {}
    BY <1>1, Bounds
  <2> QED
    BY <1>2, <2>1, FS_EmptySet DEF RefsMatchHolders
<1>7. HandshakeHoldsNothing /\ HomesAreReached
  BY <1>1, <1>2 DEF HandshakeHoldsNothing, HomesAreReached, Inside, Started
<1>8. HomesAreCounted
  <2>1. {c \in Conn : Started(c)} = {}
    BY <1>1 DEF Started
  <2> QED
    BY <2>1, FS_EmptySet DEF Init, HomesAreCounted, NoInst
<1> QED
  BY <1>5, <1>6, <1>7, <1>8 DEF CountInv

\* Server, connection and home keep the shape that HomeLifecycle gives them,
\* and with it the program counters and homes that the steps rely on: no
\* fault, no drain and no shutdown leads outside.
THEOREM LifecycleCounts == Spec => []CountInv
<1>1. Init => CountInv
  BY InitCounts
<1>2. CountInv /\ [Next]_vars => CountInv'
  BY NextKeepsCounts
<1> QED
  BY <1>1, <1>2, PTL DEF Spec

\* homeRegistry.acquire and release: the count of a home is the number of
\* connections that acquired it and have not released it, for any number of
\* connections and homes, in every interleaving of fail, detach and attach.
THEOREM RefsAreHolders == Spec => []RefsMatchHolders
<1>1. CountInv => RefsMatchHolders
  BY DEF CountInv
<1> QED
  BY <1>1, LifecycleCounts, PTL
==============================================================================
