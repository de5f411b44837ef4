--------------------------- MODULE HomeLifecycle ---------------------------
(***************************************************************************)
(* The life of a relay connection and of the home it joins: admission into *)
(* the server's live set, the HELLO handshake, the registry's reference    *)
(* counts, attach and detach under the home lock, coordinator slots with   *)
(* their generations and grace timers, presence and coordinator status as  *)
(* the peers see them, failure and stop, the drain window, and shutdown.   *)
(*                                                                         *)
(* Sources: internal/relay/server.go, connection.go and home.go.           *)
(*                                                                         *)
(* Every connection is a goroutine with a program counter (pc).  Its       *)
(* writer, timers, the `go detach()` of fail, Drain, the drain deadline    *)
(* and Close run beside it.  home.mu is the field lock: attach holds it    *)
(* over two steps, because stop, fail and startDraining change a peer's    *)
(* phase without it; every other critical section is one action.           *)
(***************************************************************************)
EXTENDS Naturals, FiniteSets

CONSTANTS
    Conn,             \* the connections that arrive, each used once
    RoleOf,           \* [Conn -> Role], the authenticated role
    NameOf,           \* [Conn -> Name], a coordinator's slot name
    HomeOf,           \* [Conn -> HomeId], the home the token is bound to
    HomeId, Name,
    None,             \* no connection, no home id
    MaxHomes,         \* config.MaxHomes
    MaxPresence,      \* maxPresenceEntries
    MaxCoordinators,  \* maxCoordinatorsPerHome
    Faults,           \* what may go wrong while a peer joins: "timeout" (no
                      \* HELLO), "rejected" (HELLO is not accepted), "slow" (a
                      \* frame does not fit its queue), "expired" (the token),
                      \* "lost" (the transport)
    Drains,           \* whether Server.Drain is called
    Closes            \* whether Server.Close is called

Role == {"user", "coordinator", "cli"}

ASSUME ConnAssumption == IsFiniteSet(Conn) /\ None \notin Conn /\ None \notin HomeId
ASSUME BindingAssumption ==
    /\ RoleOf \in [Conn -> Role]
    /\ NameOf \in [Conn -> Name]
    /\ HomeOf \in [Conn -> HomeId]
ASSUME LimitAssumption ==
    MaxHomes \in Nat /\ MaxPresence \in Nat /\ MaxCoordinators \in Nat
ASSUME EnvironmentAssumption ==
    /\ Faults \subseteq {"timeout", "rejected", "slow", "expired", "lost"}
    /\ Drains \in BOOLEAN /\ Closes \in BOOLEAN

\* Home objects in order of creation: one acquire creates at most one.
Inst == 1 .. Cardinality(Conn)
NoInst == 0

VARIABLES
    peer,          \* [Conn -> PeerRecord], struct connection
    roster,        \* a coordinator's presence list, once its queue is read
    told,          \* a user's coordinator list, once its queue is read
    home,          \* [Inst -> HomeRecord], struct home
    registry,      \* homeRegistry.homes
    born,          \* home objects created so far
    closed,        \* Server.closed, the cancelled context, registry.closed
    closeList,     \* homes Close still has to close
    stopList,      \* connections somebody is about to stop
    draining,      \* Server.draining
    drainTargets,  \* connections Drain's loop still has to visit
    window,        \* the drain window: "none", "open", "ended"
    silent         \* history: homes where detach dropped a slot unannounced

viewVars == <<roster, told, silent>>
homeVars == <<home, registry, born>>
serverVars == <<closed, closeList, stopList, draining, drainTargets, window>>
vars == <<peer, viewVars, homeVars, serverVars>>

----------------------------------------------------------------------------
\* State shapes

\* decl is the generation whose connection declared slot.active (0 = nil);
\* a slot with gen 0 does not exist.
Slot == [gen : Nat, conn : Conn \cup {None}, ready : BOOLEAN, decl : Nat,
         grace : {"none", "armed", "fired"}]
NoSlot == [gen |-> 0, conn |-> None, ready |-> FALSE, decl |-> 0, grace |-> "none"]

\* stopped, failed and drainOnce are the sync.Once of stop, fail, startDraining;
\* shut: stop has also cancelled the context and closed the queue; detach is
\* where detachOnce is; replaced is the peer attach has yet to fail.
PeerRecord ==
    [pc : {"new", "hello", "activating", "publishing", "replacing", "arriving", "authfail",
           "serving", "handling", "exiting", "done"},
     phase : {"AwaitHello", "Active", "Draining", "Closed"},
     inst : Inst \cup {NoInst}, boot : BOOLEAN, gen : Nat,
     stopped : BOOLEAN, shut : BOOLEAN, failed : BOOLEAN, drainOnce : BOOLEAN,
     detach : {"idle", "spawned", "release", "done"}, replaced : Conn \cup {None}]

NewPeer ==
    [pc |-> "new", phase |-> "AwaitHello", inst |-> NoInst, boot |-> FALSE, gen |-> 0,
     stopped |-> FALSE, shut |-> FALSE, failed |-> FALSE, drainOnce |-> FALSE,
     detach |-> "idle", replaced |-> None]

\* fired holds the grace timers whose callback waits for the lock; sweep says
\* that a deleteIfUnused call is pending.
HomeRecord ==
    [id : HomeId \cup {None}, lock : Conn \cup {None}, refs : Nat, closed : BOOLEAN,
     members : SUBSET Conn, slots : [Name -> Slot], fired : SUBSET (Name \X Nat),
     sweep : BOOLEAN]

NewHome ==
    [id |-> None, lock |-> None, refs |-> 0, closed |-> FALSE, members |-> {},
     slots |-> [n \in Name |-> NoSlot], fired |-> {}, sweep |-> FALSE]

\* The shape of the state: field types of connection, home and registry.
TypeOK ==
    /\ peer \in [Conn -> PeerRecord]
    /\ roster \in [Conn -> SUBSET Conn]
    /\ told \in [Conn -> SUBSET (Name \X Nat \X {1, 2})]
    /\ home \in [Inst -> HomeRecord]
    /\ registry \in [HomeId -> Inst \cup {NoInst}]
    /\ born \in Inst \cup {NoInst}
    /\ closed \in BOOLEAN /\ draining \in BOOLEAN
    /\ closeList \subseteq Inst /\ silent \subseteq Inst
    /\ stopList \subseteq Conn /\ drainTargets \subseteq Conn
    /\ window \in {"none", "open", "ended"}

Init ==
    /\ peer = [c \in Conn |-> NewPeer]
    /\ roster = [c \in Conn |-> {}]
    /\ told = [c \in Conn |-> {}]
    /\ home = [h \in Inst |-> NewHome]
    /\ registry = [i \in HomeId |-> NoInst]
    /\ born = NoInst
    /\ closed = FALSE /\ closeList = {} /\ stopList = {}
    /\ draining = FALSE /\ drainTargets = {} /\ window = "none"
    /\ silent = {}

----------------------------------------------------------------------------
\* The predicates the code tests

Present(S) == {n \in Name : S[n].gen > 0}

At(c, p) == peer[c].pc = p
Free(h) == home[h].lock = None

\* connection.available
Available(c) == peer[c].boot /\ peer[c].phase = "Active"

\* enqueueBytes refuses a queue that is closed or already ends in FATAL.
CanEnqueue(p) == ~p.shut /\ ~p.failed

Live == {c \in Conn : peer[c].pc \notin {"new", "done"}}

UsersOf(h) == {c \in home[h].members : RoleOf[c] = "user"}

\* presenceSnapshotLocked
VisibleUsers(h) == {u \in UsersOf(h) : peer[u].boot}

\* activeCoordinatorLocked(peer, false)
Fenced(c, S) == S[NameOf[c]].conn = c /\ S[NameOf[c]].gen = peer[c].gen

\* coordinatorStatusIncludingLocked
Status(S, extra) ==
    LET online(n) == S[n].conn # None /\ (S[n].conn = extra \/ Available(S[n].conn))
        listed(n) == online(n) \/ S[n].conn = None \/ S[n].decl # 0
    IN  {<<n, S[n].gen, IF online(n) THEN 1 ELSE 2>> : n \in {m \in Present(S) : listed(m)}}

\* Mutant: nobody is told that the last coordinator is gone.
BroadcastPresent(h, S) ==
    [u \in Conn |-> IF u \in UsersOf(h) /\ Available(u) /\ Present(S) # {}
                      THEN Status(S, None) ELSE told[u]]

\* homeStatusActionsLocked: what every user has been told after the dispatch.
Broadcast(h, S) ==
    [u \in Conn |-> IF u \in UsersOf(h) /\ Available(u) THEN Status(S, None) ELSE told[u]]

\* presenceActionsLocked: the coordinators that are sent a change.
Watchers(h) == {k \in Conn : \E n \in Name : home[h].slots[n].conn = k /\ Available(k)}

\* Mutant: detach runs again after it has run.
SpawnAgain(p) == p.detach # "spawned"

\* detachOnce
SpawnOnce(p) == p.detach = "idle"

\* connection.fail: fatalOnce, phase, `go detach()`, FATAL queued.
Fail(p) ==
    IF p.failed THEN p
    ELSE [p EXCEPT !.failed = TRUE, !.phase = "Closed",
                   !.detach = IF SpawnOnce(p) THEN "spawned" ELSE @]

\* authenticate has yet to store phaseActive, or to queue the bootstrap.
Joining(p) == p.pc \in {"hello", "activating"}

\* connection.stop: closeOnce and the phase.  Cancelling the context and closing
\* the queue takes leaseMu and queueMu, so a peer that is still joining meets
\* that later (StopShuts).  Past the bootstrap nothing makes a Closed peer
\* Active, and nobody can tell when its queue is closed.
Stop(p) ==
    IF p.stopped THEN p
    ELSE [p EXCEPT !.stopped = TRUE, !.phase = "Closed", !.shut = ~Joining(p)]

\* Mutant: the phase is taken for the context.
CancelledByPhase(c) == peer[c].phase = "Closed" \/ closed

\* connection.context is done: stop has cancelled it, or Close the server's.
Cancelled(c) == peer[c].shut \/ closed

----------------------------------------------------------------------------
\* The connection goroutine: serveWebSocket, run and authenticate

\* trackConnection, then run starts waiting for HELLO.
Track(c) ==
    /\ At(c, "new") /\ closeList = {}
    /\ peer' = [peer EXCEPT ![c].pc = IF closed THEN "done" ELSE "hello"]
    /\ UNCHANGED <<viewVars, homeVars, serverVars>>

\* No HELLO in time, or the context is cancelled.
HelloTimesOut(c) ==
    /\ At(c, "hello") /\ ("timeout" \in Faults \/ Cancelled(c))
    /\ peer' = [peer EXCEPT ![c] = [Stop(@) EXCEPT !.shut = TRUE, !.pc = "exiting"]]
    /\ UNCHANGED <<viewVars, homeVars, serverVars>>

\* Malformed HELLO, unsupported version, or a token the verifier rejects.
HelloRejected(c) ==
    /\ At(c, "hello") /\ "rejected" \in Faults
    /\ peer' = [peer EXCEPT ![c] = [Fail(@) EXCEPT !.pc = "exiting"]]
    /\ UNCHANGED <<viewVars, homeVars, serverVars>>

\* The token is verified: homeRegistry.acquire.  authenticate then stores
\* phaseActive, whatever the phase has become, before it attaches.
Acquire(c) ==
    LET id == HomeOf[c]
        known == registry[id] # NoInst
        full == Cardinality({i \in HomeId : registry[i] # NoInst}) >= MaxHomes
        h == IF known THEN registry[id] ELSE born + 1
    IN  /\ At(c, "hello")
        /\ IF closed \/ (~known /\ full)
             THEN /\ peer' = [peer EXCEPT ![c].pc = "authfail"]
                  /\ UNCHANGED homeVars
             ELSE /\ peer' = [peer EXCEPT ![c].pc = "activating", ![c].phase = "Active",
                                          ![c].inst = h]
                  /\ registry' = [registry EXCEPT ![id] = h]
                  /\ home' = [home EXCEPT ![h].id = id, ![h].refs = @ + 1]
                  /\ born' = IF known THEN born ELSE h
        /\ UNCHANGED <<viewVars, serverVars>>

AttachRefused(c, h) ==
    \/ home[h].closed
    \/ RoleOf[c] = "user" /\ Cardinality(UsersOf(h)) >= MaxPresence
    \/ /\ RoleOf[c] = "coordinator"
       /\ NameOf[c] \notin Present(home[h].slots)
       /\ Cardinality(Present(home[h].slots)) >= MaxCoordinators

\* home.attach returns a failure before it changes the home.
RefuseAttach(c) ==
    /\ At(c, "activating") /\ Free(peer[c].inst)
    /\ AttachRefused(c, peer[c].inst)
    /\ peer' = [peer EXCEPT ![c].pc = "authfail"]
    /\ UNCHANGED <<viewVars, homeVars, serverVars>>

\* Mutant: a WELCOME that could not be queued goes unnoticed.
BootOutcomesUnchecked(p) == {"ok"} \cup (Faults \cap {"slow", "expired"})

\* How the bootstrap ends: the lease is installed, a frame does not fit, or
\* the token has expired by now.
BootOutcomes(p) ==
    IF CanEnqueue(p) THEN {"ok"} \cup (Faults \cap {"slow", "expired"}) ELSE {"slow"}

Booted(p, outcome) ==
    LET q == [p EXCEPT !.pc = "publishing", !.boot = outcome = "ok"]
    IN  IF outcome = "slow" THEN Fail(q) ELSE q

\* Mutant: a live connection is replaced within its generation.
TakeOverInPlace(s, c) ==
    [s EXCEPT !.gen = IF s.conn = None THEN @ + 1 ELSE @, !.conn = c, !.ready = FALSE,
              !.grace = "none"]

\* attach: stop the grace timer, next generation, not ready.
TakeOver(s, c) == [s EXCEPT !.gen = @ + 1, !.conn = c, !.ready = FALSE, !.grace = "none"]

\* Mutant: only a coordinator that had declared is failed.
ReplacedIfReady(s) == IF s.ready THEN s.conn ELSE None

\* attach: the connection that held the slot.
Replaced(s) == s.conn

\* home.attach under home.mu, up to activateInitialLease.
AttachInsert(c) ==
    LET h == peer[c].inst
        S == home[h].slots
        slot == S[NameOf[c]]
        taken == [peer[c] EXCEPT !.gen = slot.gen + 1, !.replaced = Replaced(slot)]
        joined == [home[h] EXCEPT !.lock = c, !.members = @ \cup {c}]
    IN  /\ At(c, "activating") /\ Free(h)
        /\ ~AttachRefused(c, h)
        /\ \E outcome \in BootOutcomes(peer[c]) :
             IF RoleOf[c] = "coordinator"
               THEN /\ peer' = [peer EXCEPT ![c] = Booted(taken, outcome)]
                    /\ home' = [home EXCEPT ![h] =
                                  [joined EXCEPT !.slots[NameOf[c]] = TakeOver(slot, c)]]
                    /\ roster' = [roster EXCEPT ![c] = VisibleUsers(h)]
                    /\ UNCHANGED told
               ELSE /\ peer' = [peer EXCEPT ![c] = Booted(peer[c], outcome)]
                    /\ home' = [home EXCEPT ![h] = joined]
                    /\ told' = [told EXCEPT ![c] = IF RoleOf[c] = "user" THEN Status(S, c)
                                                                        ELSE @]
                    /\ UNCHANGED roster
        /\ UNCHANGED <<silent, registry, born, serverVars>>

\* Mutant: only the coordinators that have declared are told.
AnnounceToReady(c, h) ==
    [k \in Conn |-> IF k \in Watchers(h) /\ home[h].slots[NameOf[k]].ready
                      THEN roster[k] \cup {c} ELSE roster[k]]

\* PRESENCE_CHANGE connect reaches every available coordinator.
Announce(c, h) ==
    [k \in Conn |-> IF k \in Watchers(h) THEN roster[k] \cup {c} ELSE roster[k]]

AfterAttach(p) == IF p.boot THEN "arriving" ELSE "authfail"

\* The rest of attach: announce the peer if it is available, release the lock.
AttachPublish(c) ==
    LET h == peer[c].inst
    IN  /\ At(c, "publishing")
        /\ roster' = IF Available(c) /\ RoleOf[c] = "user" THEN Announce(c, h) ELSE roster
        /\ told' = IF Available(c) /\ RoleOf[c] = "coordinator"
                     THEN Broadcast(h, home[h].slots) ELSE told
        /\ home' = [home EXCEPT ![h].lock = None]
        /\ peer' = [peer EXCEPT ![c].pc = IF peer[c].replaced = None THEN AfterAttach(peer[c])
                                                                    ELSE "replacing"]
        /\ UNCHANGED <<silent, registry, born, serverVars>>

\* attach, after the unlock: the coordinator that held the slot is failed.
FailReplaced(c) ==
    /\ At(c, "replacing")
    /\ peer' = [peer EXCEPT ![peer[c].replaced] = Fail(@),
                            ![c].replaced = None, ![c].pc = AfterAttach(peer[c])]
    /\ UNCHANGED <<viewVars, homeVars, serverVars>>

\* run: authenticate returned a failure.
AuthenticationFails(c) ==
    /\ At(c, "authfail")
    /\ peer' = [peer EXCEPT ![c] = [Fail(@) EXCEPT !.pc = "exiting"]]
    /\ UNCHANGED <<viewVars, homeVars, serverVars>>

----------------------------------------------------------------------------
\* The drain window: Server.Drain and connection.startDraining

\* startDraining: drainOnce, the phase test, GOAWAY, then the new phase; a
\* GOAWAY that cannot be queued fails the peer.
StartDraining(p) ==
    LET q == [p EXCEPT !.drainOnce = TRUE]
        announced == [q EXCEPT !.phase = "Draining"]
    IN  IF p.drainOnce THEN {p}
        ELSE IF p.phase # "Active" THEN {q}
        ELSE IF ~CanEnqueue(p) THEN {Fail(q)}
        ELSE {announced} \cup (IF "slow" \in Faults THEN {Fail(q)} ELSE {})

\* The end of authenticate: a peer that arrives in the window is told.
TellArrival(p) == IF draining THEN StartDraining(p) ELSE {p}

Arrive(c) ==
    /\ At(c, "arriving") /\ closeList = {}
    /\ \E p \in TellArrival(peer[c]) : peer' = [peer EXCEPT ![c] = [p EXCEPT !.pc = "serving"]]
    /\ UNCHANGED <<viewVars, homeVars, serverVars>>

\* Server.Drain: the flag and the live connections under lifecycleMu.
Drain ==
    /\ Drains /\ ~closed /\ ~draining
    /\ draining' = TRUE
    /\ drainTargets' = Live
    /\ window' = "open"
    /\ UNCHANGED <<peer, viewVars, homeVars, closed, closeList, stopList>>

\* One turn of Drain's loop over the connections it collected.
DrainOne(c) ==
    /\ c \in drainTargets
    /\ drainTargets' = drainTargets \ {c}
    /\ \E p \in StartDraining(peer[c]) : peer' = [peer EXCEPT ![c] = p]
    /\ UNCHANGED <<viewVars, homeVars, closed, closeList, stopList, draining, window>>

\* Mutant: the deadline only collects the peers startDraining has seen.
RemainingDrained == {c \in Live : peer[c].drainOnce}

\* The connections the drain deadline collects.
Remaining == Live

\* The window closes: collect the live connections, or return if closed.
DrainDeadline ==
    /\ window = "open" /\ drainTargets = {} /\ closeList = {}
    /\ window' = "ended"
    /\ stopList' = IF closed THEN stopList ELSE stopList \cup Remaining
    /\ UNCHANGED <<peer, viewVars, homeVars, closed, closeList, draining, drainTargets>>

\* connection.stop is called for one of the connections collected.
StopOne(c) ==
    /\ c \in stopList
    /\ stopList' = stopList \ {c}
    /\ peer' = [peer EXCEPT ![c] = Stop(@)]
    /\ UNCHANGED <<viewVars, homeVars, closed, closeList, draining, drainTargets, window>>

----------------------------------------------------------------------------
\* An authenticated peer

\* The peer closes its socket or the network loses it.
PeerLeaves(c) ==
    /\ At(c, "serving")
    /\ peer' = [peer EXCEPT ![c].pc = "exiting"]
    /\ UNCHANGED <<viewVars, homeVars, serverVars>>

\* The read loop ends because the context is cancelled.
ReadCancelled(c) ==
    /\ At(c, "serving") /\ Cancelled(c)
    /\ peer' = [peer EXCEPT ![c].pc = "exiting"]
    /\ UNCHANGED <<viewVars, homeVars, serverVars>>

\* A frame that does not decode, or one whose handler fails fatally.
PeerFatal(c) ==
    /\ At(c, "serving")
    /\ peer' = [peer EXCEPT ![c] = [Fail(@) EXCEPT !.pc = "exiting"]]
    /\ UNCHANGED <<viewVars, homeVars, serverVars>>

\* Another goroutine fails the peer: its lease runs out, or a frame does not fit
\* its queue or finds it closed.
AsyncFail(c) ==
    /\ peer[c].boot /\ ~peer[c].failed
    /\ peer' = [peer EXCEPT ![c] = Fail(@)]
    /\ UNCHANGED <<viewVars, homeVars, serverVars>>

\* The writer has sent FATAL, or its write timed out.
WriteFatal(c) ==
    /\ c \in Live /\ peer[c].failed /\ ~peer[c].stopped
    /\ peer' = [peer EXCEPT ![c] = Stop(@)]
    /\ UNCHANGED <<viewVars, homeVars, serverVars>>

\* A write or a ping fails.
TransportLost(c) ==
    /\ c \in Live /\ (Joining(peer[c]) => "lost" \in Faults)
    /\ ~peer[c].failed /\ ~peer[c].stopped
    /\ peer' = [peer EXCEPT ![c] = Stop(@)]
    /\ UNCHANGED <<viewVars, homeVars, serverVars>>

\* connection.stop goes on: the context is cancelled, the queue closed.  The
\* phase may be Active again by now.
StopShuts(c) ==
    /\ peer[c].stopped /\ ~peer[c].shut
    /\ peer' = [peer EXCEPT ![c].shut = TRUE]
    /\ UNCHANGED <<viewVars, homeVars, serverVars>>

\* The last declaration slice is read and handle lets it through: the phase is
\* read here, the home lock is taken later.
HandleDeclaration(c) ==
    /\ At(c, "serving") /\ ~Cancelled(c)
    /\ RoleOf[c] = "coordinator" /\ peer[c].phase = "Active"
    /\ peer' = [peer EXCEPT ![c].pc = "handling"]
    /\ UNCHANGED <<viewVars, homeVars, serverVars>>

\* handleDeclaration under home.mu, by a connection that lost its slot.
DeclareFenced(c) ==
    LET h == peer[c].inst
    IN  /\ At(c, "handling") /\ Free(h)
        /\ ~Fenced(c, home[h].slots)
        /\ peer' = [peer EXCEPT ![c] = [Fail(@) EXCEPT !.pc = "exiting"]]
        /\ UNCHANGED <<viewVars, homeVars, serverVars>>

\* handleDeclaration under home.mu: activateLocked makes the slot ready.
Declare(c) ==
    LET h == peer[c].inst
        S == [home[h].slots EXCEPT ![NameOf[c]].ready = TRUE, ![NameOf[c]].decl = peer[c].gen]
    IN  /\ At(c, "handling") /\ Free(h)
        /\ Fenced(c, home[h].slots)
        /\ home' = [home EXCEPT ![h].slots = S]
        /\ told' = Broadcast(h, S)
        /\ peer' = [peer EXCEPT ![c].pc = "serving"]
        /\ UNCHANGED <<roster, silent, registry, born, serverVars>>

----------------------------------------------------------------------------
\* Leaving: connection.detach, home.detach, homeRegistry.release

\* Mutant: run does not detach on its own, only fail does.
DetachOnFailure(p) == p.detach = "spawned"

\* `go detach()` of fail, or the deferred detach of run; detachOnce lets one in.
DetachCalled(p) == p.detach = "spawned" \/ (p.detach = "idle" /\ p.pc = "exiting")

\* A connection that never acquired a home has nothing to detach.
DetachNothing(c) ==
    /\ DetachCalled(peer[c]) /\ peer[c].inst = NoInst
    /\ peer' = [peer EXCEPT ![c].detach = "done"]
    /\ UNCHANGED <<viewVars, homeVars, serverVars>>

\* Mutant: an offline slot is kept without a timer when nothing was declared.
RetainQuietly(s) == [s EXCEPT !.conn = None, !.ready = FALSE,
                              !.grace = IF s.decl = 0 THEN "none" ELSE "armed"]

\* home.detach: the slot goes offline and its grace timer starts.
Retain(s) == [s EXCEPT !.conn = None, !.ready = FALSE, !.grace = "armed"]

\* The slot after its own connection detaches.
SlotAfterDetach(c, h, s) ==
    IF home[h].closed \/ (~peer[c].boot /\ s.decl = 0) THEN NoSlot ELSE Retain(s)

\* home.detach under home.mu for a user: its coordinators are told.
DetachUser(c, h) ==
    /\ home' = [home EXCEPT ![h].members = @ \ {c}]
    /\ roster' = IF peer[c].boot /\ ~home[h].closed
                   THEN [k \in Conn |-> IF k \in Watchers(h) THEN roster[k] \ {c} ELSE roster[k]]
                   ELSE roster
    /\ UNCHANGED <<told, silent>>

\* home.detach under home.mu for the coordinator that holds its slot.
DetachCoordinator(c, h) ==
    LET S == [home[h].slots EXCEPT ![NameOf[c]] = SlotAfterDetach(c, h, @)]
        gone == S[NameOf[c]] = NoSlot
    IN  /\ home' = [home EXCEPT ![h].members = @ \ {c}, ![h].slots = S]
        /\ told' = IF gone THEN told ELSE Broadcast(h, S)
        /\ silent' = IF gone /\ ~home[h].closed THEN silent \cup {h} ELSE silent
        /\ UNCHANGED roster

DetachHome(c) ==
    LET h == peer[c].inst
        attached == c \in home[h].members
    IN  /\ DetachCalled(peer[c]) /\ h # NoInst /\ Free(h)
        /\ peer' = [peer EXCEPT ![c].detach = "release"]
        /\ CASE attached /\ RoleOf[c] = "user" -> DetachUser(c, h)
             [] attached /\ RoleOf[c] = "coordinator" /\ Fenced(c, home[h].slots) ->
                  DetachCoordinator(c, h)
             [] OTHER -> /\ home' = [home EXCEPT ![h].members = @ \ {c}]
                         /\ UNCHANGED viewVars
        /\ UNCHANGED <<registry, born, serverVars>>

\* Mutant: the registry forgets a home that nobody references.
UnusedByRefs(h, r) == r = 0

\* deleteIfUnusedLocked: unreferenced, no connection and no slot.
Unused(h, r) == r = 0 /\ home[h].members = {} /\ Present(home[h].slots) = {}

Sweep(h, r) ==
    registry' = IF registry[home[h].id] = h /\ Unused(h, r)
                  THEN [registry EXCEPT ![home[h].id] = NoInst] ELSE registry

\* homeRegistry.release; empty takes home.mu.
Release(c) ==
    LET h == peer[c].inst
    IN  /\ peer[c].detach = "release" /\ Free(h)
        /\ home' = [home EXCEPT ![h].refs = @ - 1]
        /\ Sweep(h, home[h].refs - 1)
        /\ peer' = [peer EXCEPT ![c].detach = "done"]
        /\ UNCHANGED <<viewVars, born, serverVars>>

\* The end of run: stop, unless FATAL is queued and the writer gets to it
\* within WriteTimeout; then forgetConnection drops the connection, and what
\* it held is forgotten with it.
Forget(c) ==
    /\ At(c, "exiting") /\ peer[c].detach = "done" /\ closeList = {}
    /\ peer' = [peer EXCEPT ![c] = [NewPeer EXCEPT !.pc = "done", !.detach = "done",
                                                   !.stopped = TRUE, !.shut = TRUE,
                                                   !.phase = "Closed",
                                                   !.drainOnce = peer[c].drainOnce]]
    /\ roster' = [roster EXCEPT ![c] = {}]
    /\ told' = [told EXCEPT ![c] = {}]
    /\ UNCHANGED <<silent, homeVars, serverVars>>

----------------------------------------------------------------------------
\* Grace timers

\* The timer fires: its callback now waits for home.mu.
GraceFires(h, n) ==
    /\ home[h].slots[n].grace = "armed"
    /\ home' = [home EXCEPT ![h].slots[n].grace = "fired",
                            ![h].fired = @ \cup {<<n, home[h].slots[n].gen>>}]
    /\ UNCHANGED <<peer, viewVars, registry, born, serverVars>>

\* expireCoordinator: the slot still has that generation and is offline.
Expires(s, g) == s.gen = g /\ s.conn = None

ExpireCoordinator(h, n, g) ==
    LET S == [home[h].slots EXCEPT ![n] = NoSlot]
        taken == [home[h] EXCEPT !.fired = @ \ {<<n, g>>}]
    IN  /\ <<n, g>> \in home[h].fired /\ Free(h)
        /\ IF Expires(home[h].slots[n], g)
             THEN /\ home' = [home EXCEPT ![h] = [taken EXCEPT !.slots = S, !.sweep = TRUE]]
                  /\ told' = Broadcast(h, S)
             ELSE home' = [home EXCEPT ![h] = taken] /\ UNCHANGED told
        /\ UNCHANGED <<peer, roster, silent, registry, born, serverVars>>

\* deleteIfUnused, after expireCoordinator or home.close gave up home.mu.
SweepHome(h) ==
    /\ home[h].sweep /\ Free(h)
    /\ home' = [home EXCEPT ![h].sweep = FALSE]
    /\ Sweep(h, home[h].refs)
    /\ UNCHANGED <<peer, viewVars, born, serverVars>>

----------------------------------------------------------------------------
\* Server.Close

\* The flag, the cancelled context, and the homes the registry still knows.
Close ==
    /\ Closes /\ ~closed
    /\ closed' = TRUE
    /\ closeList' = {registry[i] : i \in HomeId} \ {NoInst}
    /\ UNCHANGED <<peer, viewVars, homeVars, stopList, draining, drainTargets, window>>

\* Mutant: shutdown leaves the slots that are in their grace period.
KeepOffline(s) == [s EXCEPT !.grace = IF @ = "armed" THEN "none" ELSE @]

\* home.close: timers stop, offline slots go.
CloseSlot(s) == IF s.conn = None THEN NoSlot ELSE s

\* home.close under home.mu; its connections are then stopped one by one.
CloseHome(h) ==
    /\ h \in closeList /\ Free(h)
    /\ closeList' = closeList \ {h}
    /\ home' = [home EXCEPT ![h].closed = TRUE, ![h].sweep = TRUE,
                            ![h].slots = [n \in Name |-> CloseSlot(@[n])]]
    /\ stopList' = stopList \cup home[h].members
    /\ UNCHANGED <<peer, viewVars, registry, born, closed, draining, drainTargets, window>>

----------------------------------------------------------------------------
\* Nothing is left to do: every connection is gone and no timer is set.
Quiet ==
    /\ \A c \in Conn : At(c, "done") /\ peer[c].detach \in {"idle", "done"}
    /\ \A h \in Inst :
         ~home[h].sweep /\ home[h].fired = {} /\ \A n \in Name : home[h].slots[n].grace # "armed"
    /\ stopList = {} /\ drainTargets = {} /\ closeList = {}

Terminated == Quiet /\ UNCHANGED vars

Goroutine(c) ==
    \/ Track(c) \/ HelloTimesOut(c) \/ HelloRejected(c) \/ Acquire(c)
    \/ RefuseAttach(c) \/ AttachInsert(c) \/ AttachPublish(c) \/ FailReplaced(c)
    \/ AuthenticationFails(c) \/ Arrive(c)
    \/ ReadCancelled(c) \/ DeclareFenced(c) \/ Declare(c) \/ Forget(c)

Background(c) ==
    \/ DetachNothing(c) \/ DetachHome(c) \/ Release(c)
    \/ WriteFatal(c) \/ DrainOne(c) \/ StopOne(c) \/ StopShuts(c)

Peer(c) == PeerLeaves(c) \/ PeerFatal(c) \/ AsyncFail(c) \/ TransportLost(c) \/ HandleDeclaration(c)

Timers ==
    \/ \E h \in Inst, n \in Name : GraceFires(h, n)
    \/ \E h \in Inst : \E e \in home[h].fired : ExpireCoordinator(h, e[1], e[2])
    \/ DrainDeadline

Cleanup == \E h \in Inst : SweepHome(h) \/ CloseHome(h)

Next ==
    \/ \E c \in Conn : Goroutine(c) \/ Background(c) \/ Peer(c)
    \/ Timers \/ Cleanup
    \/ Drain \/ Close
    \/ Terminated

Spec == Init /\ [][Next]_vars

\* Fairness: the runtime schedules every goroutine, timers that are set fire
\* and the window closes; peers owe nothing.  Background, timer and cleanup
\* steps are finite in number, so fairness of their union is enough.
Fairness ==
    /\ \A c \in Conn : WF_vars(Goroutine(c))
    /\ WF_vars((\E c \in Conn : Background(c)) \/ Timers \/ Cleanup)

FairSpec == Spec /\ Fairness

----------------------------------------------------------------------------
\* Safety

\* homeRegistry.acquire and release: a home's reference count is the number
\* of connections that acquired it and have not released it, whatever the
\* order of fail, the deferred detach of run and attach.
RefsMatchHolders ==
    \A h \in Inst : home[h].refs =
        Cardinality({c \in Conn : peer[c].inst = h /\ peer[c].detach # "done"})

\* deleteIfUnusedLocked: a home that a connection is attached to, holds a
\* reference on, or that keeps a coordinator slot is the one the registry
\* returns for its id, so two peers of one home never meet in different homes;
\* and a home that nobody uses is forgotten as soon as the call that made it
\* unused returns, so MaxHomes is not eaten up.
RegistryHoldsUsedHomes ==
    \A h \in Inst :
        /\ home[h].refs > 0 \/ home[h].members # {} \/ Present(home[h].slots) # {} =>
             registry[home[h].id] = h
        /\ home[h].id # None /\ registry[home[h].id] = h =>
             home[h].refs > 0 \/ Present(home[h].slots) # {} \/ home[h].sweep

\* detach and attach: a slot without a connection has its grace timer armed or
\* its callback on the way, so an offline coordinator is always purged.
OfflineSlotExpires ==
    \A h \in Inst : \A n \in Present(home[h].slots) :
        home[h].slots[n].conn = None =>
            home[h].slots[n].grace = "armed" \/ <<n, home[h].slots[n].gen>> \in home[h].fired

\* attach, detach and activeCoordinatorLocked: a slot that names a connection
\* names one that is still attached to this home and carries the slot's
\* generation, and it is ready only on the declarations of that generation.
SlotNamesItsConnection ==
    \A h \in Inst : \A n \in Present(home[h].slots) :
        LET s == home[h].slots[n]
        IN  /\ s.conn # None =>
                 s.conn \in home[h].members /\ peer[s.conn].gen = s.gen /\ NameOf[s.conn] = n
            /\ s.ready => s.conn # None /\ s.decl = s.gen

\* presenceSnapshotLocked, attach and detach: once a coordinator that can be
\* routed to has read its queue, it knows every user that can be routed to,
\* and no user that has left.
PresenceAgrees ==
    \A h \in Inst : Free(h) /\ ~home[h].closed =>
        \A k \in Watchers(h) :
            /\ {u \in UsersOf(h) : Available(u)} \subseteq roster[k]
            /\ roster[k] \subseteq UsersOf(h)

\* homeStatusActionsLocked: when no coordinator of a home is coming or going,
\* every routable user has been told exactly the coordinators there are,
\* unless detach dropped a slot whose bootstrap never became visible.
UsersKnowCoordinators ==
    \A h \in Inst \ silent :
        (Free(h) /\ ~home[h].closed /\ \A n \in Name :
            home[h].slots[n].conn = None \/ Available(home[h].slots[n].conn)) =>
                \A u \in UsersOf(h) : Available(u) => told[u] = Status(home[h].slots, None)

\* stop, authenticate and attach: authenticate stores phaseActive over the Closed
\* of a stop that came first, so a peer may still become routable until that stop
\* has closed its queue; afterwards nothing makes it routable any more.
ShutPeersStayUnroutable ==
    [][\A c \in Conn : peer[c].shut /\ ~Available(c) => ~Available(c)']_vars

\* Drain and authenticate: while the relay drains, every peer that is served
\* has been through startDraining, by Drain's loop or on arrival.
DrainVisitsEveryPeer ==
    draining => \A c \in Conn \ drainTargets : At(c, "serving") => peer[c].drainOnce

\* Server.Drain says that connections that authenticate after the window opens
\* are drained on arrival: no served peer stays Active once Drain returned.
NoPeerSlipsPastDrain ==
    draining => \A c \in Conn \ drainTargets : At(c, "serving") => peer[c].phase # "Active"

\* Server.Close: once it is over the registry holds no home, but for those whose
\* deleteIfUnused call is still pending.
CloseLeavesNoHome ==
    closed /\ closeList = {} /\ (\A c \in Conn : At(c, "done")) =>
        \A i \in HomeId : registry[i] # NoInst => home[registry[i]].sweep

----------------------------------------------------------------------------
\* Liveness

\* Server.Close waits for its connections: that wait ends.
CloseTerminates == closed ~> (\A c \in Conn : peer[c].pc \in {"new", "done"})

\* Drain: a connection still open when the window closes is closed.
DeadlineClosesPeers ==
    \A c \in Conn : (window = "open" /\ c \in Live) ~> (At(c, "done"))

\* stop and run: a connection that is stopped is over in the end, wherever in
\* its handshake the stop finds it and even if authenticate makes it Active again.
StoppedPeersEnd == (\E c \in Live : peer[c].stopped) ~> (\A c \in Live : ~peer[c].stopped)

\* attach and fail: a coordinator that lost its slot to a newer generation
\* leaves the home, whatever its own peer does.
LostSlot(c) ==
    RoleOf[c] = "coordinator" /\ \E h \in Inst : c \in home[h].members /\ ~Fenced(c, home[h].slots)

ReplacedCoordinatorLeaves == (\E c \in Conn : LostSlot(c)) ~> (\A c \in Conn : ~LostSlot(c))

\* release and the grace timers: when every connection is gone, every home is
\* forgotten in the end.
HomesAreReclaimed ==
    (\A c \in Conn : At(c, "done")) ~> (\A i \in HomeId : registry[i] = NoInst)

=============================================================================
