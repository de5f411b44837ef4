# A formal model of the Miakapp relay

TLA+ specifications of the Go relay in this repository (`src/internal/relay`) and of
the key cache behind its authentication (`src/internal/auth/key_cache.go`),
model-checked with TLC and, for what matters most, proved with TLAPS. Every
definition is translated from the source; `PROJECT.json` maps each one to the
lines it stands for.

## 1. Inventory

The relay is one process. Peers (users, coordinators, CLIs) connect over
WebSocket, authenticate for one *home*, and exchange frames that the relay routes
inside that home. Nothing is persisted: a restart starts from empty homes with
new epochs.

| Component | State it keeps | Operations | What makes it correct |
|---|---|---|---|
| Server (`server.go`) | live connections, `closed`, drain window | accept, `Drain`, `Close`, track/forget | a drain visits every peer and ends at its deadline; `Close` terminates and leaves nothing |
| Home registry (`home.go:14-84`) | homes by id, reference counts | `acquire`, `release`, `deleteIfUnused`, `close` | a home in use is registered; an unused one is forgotten |
| Connection (`connection.go`) | phase, queue, `closeOnce`/`fatalOnce`/`detachOnce`/`drainOnce`, lease | handshake, read loop, write loop, ping loop, `fail`, `stop`, `detach`, `startDraining` | detach happens once; a peer whose queue a stop has closed is never routed to again; a peer is told what it must know |
| Home (`home.go`) | members, users, coordinator slots with generations and grace timers | `attach`, `detach`, `expireCoordinator`, presence, coordinator status | one connection per slot; only the current generation acts; an offline slot expires; everybody's view agrees |
| Declarations (`declarations.go`) | per-connection transaction, identifiers, owner tables, active configuration, revisions | five slices, activation, transaction timer | names have one owner, change hands as whole sets, and identifiers keep their meaning |
| State (`state.go`) | values, revision, last revision sent to each session | `STATE_SET`, patches, snapshots, resynchronization | values agree with the owner's configuration; every change has a new revision; what a session was sent is the state it may see, under the identifiers its dictionary lists |
| Events (`events.go`) | topics, subscriptions, event identifiers | subscribe, unsubscribe, publish, prune | subscriptions follow the policy; an event under the identifier its coordinator was given comes after the dictionary that lists it |
| Calls (`calls.go`) | two call indexes per connection, routes, deadline timers | call, result, error, cancel, credit, expiry, termination | one end per call, heard by both ends; credit respected; no call outlives its peers |
| Outbound queue (`connection.go:416-601`) | queued frames and bytes, requests in flight | enqueue, evict, write, answer, `fail`, `stop` | byte budgets are exact; FATAL is last; a request has one answer; a failed connection ends |
| Lease (`connection.go:325-381, 698-771`) | deadline, generation, timer | activate, renew, expire, stop | a lease that has run out is final and enforced |
| Admission (`admission.go`) | attempts per source, active counts, queued bytes | acquire, release, reserve | limits hold; nothing leaks |
| Key cache (`auth/key_cache.go`) | key set, expiry, one fetch in flight, two delays | load, refresh for an unknown key | concurrent callers share a fetch and all return; keys are never used stale; fetches are spaced |
| Verification, configuration, `main` | none | pure functions, wiring | - |

Interaction: `authenticate` acquires a home from the registry and attaches; the
read loop hands frames to `home.handle`, which takes `home.mu`; the home writes to
any peer's queue; a queue that cannot take a frame fails its peer, which detaches
*in a goroutine of its own*, because the failing code may hold `home.mu`. Timers
(lease, transaction, grace, call, drain) call back without any lock. `Drain` and
`Close` run beside all of this.

What is hard here:

- `fail`, `stop` and `startDraining` change a connection's phase without the home
  lock, so every test of a phase is stale at once;
- four `sync.Once`, each of which can be used up by the wrong path;
- timers that have fired wait for the lock and find another generation;
- a connection is replaced while it handles a frame, detaches, or has calls and a
  declaration in progress;
- a declaration lasts over many frames and is judged again at the last one;
- a name gets a new identifier when two declarations of it overlap, and the relay accepts
  the old ones for ever;
- frames queued in one order and phases changed in another (WELCOME and GOAWAY);
- shutdown takes locks that handshakes need.

`PROJECT.json` lists these hazards at their lines, with the properties that catch
them.

## 2. Modules

| Module | Models | Used by |
|---|---|---|
| `HomeLifecycle` | server, registry, connection, attach/detach, slots, presence and status, drain, close | `MCHomeLifecycle` |
| `Ownership` | the abstract promise about owner tables: whole-set replacement and release | `Declarations` (INSTANCE) |
| `Declarations` | the declaration protocol, identifiers, activation, `STATE_SET`, expiry | `MCDeclarations`, proofs |
| `CallRouting` | calls between peers of one home | `MCCallRouting`, proofs |
| `StateViews` | what user sessions are shown of state, topics and events, and their subscriptions | `MCStateViews`, proofs |
| `OutboundQueue` | the queue of one connection, its requests, FATAL, stop, the write loop and the end of `run` | `outbound.cfg`, proofs |
| `KeyCache` | the signing key cache and the verifications that share it | `Lease` (EXTENDS), proofs |
| `Lease` | the authorization lease of one connection, composed with the key cache | `auth.cfg`, proofs |
| `DeclarationsProofs`, `DictionaryProofs`, `CallRoutingProofs`, `StateViewsProofs`, `OutboundQueueProofs`, `AuthenticationProofs`, `HomeLifecycleTypes`, `HomeLifecycleProofs` | theorems and proofs | - |
| `MC*` | values of the constants, symmetry, views | the `.cfg` files |

### HomeLifecycle

Each connection is a goroutine with a program counter (`peer[c].pc`), from the
HELLO it waits for to the end of `run`. Its other record fields are the fields of
`connection` that matter: `phase`, the four Once flags, generation, whether the
queue has GOAWAY. `home[h]` is `struct home` with its lock made explicit: `attach`
holds it over two actions (`AttachInsert`, `AttachPublish`), because other
goroutines change the peer's phase in between; every other critical section is
one action. `roster` and `told` are what a coordinator or a user knows once it has
read its queue: queues are FIFO, so the last relevant frame decides.

Choices: `Acquire` joins `homeRegistry.acquire` with the store of `phaseActive`
that follows it; `Forget` joins the last stop, the wait for the writer and
`forgetConnection`; an expired lease and an overflowing queue are one `AsyncFail`
that may come at any time; a lost transport is noticed by `writeLoop` or
`pingLoop` (`TransportLost`, `WriteFatal`); `lifecycleMu` is the guard
`closeList = {}`; the compare-and-swap of `startDraining` is atomic with its test of
the phase. Declarations appear only as the fact that a slot has one.

`connection.stop` of a peer that is still joining comes in two steps: `Stop` uses up
`closeOnce` and stores Closed, `StopShuts` cancels the context and closes the queue.
Between them the peer's goroutine may store Active over the Closed, queue WELCOME and the
bootstrap, announce the peer, and serve it. Past the bootstrap the two are one step:
nothing makes a Closed peer Active then, so the peer is no longer routed to from the first on,
and until the second a queue takes only frames that nobody will read. Cancelling the context
and closing the queue (`shut`) are always one step, with `leaseMu` and `queueMu` taken
in between; a read that has ended but finds the queue open differs from one that ends a little
later in nothing the model has. A transport that is lost while the peer joins is the fault
"lost", in the runs `lifecycle` and `drain` but not in `close`; one that is lost later may
come at any time in every run.

### Declarations

One home. `stage[c]` is the transaction of a connection (`expected` slice, names,
identifiers, values, timer), `slot[n]` a coordinator slot with its active
configuration, `owner`, `byName`, `byID`, `nextID`, `state`, `revision` and `policy`
the tables of `home`. Every handler is one action per outcome, run under the lock;
`Receive` before it is the read loop, which may hold a frame while the connection
is replaced. Names are model values of three kinds (paths, topics, functions); the
limits are constants. `fits` stands for every check that a response or a
snapshot can be encoded (`validateEncodable`, `validateRequiredFrames`): it may fail
at any time. Timers fire (`StageTimerFires`, `GraceFires`) before their callbacks
get the lock (`ExpireStage`, `ExpireCoordinator`).

### CallRouting

`calls[c]` is the index of a connection (identifier to route, for calls it made and
calls it serves alike), `route[r]` the `callRoute` object. `Read` tests the phase,
as `connection.handle` does before `home.mu` is taken; the handlers
(`StartCall`, `DispatchFails`, `Answer`, `Stream`, `CancelCall`, `CreditCall`) are
atomic. A timer fires, takes the route out under the lock (`ExpireTake`) and tells
the callee and then the caller after releasing it (`ExpireCancel`, `ExpireReport`).
`ends`, `cancels`, `answered`, `granted` and `streamed` are history: the frames
addressed to each end.

Choices: `fail` is split into the phase change (`Fail`) and the closing of the queue
(`ShutQueue`), with `Detach` anywhere after the first; the failure of a
replaced generation is an ordinary `Fail`; a frame that is refused without effect,
whatever the reason (not enrolled, not declared, over the deadline), is `Refuse`;
that a ready coordinator offers the function called is assumed, and enrolment is
one of the reasons to refuse. `accepted` is set before the lock is released, so
the two branches on `!accepted` (in `cancelCall` and `expireCall`) are
unreachable and not modelled.

### StateViews

`active[n]`, `state`, `revision`, `current` (name to identifier) and `known` (every
identifier ever published) are the home; `stage[n]` is a coordinator's transaction with the
identifiers reserved for it, `given[n]` those its active declarations were answered with.
`user[u]` is what the relay keeps of a session (`lastStateRevision`, `subscriptions`, whether
it is still available); `client[u]` what the session's client has been told once it has read its
queue: dictionaries, values, revision, patches that did not start where the client
was (`gaps`), paths whose latest value it could not read (`missed`) and events it had no
dictionary entry for though they came under the identifier given (`strays`). Every handler runs under `home.mu`, so each is one action; only
`Lapse` (failure, drain, end of the lease) comes without the lock.

Names have several identifiers. A transaction reserves one for each name nobody has published
yet, activation publishes it whatever has been published meanwhile, and nothing is ever
deleted. So after `a` and `b` have both staged `p`, and `a` has activated and given it up, the
activation of `b` makes a second identifier of `p` the current one, and the first remains an
alias. `STATE_SET`, `SUBSCRIBE` and `EVENT` accept every alias and pass it on as
it is. A session reads what its dictionary lists, which is the current identifier, so it cannot make
use of a mutation under an alias until it resynchronizes, and an event under one reaches
the sessions that subscribed under that one. The properties say what holds all the
same: a coordinator that uses the identifiers it was given is understood by every session
(while it owns a name, these are the current ones), and they exempt exactly the paths set and
the events published under others. The k-th identifier reserved for a name is `<<name, k>>`:
numbers come from one counter for paths and one for topics and are not reused
(`Declarations`, which numbers them as the code does, shows that they keep their meaning).

Choices: a list of patterns stands for the names it matches, so that a
declaration is its paths, its topics and three rights for each user. A frame that
cannot be queued fails the session, which is `Lapse`; the session is not followed any further.
A patch too large to encode is replaced by a snapshot for any set of sessions (`large`);
several mutations of one path in a `STATE_SET` count as the last of them.
Of a transaction there are the two slices that reserve identifiers and the
activation; the others, the timer, and a `STATE_SYNC` refused because its answer does not fit
(which only uses up identifiers) are in `Declarations`. Event flags, the identifiers of events,
events to coordinators and events by users are left out: they change nothing here.

### OutboundQueue

One connection in detail, the others as the bytes they have reserved. An action is one
critical section of `queueMu`, or what a goroutine does between two of them:
`writeLoop` (`Look`, `Wake`, `Write`, `Written`, `WriterStops`), `run` (`Receive`,
`Answer`, `ReadEnds`, `Leave`, ...), the functions inside `fatalOnce` (`FailQueues`,
`FailReplaces`, `FailStops`) and `closeOnce` (`Stopping`, then `StopEmpties`).
A caller of `fail` or `stop` that is not the first waits for the first, as
`sync.Once` makes it. `queueWake` is a token. A frame that cannot be encoded is
`Stop`.

### KeyCache and Lease

`KeyCache` has one record for each goroutine that verifies a token: where it is in
`load` and whether its load is forced. A set of keys is the time at which the control
plane had it, so that staleness can be stated: a response carries keys up to `age`
old, sent at some time of the fetch. A 304 renews the cached keys as a 200 with the
same keys would.

`Lease` EXTENDS it: the reading goroutine of one connection is the caller `Peer`, whose
verifications are the ones of HELLO and REAUTH. `firing` holds expiry callbacks that
wait for `leaseMu`, so a timer may fire, be overtaken by a renewal or a stop, and then
run. Failures of the connection for other causes are left out on purpose: they would
only make `LeasesAreEnforced` easier. The connection goes on handling a frame after a
failure or a stop, so a renewal may still install a lease then, as in the code. (The
generation test of `expireLease` by itself is redundant here: the test of the
previous deadline in `replaceLease` already refuses a renewal once its timer could
have fired.)

## 3. Runs

All runs finish in under four minutes with two workers. `CHECK_DEADLOCK FALSE`
is set where connections, time or revisions run out, so that the model really comes
to rest.

| Run | Instance | States | Shows |
|---|---|---|---|
| `lifecycle` | two connections of one coordinator, one user, no drain | 931,150 | reference counts, registry, slots, generations, presence and status agree in every interleaving of join, replacement, failure, expiry and leaving |
| `close` | two coordinator connections, `Close`, fairness | 152,516 | shutdown terminates, no home is left, replaced connections leave, homes are reclaimed |
| `drain` | two users of two homes, room for one home, every fault of the handshake, fairness | 211,152 | no peer outlives the window, and a stopped peer ends wherever in its handshake it was |
| `drain_slip` | as `drain` | | **violation**: a peer visited in its handshake is served as Active through the window |
| `declarations` | coordinators `a` and `b`, two paths and a function, two transactions, two identifiers, one `STATE_SET`, limits of one path and two names | 488,736 | owners, dictionaries, identifiers, state, limits and revisions are right, and the protocol implements `Ownership` |
| `declaration_ttl` | one coordinator | | **violation**: a transaction without a lifetime |
| `calls_replaced` | two generations of a coordinator, a user, one call | 773,335 | calls end with their sessions and both ends are told |
| `calls_stream` | a coordinator and a user, one call, credit, drain, fairness | 267,766 | credit, one end per call, every call ends |
| `call_after_detach` | a coordinator and a user | | **violation**: a call of a peer that is gone |
| `views` | two coordinators with three declarations, one user, two paths and a topic, two identifiers each, four changes of revision | 1,362,950 | what a session was sent is the home as it may see it, under the identifiers coordinators were given; subscriptions and events stay within rights |
| `outbound` | one request, frames of one or two bytes, room for three, four in total, fairness | 187,231 | bytes are exact, requests are answered once, FATAL is last, the connection ends |
| `auth` | a connection and another verification, keys that live two units, every delay, two leases, fairness | 392,157 | keys are recent, fetches shared and spaced, verifications return, leases are final and enforced |

Why these bounds are enough to be interesting: two connections of one name give
every replacement; a third peer gives an observer. Two coordinators that want one
of two names give collisions in both directions. In `views`, `a` gives up a path and a topic that
`b` may have staged meanwhile, and each has rights over the other's paths. Four new revisions
are what an alias of a path needs (`a` declares, gives up, `b` declares, `b` sets under the
old identifier), and the run does reach missed paths, subscriptions under an old identifier
and values that differ from the home's. One session is enough to see, because sessions do not
influence one another, and the proofs are for any number. In `outbound`, three bytes hold a stream frame and a frame but no
FATAL, so every eviction and replacement happens, and four bytes for the process let
`others` refuse even that. In `auth`, keys live longer than a fetch, a delay ends before
and after them, and a second lease is enough for a renewal to race the first. Limits
of one or two bind, but for the dictionary limit in `declarations`, whose names are no more
than it allows; theorem `HomeStaysWithinLimits` covers it. Bounds that exist only in the model are named
(`MaxStages`, `MaxId`, `MaxIds`, `MaxSets`, `MaxCalls`, `MaxGranted`, `CallerIds`, `MaxRevision`,
`MaxTime`, `MaxLease`, `MaxLeases`). Symmetry is used only in runs without liveness;
the view of `lifecycle` and `declarations` drops what no guard reads.

Types, `RoutesAreIndexed`, `OwnedIdsAreStable` and `DrainVisitsEveryPeer` are in no run: they are
proved (section 4). The last says that a served peer has been through `startDraining`, not that
it was told anything, which `drain_slip` refutes.

### Fairness

The Go scheduler runs every goroutine that can run, a lock that is released is
eventually given to each waiter, and timers fire. So `HomeLifecycle` has weak
fairness for the goroutine of every connection, and for the background
steps (detach, timers, drain, close). `CallRouting` has it for each call's deadline
and each connection's detach. `OutboundQueue` has it for the goroutines of the
connection and the functions inside its Once flags; a read ends when its context does
and a write with its timeout, so those two are fair as well. `Lease` has it for each
verification (a fetch ends by its deadline), for timers and for their callbacks.
Peers owe nothing: no fairness is assumed for what
they send, read, answer or close.

### Findings

- `drain_slip`: `startDraining` uses up `drainOnce` on a peer that has not
  authenticated, so the visit on arrival does nothing.
  "no peer can slip past the announcement" (`server.go:81-82`) does not hold.
- `declaration_ttl`: a `STATE_SYNC` that is refused because its response does not fit has
  already stopped the timer of the transaction it leaves in place, against the
  lifetime the README promises (`src/README.md:151`).
- `call_after_detach`: only coordinators are looked at again under the lock, so a call
  of a user or CLI that has failed and been detached meanwhile is still
  routed, against "Routing stops immediately via phase" (`connection.go:625-626`).

More observations are hazards with a note. One contradicts a comment but has no run:
`authenticate` stores `phaseActive` (`connection.go:244`) before `attach` queues WELCOME,
so `Drain` can queue GOAWAY ahead of it, while `connection.go:792-793` says that a peer in
its handshake is left alone. The others contradict no text: a peer
whose `detachOnce` is used up between `acquire` and `attach` stays in its home (only with
a drain); a peer tracked after the drain deadline's snapshot is not stopped until
`Close`; the generation of a slot dropped by `detach` starts over; after `Server.Close` a
writer may end before a last FATAL is queued, whose bytes stay reserved.

## 4. Proofs

Checked by TLAPS for every value of the constants that satisfies the modules'
named assumptions (finite sets of connections, roles and names for each of
them, natural limits, `None` and the empty value outside the sets they complete).

| Theorem | Says |
|---|---|
| `TypeCorrect` | `Declarations` keeps its types |
| `OwnersFollowDeclarations` | `OwnersMatchConfigs`: owner tables and active declarations agree |
| `StateFollowsOwners` | `StateMatchesConfigs`: the home's values are the owners' values |
| `DeclarationsImplementOwnership` | the protocol refines `Ownership` |
| `StateHasRevision`, `PolicyHasRevision` | `StateChangesRevision`, `PolicyChangesRevision` |
| `HomeStaysWithinLimits` | `WithinHomeLimits`: state paths and identifiers of every kind |
| `DictionaryInvariant`, `DictionaryIsConsistent` | `DictionaryAgrees`: name to identifier and back |
| `IdsAreNeverReused`, `OwnersKeepTheirIds` | `IdsKeepTheirMeaning`, `OwnedIdsAreStable` |
| `RoutingTypeCorrect` | `CallRouting` keeps its types |
| `IndexInvariant` | `RoutesAreIndexed` |
| `CallsAndSessions` | `CallsEndWithTheirPeers` |
| `EndsAreTold`, `OneEndOnly`, `CreditIsKept` | `BothEndsAreTold`, `NothingFollowsTheEnd`, `StreamsStayWithinCredit` |
| `ViewsTypes`, `SessionsFollow`, `SubscriptionsAuthorized`, `EventsExpected` | types, `ViewsFollowTheHome`, `SubscriptionsStayAuthorized`, `EventsAreExpected` |
| `RevisionsTellApart` | `RevisionTellsViewsApart` |
| `OutboundTypeCorrect`, `BytesAccounted` | types; `BytesAreAccounted`, for every frame size and budget |
| `RequestsAnswered`, `FatalIsLast` | `RequestsAreAnsweredOnce`, `FatalComesLast` |
| `LeaseTypes`, `LeaseUsesTheCache` | types; every behaviour of `Lease` is one of `KeyCache` |
| `FetchesAreShared`, `KeysAreRecent`, `RefreshesAreSpaced` | `OneFetchAtATime`, `StaleKeysAreRefused`, `UnknownRefreshesAreSpaced` |
| `NoLeaseIsRevived` | `RunOutIsFinal` |
| `LifecycleCounts`, `RefsAreHolders` | `HomeLifecycle` keeps its types; `RefsMatchHolders` |
| `ShutStaysUnroutable`, `DrainReachesEveryPeer`, `OfflineSlotsExpire` | `ShutPeersStayUnroutable`, `DrainVisitsEveryPeer`, `OfflineSlotExpires` |
| `SlotsNameConnections`, `RegistryHoldsHomesInUse` | `SlotNamesItsConnection`, `RegistryHoldsUsedHomes`, both for `Drains = FALSE` |
| `NothingOutlivesClose` | `CloseLeavesNoHome`, for `Drains = FALSE` |
| `CoordinatorsKnowUsers`, `UsersAreTold` | `PresenceAgrees`, `UsersKnowCoordinators`, both for `Drains = FALSE` |

The arguments:

- **Ownership.** `OwnershipInv` adds to the property that an undeclared slot holds
  nothing, that values belong to declared paths, and that a transaction's values
  belong to its names. Most steps leave owners, entries and state alone
  (`KeptPreserves`); only activation and expiry need work, and the refinement reuses
  it: an activation is a `Replace`, an expiry a `GiveUp`, everything else a stutter.
- **Dictionary.** Agreement of the two tables is not inductive: a name is published
  at activation, under an identifier reserved many frames earlier. `IdsInv` says
  that every identifier in use, published or staged, is at most `nextID`; that a
  staged identifier is either the published one of that name or belongs to nobody
  else, published or staged; and that an owned name is published. Two coordinators
  may stage the same new name under different identifiers: the name must then not
  be published twice, which the collision check guarantees for owned names.
- **Calls.** `RoutesAreIndexed` is inductive as it stands: an identifier is taken only when
  free at its end, and routes are removed by identifier, so a second call in flight
  is never hit. It gives `CallsOfAreLive`: what `terminateCallsForConnectionLocked`
  finds in one index is every call of that connection in either role. With
  `SlotsAreAttached` (a slot holds an attached coordinator of its name) this proves
  that attach and detach leave no call behind.

- **Views.** `ViewsInv` is `HomeInv` and `SessionsInv`. `HomeInv`: what is declared has one
  owner, is current under the identifier its owner was given, and alone has values. It is
  preserved because an activation makes current what it was given, and only it can do so for
  a name it owns. `SessionsInv` says of each session (`Agrees`) that its dictionaries and values
  are those of the property, that its client's revision is the relay's `lastStateRevision`
  (so a patch starts where the client is), and that its subscriptions are ones it may hear. So a
  mutation or an event under the identifier given is under the current one, hence one the
  dictionary lists. One lemma treats `Republish`, which activation and expiry share.
- **Keys and leases.** `KeyInv` says when the fetch under way began and that the cached
  keys expire at most `FetchTime` after `max-age`; a forced load that falls back on fresh
  keys keeps within the same bound. Steps of `Lease` are steps of `KeyCache` or leave it
  alone, so the invariant carries over. `RunOutIsFinal` then needs only that a
  connection without a lease yet has neither a deadline nor an expiry.
- **Connections and homes.** `CountInv` adds to types and reference counts what the
  counts rest on: a handshake holds nothing (otherwise `acquire` would count a
  connection twice), whoever is inside a home or about to release one has one, and
  no more homes were created than connections started (so the next home exists).
  Most actions move one peer along and keep the counts (`Moves`, `HomesKeep`); only
  acquiring, attaching, releasing and forgetting are treated one by one. `CountInv`
  holds with every fault, drain and shutdown, and so do the three theorems of the
  second row. `DrainVisitsEveryPeer` is inductive once it covers peers in the middle of a
  frame as well (`ServedAreDrained`).
- **Slots and registry.** `Membership` says that a member of a home holds it until
  `detach` removes it, that a peer in its handshake cannot have been failed, and that
  a slot names a member of its own generation. `RegistryKnowsIds` says that a registered
  home was created for its id, so `deleteIfUnused` never removes another one, and that a
  home not created yet is as new. Both theorems assume that nobody drains, and need it:
  with a drain, a GOAWAY that does not fit fails a peer between `acquire` and
  `attach`, `detachOnce` is used up on a home it has not joined, and the peer that then
  attaches is never detached. TLC finds both properties violated in that case
  (`Drains = TRUE` with the fault "slow"); it is a hazard of `PROJECT.json`.
- **Shutdown.** `CloseLeavesNoHome` is about the end of a run, so the invariant follows the
  homes there: a home that `Close` found is closed or on its list (`CloseFindsHomes`), a
  closed home keeps no offline slot (`HomesShut`: nothing would expire it any more), and
  a connection that is over holds no home. When all are, no slot, member or reference is
  left, and `RegistryHoldsUsedHomes` leaves only homes that are about to be swept.
- **Presence and status.** Both properties speak of moments when `home.mu` is free, and neither is
  inductive: `attach` inserts a peer and announces it in two steps. `LockHeld` says
  what holds between them (the lock is the publishing connection's, which is in the home and,
  a coordinator, in its slot). `RostersAgree` and `ToldAgrees` are the properties
  with the one exception that gives: a user not yet announced, a coordinator whose status
  is not yet broadcast. Only attach, detach, declaration, expiry and close change what
  peers were told; every other step only makes peers unavailable (`HomesQuiet`,
  `PeersQuiet`). While every coordinator is offline or available, a status list depends on
  nothing but connections and generations (`Settled`, `Listing`). Both rest on
  `Membership`, hence on `Drains = FALSE`.
- **Policy and limits.** What may be called changes only by activation and expiry
  (`SameForce`); an activation that keeps the policy revision has the previous entries and
  ACL. For the limits, `aggregateStateCountLocked` subtracts and adds
  cardinalities: its result is at least the size of the tables after the activation,
  because what the coordinator gives up is part of what is owned (`AggregateCounts`).
- **Both ends of a call.** `LedgerInv` makes each route an account: in flight nobody has been
  told anything and the deadline is armed or fired; while the deadline's callback runs
  between its two messages, exactly the first has been sent; afterwards every end that has not
  gone has been told once. What was streamed and the credit left are what was granted.
  The three theorems read this off.
- **Outbound queue.** The bytes of a queue and what `evictStreamsLocked` leaves of it are
  recursive functions over positions. That they compute sums is induction over data, for which
  the prover has no rule: `SetInduction` derives one for sets of numbers from the
  theorems about finite sets, and `RecursionExists` gives the functions. `AccountInv` then
  says that both counters are such sums and within their limits, and that every frame in
  the queue or in a goroutine's hands is one the code makes. `FatalInv` adds that FATAL is the only frame that
  closes the queue and that, once `fail` is over, it is queued, being written, or the
  connection stops. `RequestsAreAnsweredOnce` counts an identifier's answers as a second
  weight of the queue, which eviction of stream frames does not change.

Only model-checked: liveness, which needs fairness and ENABLED, and which the prover cannot
treat. Every invariant and action property of the runs that pass is also a theorem.
With a drain, the theorems for `Drains = FALSE` say nothing, and the runs with a drain check the
properties that hold there.

## 5. Not modelled

- Admission (`admission.go`): attempt windows and active counts, each operation a
  single critical section over a few counters; its byte counter is in `OutboundQueue`.
- Parsing of key documents and headers (`key_cache.go:177-511`): success with an age, or
  failure.
- Events to coordinators and by users, event flags and event identifiers
  (`events.go:99-168`).
- Token verification, error constructors, configuration, `main`: pure or wiring.
- In `Declarations`: the frames that other peers get, request deduplication, the epoch
  test of `STATE_SET`, and the closing of a home. In `CallRouting`: enrolment,
  encodability of a routed frame, and idempotency keys, which are passed through.

## 6. Plan

In order of importance; the first six are done.

1. `HomeLifecycle`: connections, homes, drain and close.
2. `Declarations` and `Ownership`, with proofs.
3. `CallRouting`, with proofs.
4. `StateViews`, with proofs.
5. `OutboundQueue`, with proofs.
6. `KeyCache` and `Lease`, with proofs.
7. `Admission`: windows and counts per source.
8. Proofs of `HomeLifecycle` (done, but for a relay that drains: what is left of presence
   and membership when a GOAWAY fails a peer between `acquire` and `attach`).
