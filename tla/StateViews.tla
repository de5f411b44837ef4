------------------------------ MODULE StateViews ------------------------------
(***************************************************************************)
(* What the user sessions of one home are shown: the state dictionary,     *)
(* snapshots and patches, the topic dictionary, and events of the topics   *)
(* they subscribed to, while coordinators declare, set state, are replaced *)
(* and expire, and users join, resynchronize and are lost.                 *)
(*                                                                         *)
(* Sources: internal/relay/state.go, events.go and projection.go, with the *)
(* parts of declarations.go and home.go that publish to users.             *)
(*                                                                         *)
(* Everything here runs under home.mu, except that a user stops being      *)
(* available at any moment.  A queue is FIFO and loses a frame only with   *)
(* its connection, so `client` is what a session will have when it has     *)
(* read its queue.  A list of patterns stands for the names it matches.    *)
(*                                                                         *)
(* A path or topic may have several identifiers: transactions reserve them *)
(* before anybody publishes one, and the relay forgets none.  Reservations *)
(* share one counter for paths and one for topics and never return a       *)
(* number again, so the k-th identifier reserved for a name is <<name, k>>.*)
(***************************************************************************)
EXTENDS Integers, FiniteSets

CONSTANTS
    User,             \* user sessions, each used once
    Name,             \* coordinator names
    Path, Topic,      \* state paths and event topics
    Value, NoValue,   \* what a path holds, and that it holds nothing
    NoConfig,         \* a coordinator without active declarations
    Offers,           \* [Name -> SUBSET Config], declarations a coordinator may make
    MaxRevision,      \* bound of the model; the code counts in int64
    MaxIds,           \* bound of the model: identifiers reserved for one name
    MaxSubscriptions  \* protocol.MaxSubscriptions

\* What has identifiers.
Item == Path \cup Topic

\* coordinatorConfig without its values: declared paths and topics, and for
\* each user what stateACL and eventACL let it see, hear and publish.
Config ==
    [paths : SUBSET Path, topics : SUBSET Topic, see : [User -> SUBSET Path],
     hear : [User -> SUBSET Topic], say : [User -> SUBSET Topic]]

Values == [Path -> Value \cup {NoValue}]

ASSUME OffersAssumption == Offers \in [Name -> SUBSET Config] /\ NoConfig \notin Config
ASSUME ItemAssumption == Path \cap Topic = {}
ASSUME ValueAssumption == NoValue \notin Value
ASSUME BoundAssumption == MaxRevision \in Nat /\ MaxIds \in Nat /\ MaxSubscriptions \in Nat

VARIABLES
    slot,       \* [Name -> SlotStatus], connection and ready of coordinatorSlot
    stage,      \* [Name -> StageRecord], the connection's declarationStage
    active,     \* [Name -> Config or NoConfig], coordinatorSlot.active
    given,      \* [Name -> Ids], what the active declarations were answered
    reserved,   \* Ids, how many identifiers of a name were ever reserved
    current,    \* Ids, home.pathsByName and topicsByName
    known,      \* identifiers in home.pathsByID and topicsByID
    state,      \* Values, home.state
    revision,   \* home.revision
    user,       \* [User -> UserRecord], struct connection of a user
    client      \* [User -> Shown], what the session's client has been told

idVars == <<reserved, current, known>>
coordVars == <<slot, stage, active, given>>
vars == <<coordVars, idVars, state, revision, user, client>>

----------------------------------------------------------------------------
\* State shapes

SlotStatus == {"absent", "joined", "ready", "offline"}

\* One identifier per name, 0 for none.
Ids == [Item -> Nat]
NoIds == [i \in Item |-> 0]

\* Which slices a transaction has had, and the identifiers of what they declare.
StageRecord == [step : {"none", "state", "events"}, ids : Ids]
NoStage == [step |-> "none", ids |-> NoIds]

\* lapsed: still in home.users, but no longer available (failed, draining, or
\* past its lease).  last is lastStateRevision, subs subscriptions.
UserRecord ==
    [phase : {"new", "open", "lapsed", "gone"}, last : Nat, subs : SUBSET (Topic \X Nat)]
Idle(phase) == [phase |-> phase, last |-> 0, subs |-> {}]

\* paths and topics are the dictionaries.  gaps: patches since the last snapshot
\* that did not start from the revision the client had.  missed: paths whose
\* latest value came under an identifier that is neither in the dictionary nor
\* the one its coordinator was given.  strays: topics of events without a
\* dictionary entry, under the identifier their coordinator was given.
Shown ==
    [paths : SUBSET (Path \X Nat), values : Values, missed : SUBSET Path,
     topics : SUBSET (Topic \X Nat), revision : Nat, gaps : Nat, strays : SUBSET Topic]

Nothing == [p \in Path |-> NoValue]
NoClient ==
    [paths |-> {}, values |-> Nothing, missed |-> {}, topics |-> {}, revision |-> 0,
     gaps |-> 0, strays |-> {}]

\* The shape of the state: home, coordinatorSlot and connections.
TypeOK ==
    /\ slot \in [Name -> SlotStatus]
    /\ stage \in [Name -> StageRecord]
    /\ active \in [Name -> Config \cup {NoConfig}]
    /\ given \in [Name -> Ids]
    /\ reserved \in Ids /\ current \in Ids
    /\ known \subseteq Item \X Nat
    /\ state \in Values
    /\ revision \in Nat
    /\ user \in [User -> UserRecord]
    /\ client \in [User -> Shown]

Init ==
    /\ slot = [n \in Name |-> "absent"]
    /\ stage = [n \in Name |-> NoStage]
    /\ active = [n \in Name |-> NoConfig]
    /\ given = [n \in Name |-> NoIds]
    /\ reserved = NoIds /\ current = NoIds /\ known = {}
    /\ state = Nothing
    /\ revision = 1
    /\ user = [u \in User |-> Idle("new")]
    /\ client = [u \in User |-> NoClient]

----------------------------------------------------------------------------
\* What a home offers, as functions of its active declarations

Declared(act) == {n \in Name : act[n] # NoConfig}
OwnedPaths(act) == UNION {act[n].paths : n \in Declared(act)}
OwnedTopics(act) == UNION {act[n].topics : n \in Declared(act)}

\* Rights add up over all coordinators, whoever owns the path or the topic.
See(act, u) == UNION {act[n].see[u] : n \in Declared(act)}
Hear(act, u) == UNION {act[n].hear[u] : n \in Declared(act)}
Say(act, u) == UNION {act[n].say[u] : n \in Declared(act)}

\* visibleStateLocked
View(act, st, u) == [p \in Path |-> IF p \in See(act, u) THEN st[p] ELSE NoValue]

Members == {u \in User : user[u].phase \in {"open", "lapsed"}}
Available(u) == user[u].phase = "open"

\* The dictionary entries of some names.
Entries(items, cur) == {<<i, cur[i]>> : i \in items}

\* STATE_SNAPSHOT, as a session with these dictionary entries reads it.
Read(entries, act, cur, st, u) ==
    [p \in Path |-> IF <<p, cur[p]>> \in entries THEN View(act, st, u)[p] ELSE NoValue]

\* STATE_DICT and STATE_SNAPSHOT
StateShown(x, act, cur, st, rev, u) ==
    LET entries == Entries(OwnedPaths(act) \cap See(act, u), cur)
    IN  [x EXCEPT !.paths = entries, !.values = Read(entries, act, cur, st, u),
                  !.missed = {}, !.revision = rev, !.gaps = 0]

\* TOPIC_DICT
TopicsShown(x, act, cur, u) ==
    [x EXCEPT !.topics = Entries(OwnedTopics(act) \cap (Hear(act, u) \cup Say(act, u)), cur)]

\* What a session gets of the whole home.
HomeShown(x, act, cur, st, rev, u) ==
    TopicsShown(StateShown(x, act, cur, st, rev, u), act, cur, u)

\* userViewActionsLocked with includeCapabilities, as both its callers use it.
ShownToAll(act, cur, st, rev) ==
    [u \in User |->
        IF Available(u) THEN HomeShown(client[u], act, cur, st, rev, u) ELSE client[u]]

\* Mutant: subscriptions are kept as long as the topic has an owner.
PrunedUnowned(act, u) == {e \in user[u].subs : e[1] \in OwnedTopics(act)}

\* pruneSubscriptionsLocked
Pruned(act, u) == {e \in user[u].subs : e[1] \in OwnedTopics(act) \cap Hear(act, u)}

\* After a change of declarations every member's subscriptions are pruned and
\* every available one is shown the home anew.
Republish(act, cur, st, rev) ==
    /\ client' = ShownToAll(act, cur, st, rev)
    /\ user' = [u \in User |->
         IF u \notin Members THEN user[u]
         ELSE [user[u] EXCEPT !.subs = Pruned(act, u),
                              !.last = IF Available(u) THEN rev ELSE @]]

----------------------------------------------------------------------------
\* Coordinators

\* attach: the new connection of a slot has to declare again; what the slot
\* has active stays, the transaction of the old connection does not.
Attach(n) ==
    /\ slot[n] # "joined" \/ stage[n] # NoStage
    /\ slot' = [slot EXCEPT ![n] = "joined"]
    /\ stage' = [stage EXCEPT ![n] = NoStage]
    /\ UNCHANGED <<active, given, idVars, state, revision, user, client>>

\* detach: a slot is kept for its grace period, unless it has nothing active
\* and its connection never became visible.
Detach(n) ==
    /\ slot[n] \in {"joined", "ready"}
    /\ \E s \in {"offline", "absent"} :
         /\ s = "absent" => active[n] = NoConfig
         /\ slot' = [slot EXCEPT ![n] = s]
    /\ stage' = [stage EXCEPT ![n] = NoStage]
    /\ UNCHANGED <<active, given, idVars, state, revision, user, client>>

\* reservePathIDLocked, reserveTopicIDLocked
Reserve(items) ==
    [i \in Item |-> IF i \notin items THEN 0
                    ELSE IF current[i] # 0 THEN current[i] ELSE reserved[i] + 1]

\* Reservations of names that nobody has published yet count on.
Reserving(items) ==
    /\ \A i \in items : current[i] = 0 => reserved[i] < MaxIds
    /\ reserved' = [i \in Item |->
         IF i \in items /\ current[i] = 0 THEN reserved[i] + 1 ELSE reserved[i]]

\* handleDeclaration, STATE_SYNC: a new transaction replaces the old one.
StateSync(n, paths) ==
    /\ slot[n] \in {"joined", "ready"}
    /\ Reserving(paths)
    /\ stage' = [stage EXCEPT ![n] = [step |-> "state", ids |-> Reserve(paths)]]
    /\ UNCHANGED <<slot, active, given, current, known, state, revision, user, client>>

\* handleDeclaration, EVENT_SYNC
EventSync(n, topics) ==
    /\ stage[n].step = "state"
    /\ Reserving(topics)
    /\ stage' = [stage EXCEPT ![n] =
         [step |-> "events",
          ids |-> [i \in Item |-> IF i \in topics THEN Reserve(topics)[i] ELSE @.ids[i]]]]
    /\ UNCHANGED <<slot, active, given, current, known, state, revision, user, client>>

\* A transaction expires, goes out of order or is refused.
EndStage(n) ==
    /\ stage[n] # NoStage
    /\ stage' = [stage EXCEPT ![n] = NoStage]
    /\ UNCHANGED <<slot, active, given, idVars, state, revision, user, client>>

\* The home's values without those of a coordinator's declared paths.
Released(n) ==
    IF active[n] = NoConfig THEN state
    ELSE [p \in Path |-> IF p \in active[n].paths THEN NoValue ELSE state[p]]

\* Mutant: a new declaration is a change of state only if its paths are new.
ChangesPaths(n, cfg, values) ==
    active[n] = NoConfig \/ active[n].paths # cfg.paths

\* activateLocked, stateChanged: the slot's values are the home's values of the
\* paths it declared.
ChangesState(n, cfg, values) ==
    \/ active[n] = NoConfig
    \/ \E p \in Path :
         (IF p \in active[n].paths THEN state[p] ELSE NoValue)
           # (IF p \in cfg.paths THEN values[p] ELSE NoValue)

\* validateActivationLocked: nothing that another coordinator owns.
Unclaimed(n, cfg) ==
    \A m \in Declared(active) \ {n} :
        active[m].paths \cap cfg.paths = {} /\ active[m].topics \cap cfg.topics = {}

\* The names that a transaction's slices declare.
Staged(n) == {i \in Item : stage[n].ids[i] # 0}

\* Mutant: a name keeps the first identifier it was published under.
RenamedOnce(ids) == [i \in Item |-> IF current[i] # 0 THEN current[i] ELSE ids[i]]

\* activateLocked: the identifiers of the transaction become those of its names,
\* even if the names were published under others meanwhile.
Renamed(ids) == [i \in Item |-> IF ids[i] # 0 THEN ids[i] ELSE current[i]]

\* activateLocked: a whole declaration replaces the previous one.
Activate(n, cfg, values) ==
    /\ stage[n].step = "events" /\ cfg.paths \cup cfg.topics = Staged(n)
    /\ Unclaimed(n, cfg)
    /\ LET rev == IF ChangesState(n, cfg, values) THEN revision + 1 ELSE revision
           act == [active EXCEPT ![n] = cfg]
           cur == Renamed(stage[n].ids)
           st == [p \in Path |-> IF p \in cfg.paths THEN values[p] ELSE Released(n)[p]]
       IN  /\ rev <= MaxRevision
           /\ active' = act /\ current' = cur /\ state' = st /\ revision' = rev
           /\ Republish(act, cur, st, rev)
    /\ known' = known \cup Entries(Staged(n), stage[n].ids)
    /\ given' = [given EXCEPT ![n] = stage[n].ids]
    /\ slot' = [slot EXCEPT ![n] = "ready"]
    /\ stage' = [stage EXCEPT ![n] = NoStage]
    /\ UNCHANGED reserved

\* expireCoordinator and removeCoordinatorLocked; identifiers are never deleted.
Expire(n) ==
    /\ slot[n] = "offline"
    /\ slot' = [slot EXCEPT ![n] = "absent"]
    /\ IF active[n] = NoConfig
       THEN UNCHANGED <<active, state, revision, user, client>>
       ELSE LET act == [active EXCEPT ![n] = NoConfig] IN
            /\ revision < MaxRevision
            /\ active' = act /\ state' = Released(n) /\ revision' = revision + 1
            /\ Republish(act, current, Released(n), revision + 1)
    /\ given' = [given EXCEPT ![n] = NoIds]
    /\ UNCHANGED <<stage, idVars>>

----------------------------------------------------------------------------
\* State

\* Mutant: the patch is based on the home's revision.
PatchBaseOfHome(u) == revision

\* applyStateSet: the revision a session's patch starts from.
PatchBase(u) == IF user[u].last = 0 THEN revision ELSE user[u].last

\* The mutations a session may see, as a patch.  They are forwarded as they are,
\* so the session makes nothing of an identifier its dictionary does not list.
Patched(x, n, changes, via, u) ==
    LET seen == DOMAIN changes \cap See(active, u)
        listed == {p \in seen : <<p, via[p]>> \in x.paths}
        foreign == {p \in seen \ listed : via[p] # given[n][p]}
    IN  [x EXCEPT !.values = [p \in Path |-> IF p \in listed THEN changes[p] ELSE @[p]],
                  !.missed = (@ \ seen) \cup foreign,
                  !.gaps = IF x.revision = PatchBase(u) THEN @ ELSE @ + 1,
                  !.revision = revision + 1]

\* A patch that cannot be encoded is replaced by a snapshot; the dictionary stays.
Resnapped(x, st, u) ==
    [x EXCEPT !.values = Read(x.paths, active, current, st, u), !.missed = {}, !.gaps = 0,
              !.revision = revision + 1]

\* applyStateSet: the ready owner sets or deletes some of its paths, each under
\* any identifier that was ever published for it; sessions that see none of them
\* are sent nothing.  large are the sessions whose patch cannot be encoded.
\* Several mutations of one path count as the last of them.
StateSet(n, changes, via, large) ==
    /\ slot[n] = "ready" /\ active[n] # NoConfig
    /\ DOMAIN changes # {} /\ DOMAIN changes \subseteq active[n].paths
    /\ \A p \in DOMAIN changes : <<p, via[p]>> \in known
    /\ revision < MaxRevision
    /\ LET st == [p \in Path |-> IF p \in DOMAIN changes THEN changes[p] ELSE state[p]]
           told == {u \in User : Available(u) /\ DOMAIN changes \cap See(active, u) # {}}
       IN  /\ state' = st
           /\ client' = [u \in User |->
                IF u \notin told THEN client[u]
                ELSE IF u \in large THEN Resnapped(client[u], st, u)
                ELSE Patched(client[u], n, changes, via, u)]
           /\ user' = [u \in User |->
                IF u \in told THEN [user[u] EXCEPT !.last = revision + 1] ELSE user[u]]
    /\ revision' = revision + 1
    /\ UNCHANGED <<coordVars, idVars>>

\* handleState, STATE_RESYNC
Resync(u) ==
    /\ Available(u)
    /\ client' = [client EXCEPT ![u] = StateShown(@, active, current, state, revision, u)]
    /\ user' = [user EXCEPT ![u].last = revision]
    /\ UNCHANGED <<coordVars, idVars, state, revision>>

----------------------------------------------------------------------------
\* Users

\* attach with userBootstrapLocked
Join(u) ==
    /\ user[u].phase = "new"
    /\ user' = [user EXCEPT ![u].phase = "open", ![u].last = revision]
    /\ client' = [client EXCEPT ![u] = HomeShown(@, active, current, state, revision, u)]
    /\ UNCHANGED <<coordVars, idVars, state, revision>>

\* The session is failed, drained or past its lease, without home.mu: it is sent
\* nothing of the home any more.
Lapse(u) ==
    /\ Available(u)
    /\ user' = [user EXCEPT ![u].phase = "lapsed"]
    /\ client' = [client EXCEPT ![u] = NoClient]
    /\ UNCHANGED <<coordVars, idVars, state, revision>>

\* detach
Leave(u) ==
    /\ u \in Members
    /\ user' = [user EXCEPT ![u] = Idle("gone")]
    /\ client' = [client EXCEPT ![u] = NoClient]
    /\ UNCHANGED <<coordVars, idVars, state, revision>>

----------------------------------------------------------------------------
\* Events

\* subscribe: under identifiers that were ever published, of topics that the
\* session may hear, owned or not.  The request may be one that was read before
\* the session lapsed.
Subscribe(u, ids) ==
    /\ u \in Members
    /\ ids \subseteq known /\ \A e \in ids : e[1] \in Topic \cap Hear(active, u)
    /\ Cardinality(user[u].subs \cup ids) <= MaxSubscriptions
    /\ user' = [user EXCEPT ![u].subs = @ \cup ids]
    /\ UNCHANGED <<coordVars, idVars, state, revision, client>>

\* unsubscribe: all or nothing
Unsubscribe(u, ids) ==
    /\ u \in Members /\ ids \subseteq user[u].subs
    /\ user' = [user EXCEPT ![u].subs = @ \ ids]
    /\ UNCHANGED <<coordVars, idVars, state, revision, client>>

\* routeCoordinatorEventLocked: who an event under an identifier may reach.
Subscribers(t, k) ==
    {u \in User : Available(u) /\ <<t, k>> \in user[u].subs /\ t \in Hear(active, u)}

\* publishEvent by the ready owner, under any identifier that was ever published
\* for the topic, to every subscriber or to one of them.
Publish(n, t, k, targets) ==
    /\ slot[n] = "ready" /\ active[n] # NoConfig /\ t \in active[n].topics
    /\ <<t, k>> \in known
    /\ targets # {} /\ (targets = Subscribers(t, k) \/ Cardinality(targets) = 1)
    /\ targets \subseteq Subscribers(t, k)
    /\ client' = [u \in User |->
         IF u \in targets /\ k = given[n][t] /\ <<t, k>> \notin client[u].topics
         THEN [client[u] EXCEPT !.strays = @ \cup {t}] ELSE client[u]]
    /\ UNCHANGED <<coordVars, idVars, state, revision, user>>

Next ==
    \/ \E n \in Name :
         \/ Attach(n) \/ Detach(n) \/ Expire(n) \/ EndStage(n)
         \/ \E cfg \in Offers[n] :
              \/ StateSync(n, cfg.paths) \/ EventSync(n, cfg.topics)
              \/ \E values \in [cfg.paths -> Value] : Activate(n, cfg, values)
         \/ \E D \in SUBSET Path, large \in SUBSET User :
              \E changes \in [D -> Value \cup {NoValue}], via \in [D -> 1 .. MaxIds] :
                  StateSet(n, changes, via, large)
         \/ \E t \in Topic, k \in 1 .. MaxIds, targets \in SUBSET User :
              Publish(n, t, k, targets)
    \/ \E u \in User :
         \/ Join(u) \/ Lapse(u) \/ Leave(u) \/ Resync(u)
         \/ \E ids \in SUBSET known : Subscribe(u, ids)
         \/ \E ids \in SUBSET user[u].subs : Unsubscribe(u, ids)

Spec == Init /\ [][Next]_vars

----------------------------------------------------------------------------
\* Properties

\* An available session has the home as it may see it, whatever mixture of
\* bootstrap, patches, snapshots and resynchronizations it was sent: dictionaries
\* of the current identifiers, patches that start from the revision it had, and
\* every value, but for the paths a coordinator last set under an identifier it
\* had not been given (applyStateSet, userViewActionsLocked, userBootstrapLocked).
ViewsFollowTheHome ==
    \A u \in User : Available(u) =>
        /\ client[u].paths = Entries(OwnedPaths(active) \cap See(active, u), current)
        /\ \A p \in Path \ client[u].missed :
             client[u].values[p] = View(active, state, u)[p]
        /\ client[u].topics =
             Entries(OwnedTopics(active) \cap (Hear(active, u) \cup Say(active, u)), current)
        /\ client[u].gaps = 0

\* A session holds no subscription it is not allowed, even one that is no
\* longer available (subscribe, pruneSubscriptionsLocked).
SubscriptionsStayAuthorized ==
    \A u \in Members : \A e \in user[u].subs : e[1] \in Hear(active, u)

\* An event whose coordinator names the topic by the identifier it was given is
\* one its receivers' dictionaries list, although others may have declared and
\* published the topic meanwhile (routeCoordinatorEventLocked, activateLocked,
\* topicDictionaryFrameLocked).
EventsAreExpected == \A u \in User : client[u].strays = {}

\* Values shown under one revision differ only when the rights of the session
\* changed, or a resynchronization repairs what it had missed (activateLocked,
\* removeCoordinatorLocked, applyStateSet).
RevisionTellsViewsApart ==
    [][\A u \in User :
          /\ client[u].revision # 0
          /\ client'[u].revision = client[u].revision
          /\ See(active, u)' = See(active, u)
          => \A p \in Path \ client[u].missed :
               client'[u].values[p] = client[u].values[p]]_vars
==============================================================================
