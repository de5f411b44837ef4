---------------------------- MODULE Declarations ----------------------------
(***************************************************************************)
(* The five-slice declaration transaction of a coordinator and what it     *)
(* leaves in the home: ownership of state paths, event topics and          *)
(* functions, their dictionary identifiers, the home's state with its      *)
(* revision, and the policy revision.  Coordinators attach, are replaced,  *)
(* leave, are kept for the grace period and expire; transactions are       *)
(* abandoned, restarted, refused, or run out of time.                      *)
(*                                                                         *)
(* Sources: internal/relay/declarations.go, home.go and state.go.          *)
(*                                                                         *)
(* Every handler runs under home.mu and is one action.  The phase test of  *)
(* connection.handle precedes the lock, so Receive is a step of its own    *)
(* and a connection can fail or be detached between the two.  State paths, *)
(* topics and functions go through three copies of the same code; here     *)
(* they are entries of three kinds.  Timers are modelled by the moment     *)
(* they fire: the callback then waits for the lock.                        *)
(***************************************************************************)
EXTENDS Naturals, FiniteSets

CONSTANTS
    Conn,           \* coordinator connections, each attached at most once
    NameOf,         \* [Conn -> Name], identity.CoordinatorName
    Name,
    Entry,          \* state paths, event topics and function names
    KindOf,         \* [Entry -> Kind]
    Value,          \* values of a state path
    Acl,            \* contents of an ACL slice
    None,           \* no connection, no owner, no name, no value, no ACL
    MaxStatePaths,  \* protocol.MaxStatePathsPerHome
    MaxDictionary,  \* maxDictionaryEntries
    Oversized,      \* responses that may not fit in a frame
    MaxStages,      \* bound: transactions begun
    MaxId,          \* bound: identifiers of one kind a home hands out
    MaxSets         \* bound: STATE_SETs that are carried out

Kind == {"state", "event", "function"}
Response == {"STATE_SYNC_OK", "EVENT_SYNC_OK", "FUNCTION_SYNC_OK"}

ASSUME NamesAssumption ==
    /\ NameOf \in [Conn -> Name]
    /\ KindOf \in [Entry -> Kind]
    /\ None \notin Conn \cup Name \cup Entry \cup Value \cup Acl
ASSUME FiniteAssumption == IsFiniteSet(Entry)
ASSUME BoundAssumption ==
    /\ MaxStatePaths \in Nat /\ MaxDictionary \in Nat
    /\ MaxStages \in Nat /\ MaxId \in Nat /\ MaxSets \in Nat
    /\ Oversized \subseteq Response

Id == 1 .. MaxId
NoId == 0
OfKind(k) == {e \in Entry : KindOf[e] = k}
Path == OfKind("state")
AclSlice == {"STATE_ACL_SYNC", "EVENT_ACL_SYNC"}

VARIABLES
    peer,      \* [Conn -> PeerRecord], struct connection
    stage,     \* [Conn -> Stage], connection.stage
    begun,     \* transactions begun
    overdue,   \* stage timers whose callback waits for home.mu
    slot,      \* [Name -> Slot], home.coordinators
    expiring,  \* grace timers whose callback waits for home.mu
    idOf,      \* pathsByName, topicsByName and functionsByName
    nameOf,    \* pathsByID, topicsByID and functionsByID
    nextID,    \* nextPathID, nextTopicID and nextFunctionID
    owner,     \* stateOwners, topicOwners and functionOwners
    state,     \* home.state
    revision, policy,
    sets       \* STATE_SETs carried out, for the bound

dictVars == <<idOf, nameOf, nextID>>
tableVars == <<owner, state, revision, policy>>
slotVars == <<slot, expiring>>
stageVars == <<stage, begun, overdue>>
vars == <<peer, stageVars, slotVars, dictVars, tableVars, sets>>

----------------------------------------------------------------------------
\* State shapes

\* failed: fail has run, the queue ends in FATAL and phase is Closed.
PeerRecord ==
    [pc : {"new", "serving", "handling"}, attached : BOOLEAN, boot : BOOLEAN,
     failed : BOOLEAN, gen : Nat]

Values == [Path -> Value \cup {None}]
AclPair == [AclSlice -> Acl \cup {None}]
NoAcl == [s \in AclSlice |-> None]
NoValues == [p \in Path |-> None]
NoIds == [e \in Entry |-> NoId]

\* timer says that the transaction's timer is set; serial tells transactions
\* apart, as the pointer does.
Stage ==
    [expected : AclSlice \cup {"none", "EVENT_SYNC", "FUNCTION_SYNC"}, serial : Nat,
     entries : SUBSET Entry, values : Values, acl : AclPair, ids : [Entry -> Id \cup {NoId}],
     timer : BOOLEAN]
NoStage ==
    [expected |-> "none", serial |-> 0, entries |-> {}, values |-> NoValues, acl |-> NoAcl,
     ids |-> NoIds, timer |-> FALSE]

\* declared says that slot.active is set; entries, values and acl are its
\* contents.  A slot with gen 0 does not exist.
Slot ==
    [gen : Nat, conn : Conn \cup {None}, ready : BOOLEAN, grace : BOOLEAN, declared : BOOLEAN,
     entries : SUBSET Entry, values : Values, acl : AclPair]
NoSlot ==
    [gen |-> 0, conn |-> None, ready |-> FALSE, grace |-> FALSE, declared |-> FALSE,
     entries |-> {}, values |-> NoValues, acl |-> NoAcl]

\* The shape of the state: field types of connection, stage, slot and home.
TypeOK ==
    /\ peer \in [Conn -> PeerRecord]
    /\ stage \in [Conn -> Stage]
    /\ begun \in Nat /\ overdue \subseteq Conn \X Nat
    /\ slot \in [Name -> Slot]
    /\ expiring \subseteq Name \X Nat
    /\ idOf \in [Entry -> Id \cup {NoId}]
    /\ nameOf \in [Kind -> [Id -> Entry \cup {None}]]
    /\ nextID \in [Kind -> 1 .. MaxId + 1]
    /\ owner \in [Entry -> Name \cup {None}]
    /\ state \in Values
    /\ revision \in Nat /\ policy \in Nat /\ sets \in Nat

Init ==
    /\ peer = [c \in Conn |-> [pc |-> "new", attached |-> FALSE, boot |-> FALSE,
                               failed |-> FALSE, gen |-> 0]]
    /\ stage = [c \in Conn |-> NoStage]
    /\ begun = 0 /\ overdue = {}
    /\ slot = [n \in Name |-> NoSlot]
    /\ expiring = {}
    /\ idOf = NoIds
    /\ nameOf = [k \in Kind |-> [i \in Id |-> None]]
    /\ nextID = [k \in Kind |-> 1]
    /\ owner = [e \in Entry |-> None]
    /\ state = NoValues
    /\ revision = 1 /\ policy = 1 /\ sets = 0

----------------------------------------------------------------------------
\* Connections: attach, fail, detach

\* home.attach: the next generation of the slot, which is not ready.
TakeOver(s, c) == [s EXCEPT !.gen = @ + 1, !.conn = c, !.ready = FALSE, !.grace = FALSE]

\* home.attach of a coordinator; a bootstrap that fails leaves a connection
\* that was never visible and is about to be failed.
Attach(c) ==
    LET s == slot[NameOf[c]]
    IN  /\ peer[c].pc = "new"
        /\ \E boot \in BOOLEAN :
             peer' = [peer EXCEPT ![c] = [pc |-> "serving", attached |-> TRUE, boot |-> boot,
                                          failed |-> ~boot, gen |-> s.gen + 1]]
        /\ slot' = [slot EXCEPT ![NameOf[c]] = TakeOver(s, c)]
        /\ UNCHANGED <<stageVars, expiring, dictVars, tableVars, sets>>

\* fail, by whoever: the connection that replaces this one, the lease, a queue
\* that is full.
FailAsync(c) ==
    /\ peer[c].attached /\ ~peer[c].failed
    /\ peer' = [peer EXCEPT ![c].failed = TRUE]
    /\ UNCHANGED <<stageVars, slotVars, dictVars, tableVars, sets>>

\* activeCoordinatorLocked(peer, false)
Fenced(c) == slot[NameOf[c]].conn = c /\ slot[NameOf[c]].gen = peer[c].gen

\* detach: the slot of a coordinator that never was visible and has nothing
\* declared goes, any other is kept for the grace period.
SlotAfterDetach(c, s) ==
    IF ~peer[c].boot /\ ~s.declared THEN NoSlot
    ELSE [s EXCEPT !.conn = None, !.ready = FALSE, !.grace = TRUE]

\* home.detach, after fail or when the read loop has ended.
Detach(c) ==
    /\ peer[c].attached
    /\ peer[c].failed \/ peer[c].pc = "serving"
    /\ peer' = [peer EXCEPT ![c].attached = FALSE]
    /\ stage' = [stage EXCEPT ![c] = NoStage]
    /\ slot' = IF Fenced(c)
               THEN [slot EXCEPT ![NameOf[c]] = SlotAfterDetach(c, slot[NameOf[c]])]
               ELSE slot
    /\ UNCHANGED <<begun, overdue, expiring, dictVars, tableVars, sets>>

\* connection.handle admits a frame: the phase is not Closed.
Receive(c) ==
    /\ peer[c].pc = "serving" /\ peer[c].attached /\ ~peer[c].failed
    /\ peer' = [peer EXCEPT ![c].pc = "handling"]
    /\ UNCHANGED <<stageVars, slotVars, dictVars, tableVars, sets>>

\* The handler returns to the read loop.
Handled(c) == peer' = [peer EXCEPT ![c].pc = "serving"]

\* The handler returns a fatal failure: the read loop fails the connection.
HandledFatally(c) == peer' = [peer EXCEPT ![c].pc = "serving", ![c].failed = TRUE]

\* The guards every handler shares.
Handling(c) == peer[c].pc = "handling" /\ Fenced(c)

\* The coordinator lost its slot between the phase test and the lock.
Superseded(c) ==
    /\ peer[c].pc = "handling" /\ ~Fenced(c)
    /\ HandledFatally(c)
    /\ UNCHANGED <<stageVars, slotVars, dictVars, tableVars, sets>>

\* enqueue takes a response unless FATAL is queued; the queue may also be full,
\* so every response can be refused.
Queueable(c) == ~peer[c].failed

\* validateEncodable
Fits(response) == IF response \in Oversized THEN BOOLEAN ELSE {TRUE}

----------------------------------------------------------------------------
\* Dictionary identifiers

\* reserveXIDLocked: whether the home's dictionary already has the name.
Known(e) == idOf[e] # NoId

Fresh(D) == {e \in D : ~Known(e)}

\* reserveXIDLocked over a slice: a known name keeps its identifier, the others
\* take the next ones, in the order the map is walked.
Reserves(k, D, ids) ==
    LET fresh == Fresh(D)
    IN  /\ \A e \in D \ fresh : ids[e] = idOf[e]
        /\ \A e \in fresh : nextID[k] <= ids[e] /\ ids[e] < nextID[k] + Cardinality(fresh)
        /\ \A d, e \in fresh : ids[d] = ids[e] => d = e

\* Mutant: the counter only moves when a transaction is activated.
HandOutLater(k, D) == nextID' = nextID

\* The counter after the slice.
HandOut(k, D) == nextID' = [nextID EXCEPT ![k] = @ + Cardinality(Fresh(D))]

CanHandOut(k, D) == nextID[k] + Cardinality(Fresh(D)) <= MaxId + 1

----------------------------------------------------------------------------
\* The slices of a declaration transaction

\* handleDeclaration: the stage STATE_SYNC begins, with its timer.
Begin(c, D, values, ids) ==
    [NoStage EXCEPT !.expected = "STATE_ACL_SYNC", !.serial = begun + 1,
                    !.entries = D, !.values = [p \in Path |-> IF p \in D THEN values[p] ELSE None],
                    !.ids = [e \in Entry |-> IF e \in D THEN ids[e] ELSE NoId],
                    !.timer = TRUE]

\* STATE_SYNC stops the timer of the transaction it abandons.  A response that
\* does not fit in a frame refuses the slice before the stage is replaced.
StateSlice(c, D, values, ids, fits) ==
    /\ CanHandOut("state", D) /\ HandOut("state", D)
    /\ Reserves("state", D, ids)
    /\ \/ /\ ~fits
          /\ stage' = [stage EXCEPT ![c].timer = FALSE]
          /\ Handled(c) /\ begun' = begun
       \/ /\ fits
          /\ stage' = [stage EXCEPT ![c] = NoStage]
          /\ HandledFatally(c) /\ begun' = begun
       \/ /\ fits /\ Queueable(c)
          /\ stage' = [stage EXCEPT ![c] = Begin(c, D, values, ids)]
          /\ Handled(c) /\ begun' = begun + 1

StateSync(c) ==
    /\ Handling(c) /\ begun < MaxStages
    /\ \E D \in SUBSET Path : \E values \in [D -> Value], ids \in [D -> Id] :
         \E fits \in Fits("STATE_SYNC_OK") : StateSlice(c, D, values, ids, fits)
    /\ UNCHANGED <<overdue, slotVars, idOf, nameOf, tableVars, sets>>

\* A slice that is not the one expected drops the transaction.
WrongSlice(c) ==
    /\ Handling(c)
    /\ stage' = [stage EXCEPT ![c] = NoStage]
    /\ Handled(c)
    /\ UNCHANGED <<begun, overdue, slotVars, dictVars, tableVars, sets>>

AfterAcl(s) == IF s = "STATE_ACL_SYNC" THEN "EVENT_SYNC" ELSE "FUNCTION_SYNC"

\* STATE_ACL_SYNC and EVENT_ACL_SYNC; the stage advances before it is answered.
AclSync(c) ==
    LET s == stage[c].expected
    IN  /\ Handling(c) /\ s \in AclSlice
        /\ \E a \in Acl :
             stage' = [stage EXCEPT ![c].acl[s] = a, ![c].expected = AfterAcl(s)]
        /\ \/ Queueable(c) /\ Handled(c)
           \/ HandledFatally(c)
        /\ UNCHANGED <<begun, overdue, slotVars, dictVars, tableVars, sets>>

\* What the stage holds after a slice of names.
Extend(st, D, ids) ==
    [st EXCEPT !.entries = @ \cup D, !.ids = [e \in Entry |-> IF e \in D THEN ids[e] ELSE @[e]]]

Expect(st, slice) == [st EXCEPT !.expected = slice]

\* EVENT_SYNC; the stage advances before it is answered.
EventSlice(c, D, ids, fits) ==
    /\ CanHandOut("event", D) /\ HandOut("event", D)
    /\ Reserves("event", D, ids)
    /\ \/ /\ ~fits
          /\ stage' = [stage EXCEPT ![c] = NoStage]
          /\ Handled(c)
       \/ /\ fits
          /\ stage' = [stage EXCEPT ![c] = Expect(Extend(stage[c], D, ids), "EVENT_ACL_SYNC")]
          /\ (Queueable(c) /\ Handled(c)) \/ HandledFatally(c)

EventSync(c) ==
    /\ Handling(c) /\ stage[c].expected = "EVENT_SYNC"
    /\ \E D \in SUBSET OfKind("event") : \E ids \in [D -> Id] :
         \E fits \in Fits("EVENT_SYNC_OK") : EventSlice(c, D, ids, fits)
    /\ UNCHANGED <<begun, overdue, slotVars, idOf, nameOf, tableVars, sets>>

----------------------------------------------------------------------------
\* FUNCTION_SYNC: final validation and activation

\* Mutant: a name is only taken while its owner is connected.
CollidesOnline(n, D) ==
    \E e \in D : owner[e] \notin {None, n} /\ slot[owner[e]].conn # None

\* validateActivationLocked: some name belongs to another coordinator.
Collides(n, D) == \E e \in D : owner[e] \notin {None, n}

OwnedOfKind(k) == {e \in OfKind(k) : owner[e] # None}

\* Mutant: the names the coordinator declares again are counted once only.
AggregateCountOnce(k, n, D) ==
    Cardinality(OwnedOfKind(k)) - Cardinality(slot[n].entries \cap OfKind(k))
        + Cardinality((D \ slot[n].entries) \cap OfKind(k))

\* aggregateStateCountLocked, aggregateTopicCountLocked, aggregateFunctionCountLocked
AggregateCount(k, n, D) ==
    Cardinality(OwnedOfKind(k)) - Cardinality(slot[n].entries \cap OfKind(k))
        + Cardinality(D \cap OfKind(k))

\* aggregateDictionaryCount: the dictionary once the staged names are in it.
DictionaryCount(k, D) == Cardinality({e \in OfKind(k) : Known(e) \/ e \in D})

WithinLimits(n, D) ==
    /\ AggregateCount("state", n, D) <= MaxStatePaths
    /\ \A k \in Kind : DictionaryCount(k, D) <= MaxDictionary
    /\ \A k \in {"event", "function"} : AggregateCount(k, n, D) <= MaxDictionary

\* Mutant: the ACLs are not compared.
SameNames(s, st) == s.entries \ Path = st.entries \ Path

\* policyChanged compares topics, functions and both ACLs.
SamePolicy(s, st) == s.entries \ Path = st.entries \ Path /\ s.acl = st.acl

\* Mutant: what is no longer declared stays with its coordinator.
OwnAsWell(n, D) == [e \in Entry |-> IF e \in D THEN n ELSE owner[e]]

\* activateLocked: the previous set is given up, then the new one is taken.
Own(n, D) ==
    [e \in Entry |-> IF e \in D THEN n ELSE IF e \in slot[n].entries THEN None ELSE owner[e]]

\* The home's state: the values of the new set for those of the previous one.
StateAfter(n, D, values) ==
    [p \in Path |-> IF p \in D THEN values[p] ELSE IF p \in slot[n].entries THEN None ELSE state[p]]

\* The dictionaries of the home and of the stage.
Learn(st) ==
    /\ idOf' = [e \in Entry |-> IF e \in st.entries THEN st.ids[e] ELSE idOf[e]]
    /\ nameOf' = [k \in Kind |-> [i \in Id |->
                    IF \E e \in st.entries : KindOf[e] = k /\ st.ids[e] = i
                      THEN CHOOSE e \in st.entries : KindOf[e] = k /\ st.ids[e] = i
                      ELSE nameOf[k][i]]]

Configure(s, st) ==
    [s EXCEPT !.declared = TRUE, !.ready = TRUE, !.entries = st.entries,
              !.values = st.values, !.acl = st.acl]

\* activateLocked, once FUNCTION_SYNC_OK is queued.
Activate(c, st) ==
    LET n == NameOf[c]
        previous == slot[n]
    IN  /\ owner' = Own(n, st.entries)
        /\ state' = StateAfter(n, st.entries, st.values)
        /\ Learn(st)
        /\ slot' = [slot EXCEPT ![n] = Configure(previous, st)]
        /\ revision' = IF ~previous.declared \/ previous.values # st.values
                         THEN revision + 1 ELSE revision
        /\ policy' = IF ~previous.declared \/ ~SamePolicy(previous, st)
                       THEN policy + 1 ELSE policy

\* FUNCTION_SYNC: a set that is refused fails no connection; one that cannot be
\* answered does; neither leaves a trace but the identifiers handed out.
FunctionSlice(c, D, ids, fits) ==
    LET st == Extend(stage[c], D, ids)
        valid == ~Collides(NameOf[c], st.entries) /\ WithinLimits(NameOf[c], st.entries) /\ fits
    IN  /\ CanHandOut("function", D) /\ HandOut("function", D)
        /\ Reserves("function", D, ids)
        /\ \/ ~valid /\ Handled(c) /\ UNCHANGED <<slot, idOf, nameOf, tableVars>>
           \/ valid /\ HandledFatally(c) /\ UNCHANGED <<slot, idOf, nameOf, tableVars>>
           \/ valid /\ Queueable(c) /\ Handled(c) /\ Activate(c, st)

\* FUNCTION_SYNC completes the transaction, which ends in every case.
FunctionSync(c) ==
    /\ Handling(c) /\ stage[c].expected = "FUNCTION_SYNC"
    /\ stage' = [stage EXCEPT ![c] = NoStage]
    /\ \E D \in SUBSET OfKind("function") : \E ids \in [D -> Id] :
         \E fits \in Fits("FUNCTION_SYNC_OK") : FunctionSlice(c, D, ids, fits)
    /\ UNCHANGED <<begun, overdue, expiring, sets>>

----------------------------------------------------------------------------
\* STATE_SET

\* Mutant: only the home's copy of the state is written.
KeepConfig(s, D, values) == s

\* applyStateSet writes the home's state and the coordinator's configuration.
SetConfig(s, D, values) ==
    [s EXCEPT !.values = [p \in Path |-> IF p \in D THEN values[p] ELSE @[p]]]

\* Paths are named by identifier; every path of the frame must be owned by the
\* coordinator.  A mutation may delete a path, which stays declared.
Settable(n, D) ==
    /\ slot[n].ready /\ slot[n].declared
    /\ \A p \in D : owner[p] = n /\ p \in slot[n].entries

StateSet(c) ==
    LET n == NameOf[c]
    IN  /\ Handling(c) /\ sets < MaxSets
        /\ \E D \in SUBSET {nameOf["state"][i] : i \in Id} :
             /\ None \notin D /\ Settable(n, D)
             /\ \/ /\ HandledFatally(c)
                   /\ UNCHANGED <<slot, tableVars, sets>>
                \/ /\ Queueable(c) /\ Handled(c)
                   /\ \E values \in [D -> Value \cup {None}] :
                        /\ state' = [p \in Path |-> IF p \in D THEN values[p] ELSE state[p]]
                        /\ slot' = [slot EXCEPT ![n] = SetConfig(slot[n], D, values)]
                   /\ revision' = revision + 1
                   /\ sets' = sets + 1
                   /\ UNCHANGED <<owner, policy>>
        /\ UNCHANGED <<stageVars, expiring, dictVars>>

\* A STATE_SET that names another path, comes before activation, or whose
\* patches would not fit in a frame, and every frame that does not declare.
OtherFrame(c) ==
    /\ Handling(c)
    /\ Handled(c)
    /\ UNCHANGED <<stageVars, slotVars, dictVars, tableVars, sets>>

----------------------------------------------------------------------------
\* Timers

StageTimerFires(c) ==
    /\ stage[c].timer
    /\ stage' = [stage EXCEPT ![c].timer = FALSE]
    /\ overdue' = overdue \cup {<<c, stage[c].serial>>}
    /\ UNCHANGED <<peer, begun, slotVars, dictVars, tableVars, sets>>

\* expireStage: the stage is dropped if it is still the connection's stage.
ExpireStage(c, serial) ==
    /\ <<c, serial>> \in overdue
    /\ overdue' = overdue \ {<<c, serial>>}
    /\ stage' = IF stage[c].serial = serial THEN [stage EXCEPT ![c] = NoStage] ELSE stage
    /\ UNCHANGED <<peer, begun, slotVars, dictVars, tableVars, sets>>

GraceFires(n) ==
    /\ slot[n].grace
    /\ slot' = [slot EXCEPT ![n].grace = FALSE]
    /\ expiring' = expiring \cup {<<n, slot[n].gen>>}
    /\ UNCHANGED <<peer, stageVars, dictVars, tableVars, sets>>

\* Mutant: the slot goes, what it declared stays in the tables.
RemoveNothing(n) == UNCHANGED tableVars

\* removeCoordinatorLocked
RemoveCoordinator(n) ==
    IF slot[n].declared
      THEN /\ owner' = [e \in Entry |-> IF e \in slot[n].entries THEN None ELSE owner[e]]
           /\ state' = [p \in Path |-> IF p \in slot[n].entries THEN None ELSE state[p]]
           /\ revision' = revision + 1
           /\ policy' = policy + 1
      ELSE UNCHANGED tableVars

\* expireCoordinator
ExpireCoordinator(n, gen) ==
    /\ <<n, gen>> \in expiring
    /\ expiring' = expiring \ {<<n, gen>>}
    /\ IF slot[n].gen = gen /\ slot[n].conn = None
         THEN slot' = [slot EXCEPT ![n] = NoSlot] /\ RemoveCoordinator(n)
         ELSE UNCHANGED <<slot, tableVars>>
    /\ UNCHANGED <<peer, stageVars, dictVars, sets>>

----------------------------------------------------------------------------
Handler(c) ==
    \/ Superseded(c) \/ WrongSlice(c) \/ OtherFrame(c)
    \/ StateSync(c) \/ AclSync(c) \/ EventSync(c) \/ FunctionSync(c) \/ StateSet(c)

Connection(c) == Attach(c) \/ FailAsync(c) \/ Detach(c) \/ Receive(c) \/ StageTimerFires(c)

Next ==
    \/ \E c \in Conn : Connection(c) \/ Handler(c)
    \/ \E t \in overdue : ExpireStage(t[1], t[2])
    \/ \E n \in Name : GraceFires(n)
    \/ \E t \in expiring : ExpireCoordinator(t[1], t[2])

Spec == Init /\ [][Next]_vars

----------------------------------------------------------------------------
\* Safety

\* What the owner tables say a coordinator holds.
HeldBy(n) == {e \in Entry : owner[e] = n}

\* activateLocked and removeCoordinatorLocked: the owner tables and the active
\* declarations of the slots say the same, through replacement, the grace
\* period and expiry, so no name is routed to a coordinator that is gone and
\* none stays taken.
OwnersMatchConfigs == \A n \in Name : HeldBy(n) = slot[n].entries

\* activateLocked, applyStateSet and removeCoordinatorLocked: the home's state
\* is what the owners' own copies say, and an unowned path has no value.
StateMatchesConfigs ==
    \A p \in Path : state[p] = IF owner[p] = None THEN None ELSE slot[owner[p]].values[p]

\* reserveXIDLocked and activateLocked: the identifier a name was given leads
\* back to that name, though stages reserve identifiers concurrently and most
\* of them are never activated.
DictionaryAgrees ==
    \A e \in Entry : idOf[e] # NoId => nameOf[KindOf[e]][idOf[e]] = e

\* validateActivationLocked: counting the tables less the previous set keeps the
\* home within its limits.
WithinHomeLimits ==
    /\ Cardinality(OwnedOfKind("state")) <= MaxStatePaths
    /\ \A k \in Kind : Cardinality({e \in OfKind(k) : idOf[e] # NoId}) <= MaxDictionary

\* README.md, MIAKAPP_DECLARATION_TIMEOUT: an incomplete declaration transaction
\* has a lifetime; its timer is set or its callback is on the way.
StageHasDeadline ==
    \A c \in Conn : stage[c].expected # "none" =>
        stage[c].timer \/ <<c, stage[c].serial>> \in overdue

\* reserveXIDLocked: an identifier never changes its meaning while the home
\* lives, so a frame in flight cannot be read as being about another name.
IdsKeepTheirMeaning ==
    [][\A k \in Kind, i \in Id : nameOf[k][i] # None => nameOf'[k][i] = nameOf[k][i]]_vars

\* Stages of two coordinators may hold different identifiers for one name; a
\* name still keeps its identifier as long as it has the same owner.
OwnedIdsAreStable ==
    [][\A e \in Entry : owner[e] # None /\ owner'[e] = owner[e] => idOf'[e] = idOf[e]]_vars

\* activateLocked compares with the previous configuration: the home's state
\* never changes under an old revision.
StateChangesRevision == [][state' # state => revision' > revision]_vars

\* activateLocked and removeCoordinatorLocked: no topic, function or ACL that is
\* in force changes under an old policy revision.
InForce ==
    [n \in Name |-> IF slot[n].declared THEN <<slot[n].entries \ Path, slot[n].acl>> ELSE <<>>]
PolicyChangesRevision == [][InForce' # InForce => policy' > policy]_vars

\* The declarations implement what Ownership promises.
Abstract == INSTANCE Ownership WITH held <- [n \in Name |-> HeldBy(n)]
ImplementsOwnership == Abstract!Spec

=============================================================================
