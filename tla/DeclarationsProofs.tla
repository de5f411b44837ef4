------------------------- MODULE DeclarationsProofs -------------------------
(***************************************************************************)
(* Type correctness of Declarations; ownership and state follow the active *)
(* declarations, Declarations implements Ownership, every change of state  *)
(* or of policy has its revision, and the home stays within its limits: for *)
(* every set of connections, coordinators and entries and for every bound. *)
(***************************************************************************)
EXTENDS Declarations, FiniteSetTheorems, TLAPS

USE DEF Kind, Response, AclSlice, NoId

\* reserveXIDLocked hands out a whole number of identifiers.
LEMMA FreshIsCounted ==
    ASSUME NEW D \in SUBSET Entry
    PROVE  Cardinality(Fresh(D)) \in Nat
<1>1. IsFiniteSet(Fresh(D))
  BY FS_Subset, FiniteAssumption DEF Fresh
<1> QED
  BY <1>1, FS_CardinalityType

\* The initial values are of their types.
LEMMA InitialShapes ==
    /\ NoValues \in Values
    /\ NoAcl \in AclPair
    /\ NoIds \in [Entry -> Id \cup {NoId}]
    /\ NoStage \in Stage
    /\ NoSlot \in Slot
<1>1. NoValues \in Values /\ NoAcl \in AclPair /\ NoIds \in [Entry -> Id \cup {NoId}]
  BY DEF NoValues, Values, NoAcl, AclPair, NoIds
<1>2. NoStage \in Stage
  BY <1>1 DEF NoStage, Stage
<1>3. NoSlot \in Slot
  BY <1>1 DEF NoSlot, Slot
<1> QED
  BY <1>1, <1>2, <1>3

\* The initial state has the shape.
LEMMA InitType == Init => TypeOK
<1> SUFFICES ASSUME Init PROVE TypeOK
  OBVIOUS
<1>1. peer \in [Conn -> PeerRecord]
  BY DEF Init, PeerRecord
<1>2. stage \in [Conn -> Stage] /\ slot \in [Name -> Slot]
  BY InitialShapes DEF Init
<1>3. idOf \in [Entry -> Id \cup {NoId}] /\ state \in Values
  BY InitialShapes DEF Init
<1>4. nextID \in [Kind -> 1 .. MaxId + 1]
  BY BoundAssumption DEF Init
<1> QED
  BY <1>1, <1>2, <1>3, <1>4 DEF Init, TypeOK

----------------------------------------------------------------------------
\* The operators on slots and stages stay within their types.

\* A slot taken over by a new connection is a slot.
LEMMA TakeOverType ==
    ASSUME NEW s \in Slot, NEW c \in Conn
    PROVE  TakeOver(s, c) \in Slot
<1>1. s.gen + 1 \in Nat
  BY DEF Slot
<1> QED
  BY <1>1, Zenon DEF TakeOver, Slot

\* A slot whose connection detached is a slot.
LEMMA SlotAfterDetachType ==
    ASSUME NEW s \in Slot, NEW c \in Conn
    PROVE  SlotAfterDetach(c, s) \in Slot
<1>1. [s EXCEPT !.conn = None, !.ready = FALSE, !.grace = TRUE] \in Slot
  BY Zenon DEF Slot
<1> QED
  BY <1>1, InitialShapes DEF SlotAfterDetach

\* Activating a stage configures a slot.
LEMMA ConfigureType ==
    ASSUME NEW s \in Slot, NEW st \in Stage
    PROVE  Configure(s, st) \in Slot
BY Zenon DEF Configure, Slot, Stage

\* STATE_SET leaves a slot with a value or none for every path.
LEMMA SetConfigType ==
    ASSUME NEW s \in Slot, NEW D, NEW values \in [D -> Value \cup {None}]
    PROVE  SetConfig(s, D, values) \in Slot
<1>1. s.values \in Values
  BY DEF Slot
<1>2. [p \in Path |-> IF p \in D THEN values[p] ELSE s.values[p]] \in Values
  BY <1>1 DEF Values
<1> QED
  BY <1>2, Zenon DEF SetConfig, Slot

\* STATE_SYNC starts a stage of the right shape.
LEMMA BeginType ==
    ASSUME NEW c, begun \in Nat, NEW D \in SUBSET Path,
           NEW values \in [D -> Value], NEW ids \in [D -> Id]
    PROVE  Begin(c, D, values, ids) \in Stage
<1>1. [p \in Path |-> IF p \in D THEN values[p] ELSE None] \in Values
  BY DEF Values
<1>2. [e \in Entry |-> IF e \in D THEN ids[e] ELSE NoId] \in [Entry -> Id \cup {NoId}]
  OBVIOUS
<1>3. D \in SUBSET Entry /\ begun + 1 \in Nat
  BY DEF Path, OfKind
<1>4. "STATE_ACL_SYNC" \in AclSlice \cup {"none", "EVENT_SYNC", "FUNCTION_SYNC"}
  OBVIOUS
<1> QED
  BY <1>1, <1>2, <1>3, <1>4, InitialShapes, Zenon DEF Begin, Stage

\* A further slice extends a stage of the right shape.
LEMMA ExtendType ==
    ASSUME NEW st \in Stage, NEW D \in SUBSET Entry, NEW ids \in [D -> Id]
    PROVE  Extend(st, D, ids) \in Stage
<1>1. st.ids \in [Entry -> Id \cup {NoId}] /\ st.entries \in SUBSET Entry
  BY DEF Stage
<1>2. [e \in Entry |-> IF e \in D THEN ids[e] ELSE st.ids[e]] \in [Entry -> Id \cup {NoId}]
  BY <1>1
<1>3. st.entries \cup D \in SUBSET Entry
  BY <1>1
<1> QED
  BY <1>2, <1>3, Zenon DEF Extend, Stage

\* Moving a stage on to its next slice keeps its shape.
LEMMA ExpectType ==
    ASSUME NEW st \in Stage
    PROVE  Expect(st, "EVENT_ACL_SYNC") \in Stage
BY Zenon DEF Expect, Stage

----------------------------------------------------------------------------
\* Type correctness, one lemma per handler that changes more than its peer.

\* Attach, detach and the read loop keep the shape.
LEMMA ConnectionType ==
    ASSUME TypeOK, NEW c \in Conn, Connection(c)
    PROVE  TypeOK'
<1>0. /\ NameOf[c] \in Name
      /\ peer \in [Conn -> PeerRecord] /\ stage \in [Conn -> Stage] /\ slot \in [Name -> Slot]
  BY NamesAssumption DEF TypeOK
<1>1. CASE Attach(c)
  <2>1. slot[NameOf[c]].gen + 1 \in Nat
    BY <1>0 DEF Slot
  <2>2. peer' \in [Conn -> PeerRecord]
    <3>1. PICK boot \in BOOLEAN :
            peer' = [peer EXCEPT ![c] = [pc |-> "serving", attached |-> TRUE, boot |-> boot,
                                         failed |-> ~boot, gen |-> slot[NameOf[c]].gen + 1]]
      BY <1>1 DEF Attach
    <3>2. [pc |-> "serving", attached |-> TRUE, boot |-> boot, failed |-> ~boot,
           gen |-> slot[NameOf[c]].gen + 1] \in PeerRecord
      BY <2>1, Zenon DEF PeerRecord
    <3> QED
      BY <1>0, <3>1, <3>2
  <2>3. slot' \in [Name -> Slot]
    BY <1>0, <1>1, TakeOverType DEF Attach
  <2> QED
    BY <1>1, <2>2, <2>3 DEF TypeOK, Attach, stageVars, dictVars, tableVars
<1>2. CASE FailAsync(c)
  <2>1. peer' \in [Conn -> PeerRecord]
    BY <1>0, <1>2, Zenon DEF FailAsync, PeerRecord
  <2> QED
    BY <1>2, <2>1 DEF TypeOK, FailAsync, stageVars, slotVars, dictVars, tableVars
<1>3. CASE Detach(c)
  <2>1. peer' \in [Conn -> PeerRecord]
    BY <1>0, <1>3, Zenon DEF Detach, PeerRecord
  <2>2. stage' \in [Conn -> Stage]
    BY <1>0, <1>3, InitialShapes DEF Detach
  <2>3. slot' \in [Name -> Slot]
    BY <1>0, <1>3, SlotAfterDetachType DEF Detach
  <2> QED
    BY <1>3, <2>1, <2>2, <2>3 DEF TypeOK, Detach, dictVars, tableVars
<1>4. CASE Receive(c)
  <2>1. peer' \in [Conn -> PeerRecord]
    BY <1>0, <1>4, Zenon DEF Receive, PeerRecord
  <2> QED
    BY <1>4, <2>1 DEF TypeOK, Receive, stageVars, slotVars, dictVars, tableVars
<1>5. CASE StageTimerFires(c)
  <2>1. stage' \in [Conn -> Stage]
    BY <1>0, <1>5, ZenonT(40) DEF StageTimerFires, Stage
  <2>2. stage[c].serial \in Nat
    BY <1>0 DEF Stage
  <2> QED
    BY <1>5, <2>1, <2>2 DEF TypeOK, StageTimerFires, slotVars, dictVars, tableVars
<1> QED
  BY <1>1, <1>2, <1>3, <1>4, <1>5 DEF Connection

\* A handler only returns to the read loop or fails the connection.
LEMMA HandledType ==
    ASSUME TypeOK, NEW c \in Conn, Handled(c) \/ HandledFatally(c)
    PROVE  peer' \in [Conn -> PeerRecord]
<1>1. peer \in [Conn -> PeerRecord]
  BY DEF TypeOK
<1>2. CASE Handled(c)
  BY <1>1, <1>2, Zenon DEF Handled, PeerRecord
<1>3. CASE HandledFatally(c)
  BY <1>1, <1>3, ZenonT(40) DEF HandledFatally, PeerRecord
<1> QED
  BY <1>2, <1>3

\* Handing out identifiers keeps the counters within the bound.
LEMMA HandOutType ==
    ASSUME TypeOK, NEW k \in Kind, NEW D \in SUBSET Entry, CanHandOut(k, D), HandOut(k, D)
    PROVE  nextID' \in [Kind -> 1 .. MaxId + 1]
<1>1. Cardinality(Fresh(D)) \in Nat
  BY FreshIsCounted
<1>2. nextID[k] + Cardinality(Fresh(D)) \in 1 .. MaxId + 1
  BY <1>1, BoundAssumption DEF TypeOK, CanHandOut
<1> QED
  BY <1>2 DEF TypeOK, HandOut

\* STATE_SYNC keeps the shape.
LEMMA StateSyncType ==
    ASSUME TypeOK, NEW c \in Conn, StateSync(c)
    PROVE  TypeOK'
<1>0. PICK D \in SUBSET Path : \E values \in [D -> Value], ids \in [D -> Id], fits \in BOOLEAN :
        StateSlice(c, D, values, ids, fits)
  BY DEF StateSync, Fits
<1>1. PICK values \in [D -> Value], ids \in [D -> Id], fits \in BOOLEAN :
        StateSlice(c, D, values, ids, fits)
  BY <1>0
<1>2. Begin(c, D, values, ids) \in Stage
  BY BeginType DEF TypeOK
<1>3. stage \in [Conn -> Stage]
  BY DEF TypeOK
<1>4. [stage EXCEPT ![c].timer = FALSE] \in [Conn -> Stage]
  BY <1>3, Zenon DEF Stage
<1>5. stage' \in [Conn -> Stage]
  <2>1. \/ stage' = [stage EXCEPT ![c].timer = FALSE]
        \/ \E st \in Stage : stage' = [stage EXCEPT ![c] = st]
    BY <1>1, <1>2, InitialShapes DEF StateSlice
  <2> QED
    BY <1>3, <1>4, <2>1
<1>6. peer' \in [Conn -> PeerRecord]
  BY <1>1, HandledType DEF StateSlice
<1>7. nextID' \in [Kind -> 1 .. MaxId + 1]
  BY <1>1, HandOutType DEF StateSlice, Path, OfKind
<1>8. begun' \in Nat
  BY <1>1 DEF TypeOK, StateSlice
<1> QED
  BY <1>5, <1>6, <1>7, <1>8 DEF TypeOK, StateSync, slotVars, tableVars

\* STATE_ACL_SYNC and EVENT_ACL_SYNC keep the shape.
LEMMA AclSyncType ==
    ASSUME TypeOK, NEW c \in Conn, AclSync(c)
    PROVE  TypeOK'
<1> DEFINE s == stage[c].expected
<1>1. stage \in [Conn -> Stage] /\ s \in AclSlice
  BY DEF TypeOK, AclSync
<1>2. PICK a \in Acl : stage' = [stage EXCEPT ![c].acl[s] = a, ![c].expected = AfterAcl(s)]
  BY DEF AclSync
<1>3. [stage[c].acl EXCEPT ![s] = a] \in AclPair
  BY <1>1 DEF Stage, AclPair
<1>4. AfterAcl(s) \in {"EVENT_SYNC", "FUNCTION_SYNC"}
  BY DEF AfterAcl
<1>5. stage' \in [Conn -> Stage]
  BY <1>1, <1>2, <1>3, <1>4, ZenonT(40) DEF Stage
<1>6. peer' \in [Conn -> PeerRecord]
  BY HandledType DEF AclSync
<1> QED
  BY <1>5, <1>6 DEF TypeOK, AclSync, slotVars, dictVars, tableVars

\* EVENT_SYNC keeps the shape.
LEMMA EventSyncType ==
    ASSUME TypeOK, NEW c \in Conn, EventSync(c)
    PROVE  TypeOK'
<1>0. PICK D \in SUBSET OfKind("event") : \E ids \in [D -> Id], fits \in BOOLEAN :
        EventSlice(c, D, ids, fits)
  BY DEF EventSync, Fits
<1>1. PICK ids \in [D -> Id], fits \in BOOLEAN : EventSlice(c, D, ids, fits)
  BY <1>0
<1>2. D \in SUBSET Entry
  BY DEF OfKind
<1>3. Expect(Extend(stage[c], D, ids), "EVENT_ACL_SYNC") \in Stage
  BY <1>2, ExtendType, ExpectType DEF TypeOK
<1>4. stage' \in [Conn -> Stage]
  BY <1>1, <1>3, InitialShapes DEF TypeOK, EventSlice
<1>5. peer' \in [Conn -> PeerRecord]
  BY <1>1, HandledType DEF EventSlice
<1>6. nextID' \in [Kind -> 1 .. MaxId + 1]
  BY <1>1, <1>2, HandOutType DEF EventSlice
<1> QED
  BY <1>4, <1>5, <1>6 DEF TypeOK, EventSync, slotVars, tableVars

\* Activation fills the tables of the home with values of their types.
LEMMA ActivateType ==
    ASSUME TypeOK, NEW c \in Conn, NEW st \in Stage, Activate(c, st)
    PROVE  /\ slot' \in [Name -> Slot]
           /\ idOf' \in [Entry -> Id \cup {NoId}]
           /\ nameOf' \in [Kind -> [Id -> Entry \cup {None}]]
           /\ owner' \in [Entry -> Name \cup {None}]
           /\ state' \in Values
           /\ revision' \in Nat /\ policy' \in Nat
<1>1. /\ NameOf[c] \in Name
      /\ st.entries \in SUBSET Entry /\ st.values \in Values
      /\ st.ids \in [Entry -> Id \cup {NoId}]
  BY NamesAssumption DEF Stage
<1>2. slot' \in [Name -> Slot]
  BY <1>1, ConfigureType DEF TypeOK, Activate
<1>3. idOf' \in [Entry -> Id \cup {NoId}]
  BY <1>1 DEF TypeOK, Activate, Learn
<1>4. nameOf' \in [Kind -> [Id -> Entry \cup {None}]]
  BY <1>1 DEF TypeOK, Activate, Learn
<1>5. owner' \in [Entry -> Name \cup {None}]
  BY <1>1 DEF TypeOK, Activate, Own
<1>6. state' \in Values
  BY <1>1 DEF TypeOK, Activate, StateAfter, Values
<1>7. revision' \in Nat /\ policy' \in Nat
  BY DEF TypeOK, Activate
<1> QED
  BY <1>2, <1>3, <1>4, <1>5, <1>6, <1>7

\* FUNCTION_SYNC, whether it activates or is refused, keeps the shape.
LEMMA FunctionSyncType ==
    ASSUME TypeOK, NEW c \in Conn, FunctionSync(c)
    PROVE  TypeOK'
<1>0. PICK D \in SUBSET OfKind("function") : \E ids \in [D -> Id], fits \in BOOLEAN :
        FunctionSlice(c, D, ids, fits)
  BY DEF FunctionSync, Fits
<1>1. PICK ids \in [D -> Id], fits \in BOOLEAN : FunctionSlice(c, D, ids, fits)
  BY <1>0
<1>2. D \in SUBSET Entry
  BY DEF OfKind
<1> DEFINE st == Extend(stage[c], D, ids)
<1>3. st \in Stage
  BY <1>2, ExtendType DEF TypeOK
<1>4. stage' \in [Conn -> Stage]
  BY InitialShapes DEF TypeOK, FunctionSync
<1>5. peer' \in [Conn -> PeerRecord]
  BY <1>1, HandledType DEF FunctionSlice
<1>6. nextID' \in [Kind -> 1 .. MaxId + 1]
  BY <1>1, <1>2, HandOutType DEF FunctionSlice
<1>7. CASE UNCHANGED <<slot, idOf, nameOf, tableVars>>
  BY <1>4, <1>5, <1>6, <1>7 DEF TypeOK, FunctionSync, tableVars
<1>8. CASE Activate(c, st)
  <2> HIDE DEF st
  <2>1. /\ slot' \in [Name -> Slot]
        /\ idOf' \in [Entry -> Id \cup {NoId}]
        /\ nameOf' \in [Kind -> [Id -> Entry \cup {None}]]
        /\ owner' \in [Entry -> Name \cup {None}]
        /\ state' \in Values
        /\ revision' \in Nat /\ policy' \in Nat
    BY <1>3, <1>8, ActivateType
  <2> QED
    BY <1>4, <1>5, <1>6, <2>1 DEF TypeOK, FunctionSync
<1> QED
  BY <1>1, <1>7, <1>8 DEF FunctionSlice

\* STATE_SET keeps the shape.
LEMMA StateSetType ==
    ASSUME TypeOK, NEW c \in Conn, StateSet(c)
    PROVE  TypeOK'
<1> DEFINE n == NameOf[c]
<1>1. peer' \in [Conn -> PeerRecord]
  BY HandledType DEF StateSet
<1>2. CASE UNCHANGED <<slot, tableVars, sets>>
  BY <1>1, <1>2 DEF TypeOK, StateSet, stageVars, dictVars, tableVars
<1>3. CASE ~UNCHANGED <<slot, tableVars, sets>>
  <2>0. PICK D : \E values \in [D -> Value \cup {None}] :
          /\ state' = [p \in Path |-> IF p \in D THEN values[p] ELSE state[p]]
          /\ slot' = [slot EXCEPT ![n] = SetConfig(slot[n], D, values)]
          /\ revision' = revision + 1 /\ sets' = sets + 1
          /\ UNCHANGED <<owner, policy>>
    BY <1>3 DEF StateSet
  <2>1. PICK values \in [D -> Value \cup {None}] :
          /\ state' = [p \in Path |-> IF p \in D THEN values[p] ELSE state[p]]
          /\ slot' = [slot EXCEPT ![n] = SetConfig(slot[n], D, values)]
          /\ revision' = revision + 1 /\ sets' = sets + 1
          /\ UNCHANGED <<owner, policy>>
    BY <2>0
  <2>2. slot' \in [Name -> Slot]
    BY <2>1, SetConfigType, NamesAssumption DEF TypeOK
  <2>3. state' \in Values
    BY <2>1 DEF TypeOK, Values
  <2> QED
    BY <1>1, <2>1, <2>2, <2>3 DEF TypeOK, StateSet, stageVars, dictVars
<1> QED
  BY <1>2, <1>3

\* A refused or unrelated frame keeps the shape.
LEMMA OtherHandlerType ==
    ASSUME TypeOK, NEW c \in Conn, Superseded(c) \/ WrongSlice(c) \/ OtherFrame(c)
    PROVE  TypeOK'
<1>1. peer' \in [Conn -> PeerRecord]
  BY HandledType DEF Superseded, WrongSlice, OtherFrame
<1>2. stage' \in [Conn -> Stage]
  BY InitialShapes DEF TypeOK, Superseded, WrongSlice, OtherFrame, stageVars
<1> QED
  BY <1>1, <1>2 DEF TypeOK, Superseded, WrongSlice, OtherFrame,
                    stageVars, slotVars, dictVars, tableVars

\* Stage deadlines and disconnect graces keep the shape.
LEMMA TimerType ==
    ASSUME TypeOK,
           \/ \E t \in overdue : ExpireStage(t[1], t[2])
           \/ \E n \in Name : GraceFires(n)
           \/ \E t \in expiring : ExpireCoordinator(t[1], t[2])
    PROVE  TypeOK'
<1>1. ASSUME NEW t \in overdue, ExpireStage(t[1], t[2]) PROVE TypeOK'
  <2>1. stage' \in [Conn -> Stage]
    BY <1>1, InitialShapes DEF TypeOK, ExpireStage
  <2> QED
    BY <1>1, <2>1 DEF TypeOK, ExpireStage, slotVars, dictVars, tableVars
<1>2. ASSUME NEW n \in Name, GraceFires(n) PROVE TypeOK'
  <2>1. slot \in [Name -> Slot]
    BY DEF TypeOK
  <2>2. slot' \in [Name -> Slot]
    BY <1>2, <2>1, ZenonT(40) DEF GraceFires, Slot
  <2>3. slot[n].gen \in Nat
    BY <2>1 DEF Slot
  <2> QED
    BY <1>2, <2>2, <2>3 DEF TypeOK, GraceFires, stageVars, dictVars, tableVars
<1>3. ASSUME NEW t \in expiring, ExpireCoordinator(t[1], t[2]) PROVE TypeOK'
  <2>1. slot' \in [Name -> Slot]
    BY <1>3, InitialShapes DEF TypeOK, ExpireCoordinator
  <2>2. owner' \in [Entry -> Name \cup {None}] /\ revision' \in Nat /\ policy' \in Nat
    BY <1>3 DEF TypeOK, ExpireCoordinator, RemoveCoordinator, tableVars
  <2>3. state' \in Values
    BY <1>3 DEF TypeOK, ExpireCoordinator, RemoveCoordinator, tableVars, Values
  <2> QED
    BY <1>3, <2>1, <2>2, <2>3 DEF TypeOK, ExpireCoordinator, stageVars, dictVars
<1> QED
  BY <1>1, <1>2, <1>3

\* Every step keeps the shape.
LEMMA TypeStep == TypeOK /\ [Next]_vars => TypeOK'
<1> SUFFICES ASSUME TypeOK, [Next]_vars PROVE TypeOK'
  OBVIOUS
<1>1. ASSUME NEW c \in Conn, Connection(c) PROVE TypeOK'
  BY <1>1, ConnectionType
<1>2. ASSUME NEW c \in Conn, Handler(c) PROVE TypeOK'
  BY <1>2, OtherHandlerType, StateSyncType, AclSyncType, EventSyncType, FunctionSyncType,
     StateSetType DEF Handler
<1>3. CASE UNCHANGED vars
  BY <1>3 DEF TypeOK, vars, stageVars, slotVars, dictVars, tableVars
<1> QED
  BY <1>1, <1>2, <1>3, TimerType DEF Next

\* Every reachable state has the types of the Go structures.
THEOREM TypeCorrect == Spec => []TypeOK
BY InitType, TypeStep, PTL DEF Spec

----------------------------------------------------------------------------
\* Ownership and state

\* A slot that has declared nothing holds nothing.
UndeclaredIsEmpty == \A n \in Name : ~slot[n].declared => slot[n].entries = {}

\* A stage, and a configuration, has values for its own paths only.
StagesDeclared == \A c \in Conn : \A p \in Path \ stage[c].entries : stage[c].values[p] = None

ValuesAreDeclared ==
    /\ \A n \in Name : \A p \in Path \ slot[n].entries : slot[n].values[p] = None
    /\ StagesDeclared

OwnershipInv ==
    TypeOK /\ OwnersMatchConfigs /\ UndeclaredIsEmpty /\ ValuesAreDeclared /\ StateMatchesConfigs

\* What a step leaves alone that neither declares, sets nor forgets.
Kept ==
    /\ owner' = owner /\ state' = state
    /\ \A n \in Name :
         /\ slot'[n].entries = slot[n].entries
         /\ slot'[n].declared = slot[n].declared
         /\ slot'[n].values = slot[n].values \/ (~slot[n].declared /\ slot'[n].values = NoValues)

\* An owned entry is declared by its owner.
LEMMA OwnedIsDeclared ==
    ASSUME OwnershipInv, NEW e \in Entry, owner[e] # None
    PROVE  owner[e] \in Name /\ slot[owner[e]].declared /\ e \in slot[owner[e]].entries
BY DEF OwnershipInv, TypeOK, OwnersMatchConfigs, UndeclaredIsEmpty, HeldBy

\* A step that leaves owners, slots' entries and state alone keeps the invariant.
LEMMA KeptPreserves ==
    ASSUME OwnershipInv, TypeOK', Kept, StagesDeclared'
    PROVE  OwnershipInv'
<1>1. OwnersMatchConfigs' /\ UndeclaredIsEmpty'
  BY DEF OwnershipInv, Kept, OwnersMatchConfigs, UndeclaredIsEmpty, HeldBy
<1>2. ValuesAreDeclared'
  BY DEF OwnershipInv, Kept, ValuesAreDeclared, StagesDeclared, NoValues
<1>3. StateMatchesConfigs'
  BY OwnedIsDeclared DEF OwnershipInv, Kept, StateMatchesConfigs, Path, OfKind
<1> QED
  BY <1>1, <1>2, <1>3 DEF OwnershipInv

\* Nothing is owned at the start.
LEMMA InitOwnership == Init => OwnershipInv
<1> SUFFICES ASSUME Init PROVE OwnershipInv
  OBVIOUS
<1>1. \A n \in Name : slot[n] = NoSlot
  BY DEF Init
<1>2. \A c \in Conn : stage[c] = NoStage
  BY DEF Init
<1>3. OwnersMatchConfigs
  BY <1>1, NamesAssumption DEF Init, OwnersMatchConfigs, HeldBy, NoSlot
<1>4. UndeclaredIsEmpty /\ ValuesAreDeclared
  BY <1>1, <1>2 DEF UndeclaredIsEmpty, ValuesAreDeclared, StagesDeclared, NoSlot, NoStage, NoValues
<1>5. StateMatchesConfigs
  BY DEF Init, StateMatchesConfigs, NoValues, Path, OfKind
<1> QED
  BY <1>3, <1>4, <1>5, InitType DEF OwnershipInv

----------------------------------------------------------------------------
\* Steps that keep the declarations

\* Attach, detach and the read loop leave owners and state alone.
LEMMA ConnectionKeeps ==
    ASSUME OwnershipInv, NEW c \in Conn, Connection(c)
    PROVE  Kept /\ StagesDeclared'
<1>1. NameOf[c] \in Name /\ slot \in [Name -> Slot] /\ stage \in [Conn -> Stage] /\ StagesDeclared
  BY NamesAssumption DEF OwnershipInv, TypeOK, ValuesAreDeclared, StagesDeclared
<1>2. CASE Attach(c)
  <2>1. \A s \in Slot : LET t == TakeOver(s, c) IN
          t.entries = s.entries /\ t.declared = s.declared /\ t.values = s.values
    BY DEF TakeOver, Slot
  <2>2. \A n \in Name : slot'[n] = IF n = NameOf[c] THEN TakeOver(slot[n], c) ELSE slot[n]
    BY <1>1, <1>2 DEF Attach
  <2> QED
    BY <1>1, <1>2, <2>1, <2>2 DEF Attach, Kept, StagesDeclared, stageVars, tableVars
<1>3. CASE Detach(c)
  <2>1. \A s \in Slot : LET t == SlotAfterDetach(c, s) IN
          \/ t.entries = s.entries /\ t.declared = s.declared /\ t.values = s.values
          \/ t = NoSlot /\ ~s.declared
    BY DEF SlotAfterDetach, Slot
  <2>2. \A n \in Name : slot'[n] = slot[n] \/ slot'[n] = SlotAfterDetach(c, slot[n])
    BY <1>1, <1>3 DEF Detach
  <2>3. ASSUME NEW n \in Name
        PROVE  /\ slot'[n].entries = slot[n].entries
               /\ slot'[n].declared = slot[n].declared
               /\ \/ slot'[n].values = slot[n].values
                  \/ ~slot[n].declared /\ slot'[n].values = NoValues
    <3>1. CASE slot'[n] = slot[n]
      BY <3>1
    <3>2. CASE slot'[n] = SlotAfterDetach(c, slot[n]) /\ slot'[n] # NoSlot
      BY <1>1, <2>1, <3>2
    <3>3. CASE slot'[n] = NoSlot /\ ~slot[n].declared
      <4>1. slot[n].entries = {} /\ slot[n].declared = FALSE
        BY <1>1, <3>3 DEF OwnershipInv, UndeclaredIsEmpty, Slot
      <4>2. NoSlot.entries = {} /\ NoSlot.declared = FALSE /\ NoSlot.values = NoValues
        BY DEF NoSlot
      <4> QED
        BY <3>3, <4>1, <4>2
    <3> QED
      BY <1>1, <2>1, <2>2, <3>1, <3>2, <3>3
  <2>4. StagesDeclared'
    BY <1>1, <1>3 DEF Detach, StagesDeclared, NoStage, NoValues
  <2> QED
    BY <1>3, <2>3, <2>4 DEF Detach, Kept, tableVars
<1>4. CASE StageTimerFires(c)
  <2>1. \A b \in Conn : /\ stage'[b].entries = stage[b].entries
                        /\ stage'[b].values = stage[b].values
    BY <1>1, <1>4 DEF StageTimerFires, Stage
  <2> QED
    BY <1>1, <1>4, <2>1 DEF StageTimerFires, Kept, StagesDeclared, slotVars, tableVars
<1>5. CASE FailAsync(c) \/ Receive(c)
  BY <1>1, <1>5 DEF FailAsync, Receive, Kept, StagesDeclared, stageVars, slotVars, tableVars
<1> QED
  BY <1>2, <1>3, <1>4, <1>5 DEF Connection

\* The slices that do not complete a transaction touch stages only.
LEMMA SliceKeeps ==
    ASSUME OwnershipInv, NEW c \in Conn,
           \/ Superseded(c) \/ WrongSlice(c) \/ OtherFrame(c)
           \/ StateSync(c) \/ AclSync(c) \/ EventSync(c)
    PROVE  Kept /\ StagesDeclared'
<1>1. stage \in [Conn -> Stage] /\ StagesDeclared
  BY DEF OwnershipInv, TypeOK, ValuesAreDeclared
<1>2. Kept
  BY DEF Superseded, WrongSlice, OtherFrame, StateSync, AclSync, EventSync, Kept,
         slotVars, tableVars
<1> SUFFICES StagesDeclared'
  BY <1>2
<1>3. ASSUME NEW st, stage' = [stage EXCEPT ![c] = st],
             \A p \in Path \ st.entries : st.values[p] = None
      PROVE  StagesDeclared'
  BY <1>1, <1>3 DEF StagesDeclared
<1>4. \A p \in Path \ NoStage.entries : NoStage.values[p] = None
  BY DEF NoStage, NoValues
<1>5. CASE StateSync(c)
  <2>1. PICK D \in SUBSET Path : \E values \in [D -> Value], ids \in [D -> Id], fits \in BOOLEAN :
          StateSlice(c, D, values, ids, fits)
    BY <1>5 DEF StateSync, Fits
  <2>2. PICK values \in [D -> Value], ids \in [D -> Id], fits \in BOOLEAN :
          StateSlice(c, D, values, ids, fits)
    BY <2>1
  <2>3. CASE stage' = [stage EXCEPT ![c].timer = FALSE]
    <3>1. \A b \in Conn : stage'[b].entries = stage[b].entries /\ stage'[b].values = stage[b].values
      BY <1>1, <2>3 DEF Stage
    <3> QED
      BY <1>1, <3>1 DEF StagesDeclared
  <2>4. CASE stage' = [stage EXCEPT ![c] = NoStage]
    BY <1>3, <1>4, <2>4
  <2>5. CASE stage' = [stage EXCEPT ![c] = Begin(c, D, values, ids)]
    <3> DEFINE st == Begin(c, D, values, ids)
    <3>1. /\ st.entries = D
          /\ st.values = [p \in Path |-> IF p \in D THEN values[p] ELSE None]
      BY DEF Begin, NoStage
    <3>2. \A p \in Path \ st.entries : st.values[p] = None
      BY <3>1
    <3> QED
      BY <1>3, <2>5, <3>2
  <2> QED
    BY <1>2, <2>2, <2>3, <2>4, <2>5 DEF StateSlice
<1>6. CASE AclSync(c)
  <2>1. \A b \in Conn : stage'[b].entries = stage[b].entries /\ stage'[b].values = stage[b].values
    <3>1. PICK a \in Acl :
            stage' = [stage EXCEPT ![c].acl[stage[c].expected] = a,
                                   ![c].expected = AfterAcl(stage[c].expected)]
      BY <1>6 DEF AclSync
    <3> QED
      BY <1>1, <3>1, Zenon DEF Stage
  <2> QED
    BY <1>1, <1>2, <2>1 DEF StagesDeclared
<1>7. CASE EventSync(c)
  <2>1. PICK D \in SUBSET OfKind("event") : \E ids \in [D -> Id], fits \in BOOLEAN :
          EventSlice(c, D, ids, fits)
    BY <1>7 DEF EventSync, Fits
  <2>2. PICK ids \in [D -> Id], fits \in BOOLEAN : EventSlice(c, D, ids, fits)
    BY <2>1
  <2>3. CASE stage' = [stage EXCEPT ![c] = NoStage]
    BY <1>3, <1>4, <2>3
  <2>4. CASE stage' = [stage EXCEPT ![c] = Expect(Extend(stage[c], D, ids), "EVENT_ACL_SYNC")]
    <3> DEFINE st == Expect(Extend(stage[c], D, ids), "EVENT_ACL_SYNC")
    <3>1. st.entries = stage[c].entries \cup D /\ st.values = stage[c].values
      BY <1>1 DEF Expect, Extend, Stage
    <3>2. \A p \in Path \ st.entries : st.values[p] = None
      BY <1>1, <3>1 DEF StagesDeclared
    <3> QED
      BY <1>3, <2>4, <3>2
  <2> QED
    BY <1>2, <2>2, <2>3, <2>4 DEF EventSlice
<1>8. CASE WrongSlice(c)
  BY <1>2, <1>3, <1>4, <1>8 DEF WrongSlice
<1>9. CASE Superseded(c) \/ OtherFrame(c)
  BY <1>1, <1>2, <1>9 DEF Superseded, OtherFrame, StagesDeclared, stageVars
<1> QED
  BY <1>5, <1>6, <1>7, <1>8, <1>9

\* Timers that fire, and the callback of a transaction's timer.
LEMMA TimerKeeps ==
    ASSUME OwnershipInv,
           (\E t \in overdue : ExpireStage(t[1], t[2])) \/ (\E n \in Name : GraceFires(n))
    PROVE  Kept /\ StagesDeclared'
<1>1. stage \in [Conn -> Stage] /\ slot \in [Name -> Slot] /\ StagesDeclared
  BY DEF OwnershipInv, TypeOK, ValuesAreDeclared
<1>2. ASSUME NEW t \in overdue, ExpireStage(t[1], t[2]) PROVE Kept /\ StagesDeclared'
  <2>1. \A b \in Conn : stage'[b] = stage[b] \/ stage'[b] = NoStage
    BY <1>1, <1>2 DEF ExpireStage
  <2>2. StagesDeclared'
    BY <1>1, <2>1 DEF StagesDeclared, NoStage, NoValues
  <2> QED
    BY <1>2, <2>2 DEF ExpireStage, Kept, slotVars, tableVars
<1>3. ASSUME NEW n \in Name, GraceFires(n) PROVE Kept /\ StagesDeclared'
  <2>1. \A m \in Name : /\ slot'[m].entries = slot[m].entries
                        /\ slot'[m].values = slot[m].values
                        /\ slot'[m].declared = slot[m].declared
    BY <1>1, <1>3 DEF GraceFires, Slot
  <2> QED
    BY <1>1, <1>3, <2>1 DEF GraceFires, Kept, StagesDeclared, stageVars, tableVars
<1> QED
  BY <1>2, <1>3

----------------------------------------------------------------------------
\* Steps that change the declarations

\* Activation moves ownership and state to the new set, and to it only.
LEMMA ActivatePreserves ==
    ASSUME OwnershipInv, TypeOK', NEW c \in Conn, NEW st \in Stage, Activate(c, st),
           ~Collides(NameOf[c], st.entries), StagesDeclared',
           \A p \in Path \ st.entries : st.values[p] = None
    PROVE  OwnershipInv'
<1> DEFINE n == NameOf[c]
<1>1. /\ n \in Name /\ n # None /\ st.entries \in SUBSET Entry
      /\ slot \in [Name -> Slot] /\ owner \in [Entry -> Name \cup {None}]
  BY NamesAssumption DEF OwnershipInv, TypeOK, Stage
<1>2. \A e \in st.entries : owner[e] \in {None, n}
  BY DEF Collides
<1>3. \A e \in Entry : owner'[e] = IF e \in st.entries THEN n
                                   ELSE IF e \in slot[n].entries THEN None ELSE owner[e]
  BY DEF Activate, Own
<1>4. /\ slot'[n].entries = st.entries /\ slot'[n].values = st.values
      /\ slot'[n].declared = TRUE
  BY <1>1 DEF Activate, Configure, Slot
<1>5. \A m \in Name \ {n} : slot'[m] = slot[m]
  BY <1>1 DEF Activate
<1>6. \A m \in Name : HeldBy(m) = slot[m].entries
  BY DEF OwnershipInv, OwnersMatchConfigs
<1>7. OwnersMatchConfigs'
  <2>1. HeldBy(n)' = slot'[n].entries
    BY <1>1, <1>3, <1>4, <1>6 DEF HeldBy
  <2>2. ASSUME NEW m \in Name \ {n} PROVE HeldBy(m)' = slot'[m].entries
    <3>1. m # None
      BY NamesAssumption
    <3>2. \A e \in Entry : owner'[e] = m <=> owner[e] = m
      BY <1>1, <1>2, <1>3, <1>6, <2>2, <3>1 DEF HeldBy
    <3> QED
      BY <1>5, <1>6, <3>2 DEF HeldBy
  <2> QED
    BY <2>1, <2>2 DEF OwnersMatchConfigs
<1>8. UndeclaredIsEmpty'
  BY <1>4, <1>5 DEF OwnershipInv, UndeclaredIsEmpty
<1>9. ValuesAreDeclared'
  BY <1>4, <1>5 DEF OwnershipInv, ValuesAreDeclared
<1>10. StateMatchesConfigs'
  <2> SUFFICES ASSUME NEW p \in Path
               PROVE  state'[p] = IF owner'[p] = None THEN None ELSE slot'[owner'[p]].values[p]
    BY DEF StateMatchesConfigs
  <2>1. p \in Entry
    BY DEF Path, OfKind
  <2>2. state'[p] = IF p \in st.entries THEN st.values[p]
                    ELSE IF p \in slot[n].entries THEN None ELSE state[p]
    BY DEF Activate, StateAfter
  <2>3. CASE p \in st.entries
    BY <1>1, <1>3, <1>4, <2>1, <2>2, <2>3
  <2>4. CASE p \notin st.entries /\ p \in slot[n].entries
    BY <1>3, <2>1, <2>2, <2>4
  <2>5. CASE p \notin st.entries /\ p \notin slot[n].entries
    <3>1. owner'[p] = owner[p] /\ state'[p] = state[p] /\ owner[p] # n
      BY <1>1, <1>3, <1>6, <2>1, <2>2, <2>5 DEF HeldBy
    <3>2. owner[p] # None => slot'[owner[p]] = slot[owner[p]]
      BY <1>1, <1>5, <2>1, <3>1
    <3> QED
      BY <3>1, <3>2 DEF OwnershipInv, StateMatchesConfigs
  <2> QED
    BY <2>3, <2>4, <2>5
<1> QED
  BY <1>7, <1>8, <1>9, <1>10 DEF OwnershipInv

\* An activation installs exactly the stage's names, a refusal none.
LEMMA FunctionSyncPreserves ==
    ASSUME OwnershipInv, TypeOK', NEW c \in Conn, FunctionSync(c)
    PROVE  OwnershipInv'
<1>1. stage \in [Conn -> Stage] /\ slot \in [Name -> Slot] /\ StagesDeclared
  BY DEF OwnershipInv, TypeOK, ValuesAreDeclared
<1>2. StagesDeclared'
  BY <1>1 DEF FunctionSync, StagesDeclared, NoStage, NoValues
<1>3. PICK D \in SUBSET OfKind("function") : \E ids \in [D -> Id], fits \in BOOLEAN :
        FunctionSlice(c, D, ids, fits)
  BY DEF FunctionSync, Fits
<1>4. PICK ids \in [D -> Id], fits \in BOOLEAN : FunctionSlice(c, D, ids, fits)
  BY <1>3
<1> DEFINE st == Extend(stage[c], D, ids)
<1>5. CASE UNCHANGED <<slot, idOf, nameOf, tableVars>>
  BY <1>2, <1>5, KeptPreserves DEF Kept, tableVars
<1>6. CASE Activate(c, st) /\ ~Collides(NameOf[c], st.entries)
  <2>1. st \in Stage
    BY <1>1, ExtendType DEF OfKind
  <2>2. st.entries = stage[c].entries \cup D /\ st.values = stage[c].values
    BY <1>1 DEF Extend, Stage
  <2>3. \A p \in Path \ st.entries : st.values[p] = None
    BY <1>1, <2>2 DEF StagesDeclared
  <2> HIDE DEF st
  <2> QED
    BY <1>2, <1>6, <2>1, <2>3, ActivatePreserves
<1> QED
  BY <1>4, <1>5, <1>6 DEF FunctionSlice

\* STATE_SET writes both copies of the state, for paths of its coordinator.
LEMMA StateSetPreserves ==
    ASSUME OwnershipInv, TypeOK', NEW c \in Conn, StateSet(c)
    PROVE  OwnershipInv'
<1> DEFINE n == NameOf[c]
<1>1. /\ n \in Name /\ n # None /\ slot \in [Name -> Slot] /\ StagesDeclared'
  BY NamesAssumption DEF OwnershipInv, TypeOK, ValuesAreDeclared, StagesDeclared, StateSet,
     stageVars
<1>2. CASE UNCHANGED <<slot, tableVars, sets>>
  BY <1>1, <1>2, KeptPreserves DEF Kept, tableVars
<1>3. CASE ~UNCHANGED <<slot, tableVars, sets>>
  <2>1. PICK D : /\ Settable(n, D)
                 /\ \E values \in [D -> Value \cup {None}] :
                      /\ state' = [p \in Path |-> IF p \in D THEN values[p] ELSE state[p]]
                      /\ slot' = [slot EXCEPT ![n] = SetConfig(slot[n], D, values)]
                      /\ owner' = owner
    BY <1>3 DEF StateSet
  <2>2. PICK values \in [D -> Value \cup {None}] :
          /\ state' = [p \in Path |-> IF p \in D THEN values[p] ELSE state[p]]
          /\ slot' = [slot EXCEPT ![n] = SetConfig(slot[n], D, values)]
          /\ owner' = owner
    BY <2>1
  <2>3. \A p \in D : owner[p] = n /\ p \in slot[n].entries
    BY <2>1 DEF Settable
  <2>4. /\ slot'[n].entries = slot[n].entries /\ slot'[n].declared = slot[n].declared
        /\ \A p \in Path : slot'[n].values[p] = IF p \in D THEN values[p] ELSE slot[n].values[p]
    BY <1>1, <2>2 DEF SetConfig, Slot
  <2>5. \A m \in Name \ {n} : slot'[m] = slot[m]
    BY <1>1, <2>2
  <2>6. OwnersMatchConfigs' /\ UndeclaredIsEmpty'
    BY <2>2, <2>4, <2>5 DEF OwnershipInv, OwnersMatchConfigs, UndeclaredIsEmpty, HeldBy
  <2>7. ValuesAreDeclared'
    BY <1>1, <2>3, <2>4, <2>5 DEF OwnershipInv, ValuesAreDeclared
  <2>8. StateMatchesConfigs'
    <3> SUFFICES ASSUME NEW p \in Path
                 PROVE  state'[p] = IF owner[p] = None THEN None ELSE slot'[owner[p]].values[p]
      BY <2>2 DEF StateMatchesConfigs
    <3>1. CASE p \in D
      BY <1>1, <2>2, <2>3, <2>4, <3>1
    <3>2. CASE p \notin D
      <4>1. state'[p] = state[p] /\ p \in Entry
        BY <2>2, <3>2 DEF Path, OfKind
      <4>2. owner[p] # None => slot'[owner[p]].values[p] = slot[owner[p]].values[p]
        BY <2>4, <2>5, <3>2, <4>1, OwnedIsDeclared
      <4> QED
        BY <4>1, <4>2 DEF OwnershipInv, StateMatchesConfigs
    <3> QED
      BY <3>1, <3>2
  <2> QED
    BY <2>6, <2>7, <2>8 DEF OwnershipInv
<1> QED
  BY <1>2, <1>3

\* Expiry forgets the slot together with all it owned.
LEMMA ExpirePreserves ==
    ASSUME OwnershipInv, TypeOK', NEW t \in expiring, ExpireCoordinator(t[1], t[2])
    PROVE  OwnershipInv'
<1> DEFINE n == t[1]
<1>1. /\ n \in Name /\ n # None /\ slot \in [Name -> Slot] /\ StagesDeclared'
      /\ owner \in [Entry -> Name \cup {None}]
  BY NamesAssumption DEF OwnershipInv, TypeOK, ValuesAreDeclared, StagesDeclared,
     ExpireCoordinator, stageVars
<1>2. CASE UNCHANGED <<slot, tableVars>>
  BY <1>1, <1>2, KeptPreserves DEF Kept, tableVars
<1>3. CASE slot' = [slot EXCEPT ![n] = NoSlot] /\ RemoveCoordinator(n)
  <2>1. /\ slot'[n].entries = {} /\ slot'[n].declared = FALSE /\ slot'[n].values = NoValues
        /\ \A m \in Name \ {n} : slot'[m] = slot[m]
    BY <1>1, <1>3 DEF NoSlot
  <2>2. \A m \in Name : HeldBy(m) = slot[m].entries
    BY DEF OwnershipInv, OwnersMatchConfigs
  <2>3. \A e \in Entry : owner'[e] = IF e \in slot[n].entries THEN None ELSE owner[e]
    BY <1>1, <1>3 DEF OwnershipInv, UndeclaredIsEmpty, RemoveCoordinator, tableVars
  <2>4. \A p \in Path : state'[p] = IF p \in slot[n].entries THEN None ELSE state[p]
    BY <1>1, <1>3 DEF OwnershipInv, UndeclaredIsEmpty, RemoveCoordinator, tableVars
  <2>5. OwnersMatchConfigs'
    <3>1. HeldBy(n)' = slot'[n].entries
      BY <1>1, <2>1, <2>2, <2>3 DEF HeldBy
    <3>2. ASSUME NEW m \in Name \ {n} PROVE HeldBy(m)' = slot'[m].entries
      <4>1. m # None
        BY NamesAssumption
      <4>2. \A e \in Entry : owner'[e] = m <=> owner[e] = m
        BY <1>1, <2>2, <2>3, <3>2, <4>1 DEF HeldBy
      <4> QED
        BY <2>1, <2>2, <4>2 DEF HeldBy
    <3> QED
      BY <3>1, <3>2 DEF OwnersMatchConfigs
  <2>6. UndeclaredIsEmpty' /\ ValuesAreDeclared'
    BY <1>1, <2>1 DEF OwnershipInv, UndeclaredIsEmpty, ValuesAreDeclared, NoValues
  <2>7. StateMatchesConfigs'
    <3> SUFFICES ASSUME NEW p \in Path
                 PROVE  state'[p] = IF owner'[p] = None THEN None ELSE slot'[owner'[p]].values[p]
      BY DEF StateMatchesConfigs
    <3>1. p \in Entry
      BY DEF Path, OfKind
    <3>2. CASE p \in slot[n].entries
      BY <2>3, <2>4, <3>1, <3>2
    <3>3. CASE p \notin slot[n].entries
      <4>1. owner'[p] = owner[p] /\ state'[p] = state[p] /\ owner[p] # n
        BY <1>1, <2>2, <2>3, <2>4, <3>1, <3>3 DEF HeldBy
      <4>2. owner[p] # None => slot'[owner[p]] = slot[owner[p]]
        BY <1>1, <2>1, <3>1, <4>1
      <4> QED
        BY <4>1, <4>2 DEF OwnershipInv, StateMatchesConfigs
    <3> QED
      BY <3>2, <3>3
  <2> QED
    BY <2>5, <2>6, <2>7 DEF OwnershipInv
<1> QED
  BY <1>2, <1>3 DEF ExpireCoordinator

\* Every step keeps the ownership invariant.
LEMMA OwnershipStep == OwnershipInv /\ [Next]_vars => OwnershipInv'
<1> SUFFICES ASSUME OwnershipInv, [Next]_vars PROVE OwnershipInv'
  OBVIOUS
<1>1. TypeOK'
  BY TypeStep DEF OwnershipInv
<1>2. ASSUME NEW c \in Conn, Connection(c) PROVE OwnershipInv'
  BY <1>1, <1>2, ConnectionKeeps, KeptPreserves
<1>3. ASSUME NEW c \in Conn, Handler(c) PROVE OwnershipInv'
  BY <1>1, <1>3, SliceKeeps, KeptPreserves, FunctionSyncPreserves, StateSetPreserves DEF Handler
<1>4. ASSUME \E t \in expiring : ExpireCoordinator(t[1], t[2]) PROVE OwnershipInv'
  BY <1>1, <1>4, ExpirePreserves
<1>5. CASE UNCHANGED vars
  <2>1. Kept /\ StagesDeclared'
    BY <1>5 DEF OwnershipInv, ValuesAreDeclared, StagesDeclared, Kept, vars, stageVars,
                slotVars, tableVars
  <2> QED
    BY <1>1, <2>1, KeptPreserves
<1> QED
  BY <1>1, <1>2, <1>3, <1>4, <1>5, TimerKeeps, KeptPreserves DEF Next

\* The inductive invariant of ownership and state.
THEOREM OwnershipInvariant == Spec => []OwnershipInv
BY InitOwnership, OwnershipStep, PTL DEF Spec

\* The owner tables and the active declarations never drift apart.
THEOREM OwnersFollowDeclarations == Spec => []OwnersMatchConfigs
<1>1. OwnershipInv => OwnersMatchConfigs
  BY DEF OwnershipInv
<1> QED
  BY <1>1, OwnershipInvariant, PTL

\* The home's state and the owners' copies of it never drift apart.
THEOREM StateFollowsOwners == Spec => []StateMatchesConfigs
<1>1. OwnershipInv => StateMatchesConfigs
  BY DEF OwnershipInv
<1> QED
  BY <1>1, OwnershipInvariant, PTL

----------------------------------------------------------------------------
\* Refinement

held == [n \in Name |-> HeldBy(n)]

\* A step that leaves the owner tables alone is a stutter of Ownership.
LEMMA SameOwnersStutter ==
    ASSUME owner' = owner
    PROVE  held' = held
BY DEF held, HeldBy

\* An activation is one Replace of the abstract owner table, or a stutter.
LEMMA FunctionSyncReplaces ==
    ASSUME OwnershipInv, OwnershipInv', NEW c \in Conn, FunctionSync(c)
    PROVE  held' = held \/ \E D \in SUBSET Entry : Abstract!Replace(NameOf[c], D)
<1> DEFINE n == NameOf[c]
<1>1. /\ n \in Name /\ n # None /\ stage \in [Conn -> Stage] /\ slot \in [Name -> Slot]
      /\ \A m \in Name : HeldBy(m) = slot[m].entries
      /\ \A m \in Name : HeldBy(m)' = slot'[m].entries
  BY NamesAssumption DEF OwnershipInv, TypeOK, OwnersMatchConfigs
<1>2. PICK D \in SUBSET OfKind("function") : \E ids \in [D -> Id], fits \in BOOLEAN :
        FunctionSlice(c, D, ids, fits)
  BY DEF FunctionSync, Fits
<1>3. PICK ids \in [D -> Id], fits \in BOOLEAN : FunctionSlice(c, D, ids, fits)
  BY <1>2
<1> DEFINE st == Extend(stage[c], D, ids)
<1>4. CASE UNCHANGED <<slot, idOf, nameOf, tableVars>>
  BY <1>4, SameOwnersStutter DEF tableVars
<1>5. CASE Activate(c, st) /\ ~Collides(n, st.entries)
  <2>1. st \in Stage
    BY <1>1, ExtendType DEF OfKind
  <2> HIDE DEF st
  <2>2. st.entries \in SUBSET Entry
    BY <2>1 DEF Stage
  <2>3. slot'[n].entries = st.entries /\ \A m \in Name \ {n} : slot'[m] = slot[m]
    BY <1>1, <1>5 DEF Activate, Configure, Slot
  <2>4. \A m \in Name \ {n} : held[m] \cap st.entries = {}
    <3>1. \A m \in Name \ {n} : m \notin {None, n}
      BY NamesAssumption
    <3> QED
      BY <1>5, <3>1 DEF held, HeldBy, Collides
  <2>5. held' = [held EXCEPT ![n] = st.entries]
    BY <1>1, <2>3 DEF held
  <2> QED
    BY <2>2, <2>4, <2>5 DEF Abstract!Replace, held
<1> QED
  BY <1>3, <1>4, <1>5 DEF FunctionSlice

\* The end of a disconnect grace is one GiveUp of the abstract owner table.
LEMMA ExpireGivesUp ==
    ASSUME OwnershipInv, OwnershipInv', NEW t \in expiring, ExpireCoordinator(t[1], t[2])
    PROVE  held' = held \/ Abstract!GiveUp(t[1])
<1>1. /\ t[1] \in Name /\ slot \in [Name -> Slot]
      /\ \A m \in Name : HeldBy(m) = slot[m].entries
      /\ \A m \in Name : HeldBy(m)' = slot'[m].entries
  BY DEF OwnershipInv, TypeOK, OwnersMatchConfigs
<1>2. CASE UNCHANGED <<slot, tableVars>>
  BY <1>2, SameOwnersStutter DEF tableVars
<1>3. CASE slot' = [slot EXCEPT ![t[1]] = NoSlot]
  <2>1. held' = [held EXCEPT ![t[1]] = {}]
    BY <1>1, <1>3 DEF held, NoSlot
  <2> QED
    BY <2>1 DEF Abstract!GiveUp, held
<1> QED
  BY <1>2, <1>3 DEF ExpireCoordinator

\* Every step of the declarations is a step of Ownership or a stutter.
LEMMA RefineStep ==
    ASSUME OwnershipInv, OwnershipInv', [Next]_vars
    PROVE  [Abstract!Next]_held
<1>1. ASSUME NEW c \in Conn, Connection(c) PROVE held' = held
  BY <1>1, ConnectionKeeps, SameOwnersStutter DEF Kept
<1>2. ASSUME NEW c \in Conn, Handler(c) PROVE [Abstract!Next]_held
  <2>1. CASE FunctionSync(c)
    BY <2>1, FunctionSyncReplaces, NamesAssumption DEF Abstract!Next
  <2>2. CASE StateSet(c)
    BY <2>2, SameOwnersStutter DEF StateSet, tableVars
  <2>3. CASE ~FunctionSync(c) /\ ~StateSet(c)
    BY <1>2, <2>3, SliceKeeps, SameOwnersStutter DEF Handler, Kept
  <2> QED
    BY <2>1, <2>2, <2>3
<1>3. ASSUME NEW t \in expiring, ExpireCoordinator(t[1], t[2]) PROVE [Abstract!Next]_held
  <2>1. t[1] \in Name
    BY DEF OwnershipInv, TypeOK
  <2> QED
    BY <1>3, <2>1, ExpireGivesUp DEF Abstract!Next
<1>4. CASE UNCHANGED vars
  BY <1>4, SameOwnersStutter DEF vars, tableVars
<1> QED
  BY <1>1, <1>2, <1>3, <1>4, TimerKeeps, SameOwnersStutter DEF Next, Kept

\* The initial owner tables are Ownership's.
LEMMA RefineInit == Init => Abstract!Init
BY NamesAssumption DEF Init, Abstract!Init, HeldBy

\* Whatever coordinators, timers and replacements do, the owner tables change
\* as Ownership says: whole sets, never a name somebody else holds.
THEOREM DeclarationsImplementOwnership == Spec => ImplementsOwnership
<1>1. OwnershipInv /\ OwnershipInv' /\ [Next]_vars =>
        [Abstract!Next]_([n \in Name |-> HeldBy(n)])
  BY RefineStep DEF held
<1> QED
  BY <1>1, RefineInit, OwnershipInvariant, PTL DEF Spec, ImplementsOwnership, Abstract!Spec

----------------------------------------------------------------------------
\* Revisions

\* Comparing with the previous configuration is comparing with the state.
LEMMA ActivateRevises ==
    ASSUME OwnershipInv, NEW c \in Conn, NEW st \in Stage, Activate(c, st),
           ~Collides(NameOf[c], st.entries), \A p \in Path \ st.entries : st.values[p] = None
    PROVE  state' # state => revision' > revision
<1> DEFINE n == NameOf[c]
<1>1. /\ n \in Name /\ n # None /\ revision \in Nat /\ state \in Values
      /\ \A m \in Name : HeldBy(m) = slot[m].entries
      /\ owner \in [Entry -> Name \cup {None}]
  BY NamesAssumption DEF OwnershipInv, TypeOK, OwnersMatchConfigs
<1>2. CASE ~slot[n].declared \/ slot[n].values # st.values
  BY <1>1, <1>2 DEF Activate
<1>3. CASE slot[n].declared /\ slot[n].values = st.values
  <2>1. ASSUME NEW p \in Path PROVE state'[p] = state[p]
    <3>1. p \in Entry
      BY DEF Path, OfKind
    <3>2. state'[p] = IF p \in st.entries THEN st.values[p]
                      ELSE IF p \in slot[n].entries THEN None ELSE state[p]
      BY DEF Activate, StateAfter
    <3>3. p \in slot[n].entries => state[p] = slot[n].values[p]
      BY <1>1, <3>1 DEF OwnershipInv, StateMatchesConfigs, HeldBy
    <3>4. p \notin slot[n].entries => slot[n].values[p] = None
      BY <1>1 DEF OwnershipInv, ValuesAreDeclared
    <3>5. p \in st.entries /\ p \notin slot[n].entries => state[p] = None
      BY <1>1, <3>1 DEF OwnershipInv, StateMatchesConfigs, HeldBy, Collides
    <3> QED
      BY <1>3, <3>2, <3>3, <3>4, <3>5
  <2>2. state' = state
    BY <1>1, <2>1 DEF Values, Activate, StateAfter
  <2> QED
    BY <2>2
<1> QED
  BY <1>2, <1>3

\* A step that changes the home's state raises its revision.
LEMMA RevisionStep ==
    ASSUME OwnershipInv, [Next]_vars
    PROVE  state' # state => revision' > revision
<1>1. revision \in Nat /\ stage \in [Conn -> Stage] /\ StagesDeclared
  BY DEF OwnershipInv, TypeOK, ValuesAreDeclared
<1>2. ASSUME NEW c \in Conn, FunctionSync(c) PROVE state' # state => revision' > revision
  <2>1. PICK D \in SUBSET OfKind("function") : \E ids \in [D -> Id], fits \in BOOLEAN :
          FunctionSlice(c, D, ids, fits)
    BY <1>2 DEF FunctionSync, Fits
  <2>2. PICK ids \in [D -> Id], fits \in BOOLEAN : FunctionSlice(c, D, ids, fits)
    BY <2>1
  <2> DEFINE st == Extend(stage[c], D, ids)
  <2>3. CASE UNCHANGED <<slot, idOf, nameOf, tableVars>>
    BY <2>3 DEF tableVars
  <2>4. CASE Activate(c, st) /\ ~Collides(NameOf[c], st.entries)
    <3>1. st \in Stage
      BY <1>1, ExtendType DEF OfKind
    <3>2. st.entries = stage[c].entries \cup D /\ st.values = stage[c].values
      BY <1>1 DEF Extend, Stage
    <3>3. \A p \in Path \ st.entries : st.values[p] = None
      BY <1>1, <3>2 DEF StagesDeclared
    <3> HIDE DEF st
    <3> QED
      BY <2>4, <3>1, <3>3, ActivateRevises
  <2> QED
    BY <2>2, <2>3, <2>4 DEF FunctionSlice
<1>3. ASSUME NEW c \in Conn, StateSet(c) PROVE state' # state => revision' > revision
  BY <1>1, <1>3 DEF StateSet, tableVars
<1>4. ASSUME NEW c \in Conn, Handler(c), ~FunctionSync(c), ~StateSet(c) PROVE state' = state
  BY <1>4, SliceKeeps DEF Handler, Kept
<1>5. ASSUME NEW c \in Conn, Connection(c) PROVE state' = state
  BY <1>5, ConnectionKeeps DEF Kept
<1>6. ASSUME NEW t \in expiring, ExpireCoordinator(t[1], t[2])
      PROVE  state' # state => revision' > revision
  BY <1>1, <1>6 DEF ExpireCoordinator, RemoveCoordinator, tableVars
<1>7. CASE UNCHANGED vars
  BY <1>7 DEF vars, tableVars
<1> QED
  BY <1>2, <1>3, <1>4, <1>5, <1>6, <1>7, TimerKeeps DEF Next, Kept

\* A user that has seen a revision has seen the state of that revision.
THEOREM StateHasRevision == Spec => StateChangesRevision
<1>1. OwnershipInv /\ [Next]_vars => [state' # state => revision' > revision]_vars
  BY RevisionStep
<1> QED
  BY <1>1, OwnershipInvariant, PTL DEF Spec, StateChangesRevision

----------------------------------------------------------------------------
\* Policy revisions

\* The same declarations and the same ACLs are the same policy.
LEMMA SameForce ==
    ASSUME \A n \in Name : /\ slot'[n].declared = slot[n].declared
                           /\ slot'[n].entries = slot[n].entries
                           /\ slot[n].declared => slot'[n].acl = slot[n].acl
    PROVE  InForce' = InForce
BY DEF InForce

\* Only an activation and an expiry change the ACLs of a coordinator that has
\* declared: attach, detach, STATE_SET and the grace timer write other fields.
LEMMA AclIsKept ==
    ASSUME OwnershipInv, NEW n \in Name, slot[n].declared,
           \/ \E c \in Conn : Connection(c) \/ (Handler(c) /\ ~FunctionSync(c))
           \/ \E t \in overdue : ExpireStage(t[1], t[2])
           \/ \E m \in Name : GraceFires(m)
    PROVE  slot'[n].acl = slot[n].acl
<1>1. slot \in [Name -> Slot] /\ slot[n] \in Slot
  BY DEF OwnershipInv, TypeOK
<1>2. ASSUME NEW c \in Conn, Attach(c) PROVE slot'[n].acl = slot[n].acl
  <2>1. \A s \in Slot : TakeOver(s, c).acl = s.acl
    BY DEF TakeOver, Slot
  <2>2. slot'[n] = slot[n] \/ slot'[n] = TakeOver(slot[n], c)
    BY <1>1, <1>2 DEF Attach
  <2> QED
    BY <1>1, <2>1, <2>2
<1>3. ASSUME NEW c \in Conn, Detach(c) PROVE slot'[n].acl = slot[n].acl
  <2>1. \A s \in Slot : s.declared => SlotAfterDetach(c, s).acl = s.acl
    BY DEF SlotAfterDetach, Slot
  <2>2. slot'[n] = slot[n] \/ slot'[n] = SlotAfterDetach(c, slot[n])
    BY <1>1, <1>3 DEF Detach
  <2> QED
    BY <1>1, <2>1, <2>2
<1>4. ASSUME NEW c \in Conn, StateSet(c) PROVE slot'[n].acl = slot[n].acl
  <2>1. \A s \in Slot : \A D, values : SetConfig(s, D, values).acl = s.acl
    BY DEF SetConfig, Slot
  <2>2. slot' = slot \/ \E D, values :
          slot' = [slot EXCEPT ![NameOf[c]] = SetConfig(slot[NameOf[c]], D, values)]
    BY <1>4 DEF StateSet
  <2> QED
    BY <1>1, <2>1, <2>2
<1>5. ASSUME NEW m \in Name, GraceFires(m) PROVE slot'[n].acl = slot[n].acl
  BY <1>1, <1>5 DEF GraceFires, Slot
<1>6. ASSUME NEW c \in Conn,
             \/ FailAsync(c) \/ Receive(c) \/ StageTimerFires(c) \/ Superseded(c)
             \/ WrongSlice(c) \/ OtherFrame(c) \/ StateSync(c) \/ AclSync(c) \/ EventSync(c)
      PROVE  slot' = slot
  BY <1>6 DEF FailAsync, Receive, StageTimerFires, Superseded, WrongSlice, OtherFrame,
              StateSync, AclSync, EventSync, slotVars
<1>7. ASSUME NEW t \in overdue, ExpireStage(t[1], t[2]) PROVE slot' = slot
  BY <1>7 DEF ExpireStage, slotVars
<1> QED
  BY <1>2, <1>3, <1>4, <1>5, <1>6, <1>7 DEF Connection, Handler

\* An activation that changes a topic, a function or an ACL changes the policy.
LEMMA ActivateChangesPolicy ==
    ASSUME OwnershipInv, NEW c \in Conn, NEW st \in Stage, Activate(c, st), InForce' # InForce
    PROVE  policy' > policy
<1> DEFINE n == NameOf[c]
<1>1. n \in Name /\ policy \in Nat /\ slot \in [Name -> Slot]
  BY NamesAssumption DEF OwnershipInv, TypeOK
<1>2. /\ slot'[n].declared /\ slot'[n].entries = st.entries /\ slot'[n].acl = st.acl
      /\ \A m \in Name \ {n} : slot'[m] = slot[m]
  BY <1>1 DEF Activate, Configure, Slot
<1>3. CASE slot[n].declared /\ SamePolicy(slot[n], st)
  <2>1. ASSUME NEW m \in Name
        PROVE  (IF slot'[m].declared THEN <<slot'[m].entries \ Path, slot'[m].acl>> ELSE <<>>)
                 = IF slot[m].declared THEN <<slot[m].entries \ Path, slot[m].acl>> ELSE <<>>
    BY <1>2, <1>3 DEF SamePolicy
  <2>2. InForce' = InForce
    BY <2>1 DEF InForce
  <2> QED
    BY <2>2
<1>4. CASE ~slot[n].declared \/ ~SamePolicy(slot[n], st)
  BY <1>1, <1>4 DEF Activate
<1> QED
  BY <1>3, <1>4

\* So does a step of any kind.
LEMMA PolicyStep ==
    ASSUME OwnershipInv, [Next]_vars
    PROVE  InForce' # InForce => policy' > policy
<1>1. policy \in Nat /\ stage \in [Conn -> Stage] /\ slot \in [Name -> Slot]
  BY DEF OwnershipInv, TypeOK
<1>2. ASSUME NEW c \in Conn, FunctionSync(c) PROVE InForce' # InForce => policy' > policy
  <2>1. PICK D \in SUBSET OfKind("function") : \E ids \in [D -> Id], fits \in BOOLEAN :
          FunctionSlice(c, D, ids, fits)
    BY <1>2 DEF FunctionSync, Fits
  <2>2. PICK ids \in [D -> Id], fits \in BOOLEAN : FunctionSlice(c, D, ids, fits)
    BY <2>1
  <2>3. CASE slot' = slot
    BY <2>3 DEF InForce
  <2>4. CASE Activate(c, Extend(stage[c], D, ids))
    <3>1. Extend(stage[c], D, ids) \in Stage
      BY <1>1, ExtendType DEF OfKind
    <3> QED
      BY <2>4, <3>1, ActivateChangesPolicy
  <2> QED
    BY <2>2, <2>3, <2>4 DEF FunctionSlice
<1>3. ASSUME NEW t \in expiring, ExpireCoordinator(t[1], t[2])
      PROVE  InForce' # InForce => policy' > policy
  <2>1. CASE slot' = slot
    BY <2>1 DEF InForce
  <2>2. CASE slot' = [slot EXCEPT ![t[1]] = NoSlot] /\ RemoveCoordinator(t[1])
    <3>1. CASE slot[t[1]].declared
      BY <1>1, <2>2, <3>1 DEF RemoveCoordinator
    <3>2. CASE ~slot[t[1]].declared
      <4>1. \A n \in Name : slot'[n] = slot[n] \/ (~slot'[n].declared /\ ~slot[n].declared)
        BY <1>1, <2>2, <3>2 DEF NoSlot
      <4> QED
        BY <4>1 DEF InForce
    <3> QED
      BY <3>1, <3>2
  <2> QED
    BY <1>3, <2>1, <2>2 DEF ExpireCoordinator
<1>4. CASE \/ \E c \in Conn : Connection(c) \/ (Handler(c) /\ ~FunctionSync(c))
           \/ \E t \in overdue : ExpireStage(t[1], t[2])
           \/ \E m \in Name : GraceFires(m)
  <2>1. ASSUME NEW c \in Conn, StateSet(c), NEW n \in Name
        PROVE  slot'[n].declared = slot[n].declared /\ slot'[n].entries = slot[n].entries
    <3>1. \A s \in Slot : \A E, values : LET t == SetConfig(s, E, values) IN
            t.declared = s.declared /\ t.entries = s.entries
      BY DEF SetConfig, Slot
    <3>2. slot' = slot \/ \E E, values :
            slot' = [slot EXCEPT ![NameOf[c]] = SetConfig(slot[NameOf[c]], E, values)]
      BY <2>1 DEF StateSet
    <3> QED
      BY <1>1, <3>1, <3>2
  <2>2. \A n \in Name : slot'[n].declared = slot[n].declared /\ slot'[n].entries = slot[n].entries
    BY <1>4, <2>1, ConnectionKeeps, SliceKeeps, TimerKeeps DEF Handler, Kept
  <2> QED
    BY <1>4, <2>2, AclIsKept, SameForce
<1>5. CASE UNCHANGED vars
  BY <1>5 DEF vars, slotVars, InForce
<1> QED
  BY <1>2, <1>3, <1>4, <1>5 DEF Next

\* A projection cached under a policy revision never outlives that policy.
THEOREM PolicyHasRevision == Spec => PolicyChangesRevision
<1>1. OwnershipInv /\ [Next]_vars => [InForce' # InForce => policy' > policy]_vars
  BY PolicyStep
<1> QED
  BY <1>1, OwnershipInvariant, PTL DEF Spec, PolicyChangesRevision

----------------------------------------------------------------------------
\* The limits of the home

\* Entries of a kind are finitely many, and so is every selection of them.
LEMMA SelectionIsFinite ==
    ASSUME NEW S \in SUBSET Entry
    PROVE  IsFiniteSet(S) /\ Cardinality(S) \in Nat
BY FiniteAssumption, FS_Subset, FS_CardinalityType

\* aggregateStateCountLocked and its copies count at least what an activation
\* leaves owned: the previous set, taken off, is part of what is owned.
LEMMA AggregateCounts ==
    ASSUME OwnershipInv, NEW k \in Kind, NEW n \in Name, NEW D \in SUBSET Entry,
           owner' = Own(n, D)
    PROVE  Cardinality(OwnedOfKind(k)') <= AggregateCount(k, n, D)
<1> DEFINE Held == OwnedOfKind(k)
           Given == slot[n].entries \cap OfKind(k)
           Taken == D \cap OfKind(k)
<1>1. Held \in SUBSET Entry /\ Taken \in SUBSET Entry /\ Held \ Given \in SUBSET Entry
  BY DEF OwnedOfKind, OfKind
<1>2. Given \subseteq Held
  BY NamesAssumption DEF OwnershipInv, OwnersMatchConfigs, HeldBy, OwnedOfKind, OfKind
<1>3. OwnedOfKind(k)' \subseteq (Held \ Given) \cup Taken
  BY DEF OwnedOfKind, OfKind, Own
<1> DEFINE a == Cardinality(Held)
           b == Cardinality(Given)
           d == Cardinality(Taken)
           r == Cardinality(Held \ Given)
           i == Cardinality((Held \ Given) \cap Taken)
<1>4. a \in Nat /\ b \in Nat /\ d \in Nat /\ r \in Nat /\ i \in Nat
  BY <1>1, <1>2, SelectionIsFinite
<1>5. r = a - b
  <2>1. Held \cap Given = Given
    BY <1>2
  <2>2. IsFiniteSet(Held)
    BY <1>1, SelectionIsFinite
  <2>3. Cardinality(Held \ Given) = Cardinality(Held) - Cardinality(Held \cap Given)
    BY <2>2, FS_Difference
  <2> QED
    BY <2>1, <2>3
<1>6. /\ IsFiniteSet((Held \ Given) \cup Taken)
      /\ Cardinality((Held \ Given) \cup Taken) = r + d - i
  BY <1>1, SelectionIsFinite, FS_Union
<1>7. Cardinality(OwnedOfKind(k)') <= Cardinality((Held \ Given) \cup Taken)
  BY <1>3, <1>6, FS_Subset
<1>8. Cardinality(OwnedOfKind(k)') \in Nat
  <2>1. OwnedOfKind(k)' \in SUBSET Entry
    BY <1>1, <1>3
  <2> QED
    BY <2>1, SelectionIsFinite
<1>9. AggregateCount(k, n, D) = a - b + d
  BY DEF AggregateCount
<1> HIDE DEF a, b, d, r, i
<1> QED
  BY <1>4, <1>5, <1>6, <1>7, <1>8, <1>9

\* A coordinator whose declaration passed the limits leaves the home in them.
LEMMA ActivateStaysWithin ==
    ASSUME OwnershipInv, WithinHomeLimits, NEW c \in Conn, NEW st \in Stage, Activate(c, st),
           WithinLimits(NameOf[c], st.entries)
    PROVE  WithinHomeLimits'
<1> DEFINE n == NameOf[c]
           D == st.entries
<1>1. n \in Name /\ D \in SUBSET Entry /\ owner' = Own(n, D)
  BY NamesAssumption DEF OwnershipInv, TypeOK, Activate, Stage
<1>2. Cardinality(OwnedOfKind("state")') <= MaxStatePaths
  <2> DEFINE m == Cardinality(OwnedOfKind("state")')
             a == AggregateCount("state", n, D)
  <2>1. m <= a
    BY <1>1, AggregateCounts
  <2>2. a <= MaxStatePaths
    BY DEF WithinLimits
  <2>3. m \in Nat
    BY <1>1, SelectionIsFinite DEF OwnedOfKind, OfKind
  <2>4. a \in Int
    BY <1>1, SelectionIsFinite DEF AggregateCount, OwnedOfKind, OfKind
  <2> HIDE DEF m, a
  <2>5. m <= MaxStatePaths
    BY <2>1, <2>2, <2>3, <2>4, BoundAssumption
  <2> QED
    BY <2>5 DEF m
<1>3. ASSUME NEW k \in Kind
      PROVE  Cardinality({e \in OfKind(k) : idOf'[e] # NoId}) <= MaxDictionary
  <2> DEFINE After == {e \in OfKind(k) : idOf'[e] # NoId}
             Counted == {e \in OfKind(k) : Known(e) \/ e \in D}
  <2>1. After \subseteq Counted /\ Counted \in SUBSET Entry
    BY DEF Activate, Learn, Known, OfKind
  <2>2. IsFiniteSet(Counted) /\ Cardinality(Counted) \in Nat /\ Cardinality(After) \in Nat
    BY <2>1, SelectionIsFinite
  <2>3. Cardinality(After) <= Cardinality(Counted)
    BY <2>1, <2>2, FS_Subset
  <2>4. Cardinality(Counted) <= MaxDictionary
    BY DEF WithinLimits, DictionaryCount
  <2> HIDE DEF After, Counted
  <2>5. Cardinality(After) <= MaxDictionary
    BY <2>2, <2>3, <2>4, BoundAssumption
  <2> QED
    BY <2>5 DEF After
<1> QED
  BY <1>2, <1>3 DEF WithinHomeLimits, OfKind

\* Expiry only gives up what was owned.
LEMMA ExpireStaysWithin ==
    ASSUME OwnershipInv, WithinHomeLimits, NEW t \in expiring, ExpireCoordinator(t[1], t[2])
    PROVE  WithinHomeLimits'
<1>1. idOf' = idOf /\ \A e \in Entry : owner'[e] = owner[e] \/ owner'[e] = None
  BY DEF ExpireCoordinator, RemoveCoordinator, tableVars, dictVars
<1> DEFINE Before == OwnedOfKind("state")
           After == OwnedOfKind("state")'
<1>2. After \subseteq Before /\ Before \in SUBSET Entry
  BY <1>1 DEF OwnedOfKind, OfKind
<1>3. /\ Cardinality(After) <= Cardinality(Before)
      /\ Cardinality(After) \in Nat /\ Cardinality(Before) \in Nat
  BY <1>2, SelectionIsFinite, FS_Subset
<1>4. Cardinality(Before) <= MaxStatePaths
  BY DEF WithinHomeLimits
<1> HIDE DEF After, Before
<1>5. Cardinality(After) <= MaxStatePaths
  BY <1>3, <1>4, BoundAssumption
<1> QED
  BY <1>1, <1>5 DEF WithinHomeLimits, After, OfKind

\* Every other step leaves the counted tables alone.
LEMMA LimitsStep ==
    ASSUME OwnershipInv, WithinHomeLimits, [Next]_vars
    PROVE  WithinHomeLimits'
<1>1. stage \in [Conn -> Stage]
  BY DEF OwnershipInv, TypeOK
<1>2. ASSUME owner' = owner, idOf' = idOf PROVE WithinHomeLimits'
  BY <1>2 DEF WithinHomeLimits, OwnedOfKind, OfKind
<1>3. ASSUME NEW c \in Conn, FunctionSync(c) PROVE WithinHomeLimits'
  <2>1. PICK D \in SUBSET OfKind("function") : \E ids \in [D -> Id], fits \in BOOLEAN :
          FunctionSlice(c, D, ids, fits)
    BY <1>3 DEF FunctionSync, Fits
  <2>2. PICK ids \in [D -> Id], fits \in BOOLEAN : FunctionSlice(c, D, ids, fits)
    BY <2>1
  <2> DEFINE st == Extend(stage[c], D, ids)
  <2>3. CASE UNCHANGED <<slot, idOf, nameOf, tableVars>>
    BY <1>2, <2>3 DEF tableVars
  <2>4. CASE Activate(c, st) /\ WithinLimits(NameOf[c], st.entries)
    <3>1. st \in Stage
      BY <1>1, ExtendType DEF OfKind
    <3> HIDE DEF st
    <3> QED
      BY <2>4, <3>1, ActivateStaysWithin
  <2> QED
    BY <2>2, <2>3, <2>4 DEF FunctionSlice
<1>4. ASSUME NEW c \in Conn, Handler(c), ~FunctionSync(c) PROVE WithinHomeLimits'
  BY <1>2, <1>4 DEF Handler, Superseded, WrongSlice, OtherFrame, StateSync, AclSync, EventSync,
                    StateSet, tableVars, dictVars
<1>5. ASSUME NEW c \in Conn, Connection(c) PROVE WithinHomeLimits'
  BY <1>2, <1>5 DEF Connection, Attach, FailAsync, Detach, Receive, StageTimerFires,
                    tableVars, dictVars
<1>6. ASSUME \/ \E t \in overdue : ExpireStage(t[1], t[2])
             \/ \E n \in Name : GraceFires(n)
      PROVE  WithinHomeLimits'
  BY <1>2, <1>6 DEF ExpireStage, GraceFires, tableVars, dictVars
<1>7. CASE UNCHANGED vars
  BY <1>2, <1>7 DEF vars, tableVars, dictVars
<1> QED
  BY <1>3, <1>4, <1>5, <1>6, <1>7, ExpireStaysWithin DEF Next

\* However coordinators declare, are replaced and expire, the tables of a home
\* stay within maxDictionaryEntries and protocol.MaxStatePathsPerHome.
THEOREM HomeStaysWithinLimits == Spec => []WithinHomeLimits
<1>1. Init => WithinHomeLimits
  <2> SUFFICES ASSUME Init PROVE WithinHomeLimits
    OBVIOUS
  <2>1. OwnedOfKind("state") = {}
    BY DEF Init, OwnedOfKind, OfKind
  <2>2. \A k \in Kind : {e \in OfKind(k) : idOf[e] # NoId} = {}
    BY DEF Init, NoIds, OfKind
  <2> QED
    BY <2>1, <2>2, FS_EmptySet, BoundAssumption DEF WithinHomeLimits
<1>2. OwnershipInv /\ WithinHomeLimits /\ [Next]_vars => WithinHomeLimits'
  BY LimitsStep
<1> QED
  BY <1>1, <1>2, OwnershipInvariant, PTL DEF Spec

=============================================================================
