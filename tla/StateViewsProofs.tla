--------------------------- MODULE StateViewsProofs ---------------------------
(***************************************************************************)
(* Proofs about StateViews: sessions have the home as they may see it, for *)
(* any users, coordinators, declarations and values.                       *)
(***************************************************************************)
EXTENDS StateViews, TLAPS

\* TypeOK without the sessions.
HomeTypes ==
    /\ slot \in [Name -> SlotStatus]
    /\ stage \in [Name -> StageRecord]
    /\ active \in [Name -> Config \cup {NoConfig}]
    /\ given \in [Name -> Ids]
    /\ reserved \in Ids /\ current \in Ids
    /\ known \subseteq Item \X Nat
    /\ state \in Values
    /\ revision \in Nat /\ revision # 0

\* A home holds values of declared paths only.
Held(act, st) == \A p \in Path : st[p] # NoValue => p \in OwnedPaths(act)

\* What is declared was given its current identifiers.
GivenAreCurrent ==
    \A n \in Declared(active) : \A i \in active[n].paths \cup active[n].topics :
        given[n][i] = current[i]

\* What is declared has one owner.
OwnersAreDisjoint ==
    \A n, m \in Declared(active) : n # m =>
        /\ active[n].paths \cap active[m].paths = {}
        /\ active[n].topics \cap active[m].topics = {}

DeclarationsAgree == GivenAreCurrent /\ OwnersAreDisjoint /\ Held(active, state)

HomeInv == HomeTypes /\ DeclarationsAgree

\* One session, with record r and client x, has the home that declares act,
\* names by cur and holds st.
Agrees(u, r, x, act, cur, st, rev) ==
    /\ r \in UserRecord /\ x \in Shown
    /\ x.revision <= rev /\ x.strays = {}
    /\ r.phase # "open" => x = NoClient
    /\ r.phase = "new" => r.subs = {}
    /\ r.phase \in {"open", "lapsed"} => \A e \in r.subs : e[1] \in Hear(act, u)
    /\ r.phase = "open" =>
         /\ r.last = x.revision /\ x.revision # 0
         /\ x.paths = Entries(OwnedPaths(act) \cap See(act, u), cur)
         /\ \A p \in Path \ x.missed : x.values[p] = View(act, st, u)[p]
         /\ x.topics = Entries(OwnedTopics(act) \cap (Hear(act, u) \cup Say(act, u)), cur)
         /\ x.gaps = 0

SessionsInv ==
    /\ user \in [User -> UserRecord] /\ client \in [User -> Shown]
    /\ \A u \in User : Agrees(u, user[u], client[u], active, current, state, revision)

\* The inductive invariant.
ViewsInv == HomeInv /\ SessionsInv

\* It implies what the runs check.
LEMMA ViewsInvImplies ==
    ASSUME ViewsInv
    PROVE  TypeOK /\ ViewsFollowTheHome /\ SubscriptionsStayAuthorized /\ EventsAreExpected
<1>1. TypeOK
  BY DEF ViewsInv, HomeInv, HomeTypes, SessionsInv, TypeOK
<1>2. ViewsFollowTheHome
  BY DEF ViewsInv, SessionsInv, Agrees, ViewsFollowTheHome, Available
<1>3. SubscriptionsStayAuthorized
  BY DEF ViewsInv, SessionsInv, Agrees, SubscriptionsStayAuthorized, Members
<1>4. EventsAreExpected
  BY DEF ViewsInv, SessionsInv, Agrees, EventsAreExpected
<1> QED
  BY <1>1, <1>2, <1>3, <1>4

----------------------------------------------------------------------------
\* What the operators return

\* A view of a home's values is a table of values.
LEMMA ViewType ==
    ASSUME NEW act, NEW st \in Values, NEW u
    PROVE  View(act, st, u) \in Values
BY DEF View, Values

\* A coordinator's rights are sets of paths and topics.
LEMMA RightsTypes ==
    ASSUME NEW act \in [Name -> Config \cup {NoConfig}], NEW u \in User
    PROVE  /\ OwnedPaths(act) \subseteq Path /\ OwnedTopics(act) \subseteq Topic
           /\ See(act, u) \subseteq Path
           /\ Hear(act, u) \subseteq Topic /\ Say(act, u) \subseteq Topic
<1>1. \A n \in Declared(act) : act[n] \in Config
  BY DEF Declared
<1> QED
  BY <1>1 DEF Config, OwnedPaths, OwnedTopics, See, Hear, Say

\* A dictionary lists a name under one identifier.
LEMMA EntriesMembers ==
    ASSUME NEW S, NEW cur, NEW i, NEW k
    PROVE  <<i, k>> \in Entries(S, cur) <=> i \in S /\ k = cur[i]
BY DEF Entries

\* A dictionary is a set of names with identifiers.
LEMMA EntriesType ==
    ASSUME NEW cur \in Ids, NEW S \in SUBSET Item
    PROVE  Entries(S, cur) \subseteq S \X Nat
BY DEF Entries, Ids

\* A snapshot read with the dictionary of all that a session may see is its view.
LEMMA ReadIsView ==
    ASSUME NEW act \in [Name -> Config \cup {NoConfig}], NEW cur, NEW st \in Values,
           NEW u \in User, Held(act, st)
    PROVE  Read(Entries(OwnedPaths(act) \cap See(act, u), cur), act, cur, st, u)
             = View(act, st, u)
<1> DEFINE E == Entries(OwnedPaths(act) \cap See(act, u), cur)
<1>1. ASSUME NEW p \in Path
      PROVE  (IF <<p, cur[p]>> \in E THEN View(act, st, u)[p] ELSE NoValue)
               = View(act, st, u)[p]
  <2>1. <<p, cur[p]>> \in E <=> p \in OwnedPaths(act) /\ p \in See(act, u)
    BY EntriesMembers
  <2>2. View(act, st, u)[p] = IF p \in See(act, u) THEN st[p] ELSE NoValue
    BY DEF View
  <2>3. st[p] # NoValue => p \in OwnedPaths(act)
    BY DEF Held
  <2> HIDE DEF E
  <2> QED
    BY <2>1, <2>2, <2>3
<1> HIDE DEF E
<1>2. Read(E, act, cur, st, u) = [p \in Path |-> View(act, st, u)[p]]
  BY <1>1 DEF Read
<1>3. View(act, st, u) = [p \in Path |-> View(act, st, u)[p]]
  BY DEF View
<1> QED
  BY <1>2, <1>3 DEF E

\* y is x with the home's state as a session may see it.
StateOf(y, x, act, cur, st, rev, u) ==
    /\ y \in Shown
    /\ y.paths = Entries(OwnedPaths(act) \cap See(act, u), cur)
    /\ y.values = View(act, st, u)
    /\ y.revision = rev /\ y.gaps = 0
    /\ y.topics = x.topics /\ y.strays = x.strays

\* y is x with the whole home as a session may see it.
HomeOf(y, x, act, cur, st, rev, u) ==
    /\ y \in Shown
    /\ y.paths = Entries(OwnedPaths(act) \cap See(act, u), cur)
    /\ y.values = View(act, st, u)
    /\ y.revision = rev /\ y.gaps = 0
    /\ y.topics = Entries(OwnedTopics(act) \cap (Hear(act, u) \cup Say(act, u)), cur)
    /\ y.strays = x.strays

\* A dictionary and a snapshot give a client the home's state as it may see it.
LEMMA StateShownIs ==
    ASSUME NEW act \in [Name -> Config \cup {NoConfig}], NEW cur \in Ids, NEW st \in Values,
           NEW rev \in Nat, NEW u \in User, NEW x \in Shown, Held(act, st)
    PROVE  StateOf(StateShown(x, act, cur, st, rev, u), x, act, cur, st, rev, u)
<1> DEFINE E == Entries(OwnedPaths(act) \cap See(act, u), cur)
           vs == View(act, st, u)
           y == [x EXCEPT !.paths = E, !.values = vs, !.missed = {}, !.revision = rev,
                          !.gaps = 0]
<1>1. vs \in Values
  BY ViewType
<1>2. E \subseteq Path \X Nat
  <2>1. OwnedPaths(act) \cap See(act, u) \subseteq Path
    BY RightsTypes
  <2>2. E \subseteq (OwnedPaths(act) \cap See(act, u)) \X Nat
    BY <2>1, EntriesType DEF Item
  <2> QED
    BY <2>1, <2>2
<1>3. Read(E, act, cur, st, u) = vs
  BY ReadIsView
<1>4. StateShown(x, act, cur, st, rev, u) = y
  BY <1>3 DEF StateShown
<1> HIDE DEF E, vs
<1>5. y \in Shown
  BY <1>1, <1>2 DEF Shown
<1>6. /\ y.paths = E /\ y.values = vs /\ y.revision = rev /\ y.gaps = 0
      /\ y.topics = x.topics /\ y.strays = x.strays
  BY DEF Shown
<1> HIDE DEF y
<1> QED
  BY <1>4, <1>5, <1>6 DEF StateOf, E, vs

\* With the topic dictionary, it has the whole home.
LEMMA HomeShownIs ==
    ASSUME NEW act \in [Name -> Config \cup {NoConfig}], NEW cur \in Ids, NEW st \in Values,
           NEW rev \in Nat, NEW u \in User, NEW x \in Shown, Held(act, st)
    PROVE  HomeOf(HomeShown(x, act, cur, st, rev, u), x, act, cur, st, rev, u)
<1> DEFINE S == OwnedTopics(act) \cap (Hear(act, u) \cup Say(act, u))
           E == Entries(S, cur)
           y == StateShown(x, act, cur, st, rev, u)
           z == [y EXCEPT !.topics = E]
<1>1. StateOf(y, x, act, cur, st, rev, u)
  BY StateShownIs
<1>2. HomeShown(x, act, cur, st, rev, u) = z
  BY DEF HomeShown, TopicsShown
<1>3. S \subseteq Topic
  BY RightsTypes
<1> HIDE DEF y, S
<1>4. E \subseteq Topic \X Nat
  <2>1. E \subseteq S \X Nat
    BY <1>3, EntriesType DEF Item
  <2> QED
    BY <1>3, <2>1
<1> HIDE DEF E
<1>5. y \in Shown
  BY <1>1 DEF StateOf
<1>6. z \in Shown
  BY <1>4, <1>5 DEF Shown
<1>7. /\ z.topics = E /\ z.paths = y.paths /\ z.values = y.values
      /\ z.revision = y.revision /\ z.gaps = y.gaps /\ z.strays = y.strays
  BY <1>5 DEF Shown
<1> HIDE DEF z
<1> QED
  BY <1>1, <1>2, <1>6, <1>7 DEF StateOf, HomeOf, E, S

----------------------------------------------------------------------------
\* The home

\* A home's values without a coordinator's are values.
LEMMA ReleasedType ==
    ASSUME HomeTypes, NEW n \in Name
    PROVE  Released(n) \in Values
BY DEF HomeTypes, Released, Values

\* Reservations are identifiers.
LEMMA ReserveType ==
    ASSUME HomeTypes, NEW items
    PROVE  Reserve(items) \in Ids
BY DEF HomeTypes, Reserve, Ids

\* Without a coordinator's declaration, the home holds values of the others.
LEMMA ReleasedHeld ==
    ASSUME HomeInv, NEW n \in Name, NEW p \in Path, Released(n)[p] # NoValue
    PROVE  /\ state[p] # NoValue /\ Released(n)[p] = state[p]
           /\ \E m \in Declared(active) \ {n} : p \in active[m].paths
<1>1. Held(active, state)
  BY DEF HomeInv, DeclarationsAgree, GivenAreCurrent, OwnersAreDisjoint
<1>2. state[p] # NoValue /\ Released(n)[p] = state[p]
      /\ (active[n] # NoConfig => p \notin active[n].paths)
  BY DEF Released
<1>3. PICK m \in Declared(active) : p \in active[m].paths
  BY <1>1, <1>2 DEF Held, OwnedPaths
<1>4. m # n
  BY <1>2, <1>3 DEF Declared
<1> QED
  BY <1>2, <1>3, <1>4

\* A declaration takes the place of the coordinator's previous one, under the
\* identifiers of its transaction, and touches no name of the others.
LEMMA ActivateKeepsHome ==
    ASSUME HomeInv, NEW n \in Name, NEW cfg \in Offers[n],
           NEW values \in [cfg.paths -> Value], Activate(n, cfg, values)
    PROVE  HomeInv'
<1> DEFINE ids == stage[n].ids
           st == [p \in Path |-> IF p \in cfg.paths THEN values[p] ELSE Released(n)[p]]
<1>1. /\ cfg \in Config /\ cfg # NoConfig
      /\ cfg.paths \subseteq Path /\ cfg.topics \subseteq Topic
  BY OffersAssumption DEF Config
<1>2. /\ slot \in [Name -> SlotStatus] /\ stage \in [Name -> StageRecord]
      /\ active \in [Name -> Config \cup {NoConfig}] /\ given \in [Name -> Ids]
      /\ reserved \in Ids /\ current \in Ids /\ known \subseteq Item \X Nat
      /\ revision \in Nat /\ revision # 0
  BY DEF HomeInv, HomeTypes
<1>3. ids \in Ids
  BY <1>2 DEF StageRecord
<1>4. /\ active' = [active EXCEPT ![n] = cfg] /\ given' = [given EXCEPT ![n] = ids]
      /\ slot' = [slot EXCEPT ![n] = "ready"] /\ stage' = [stage EXCEPT ![n] = NoStage]
      /\ reserved' = reserved /\ current' = Renamed(ids) /\ state' = st
      /\ known' = known \cup Entries(Staged(n), ids)
      /\ revision' \in {revision, revision + 1}
  BY DEF Activate
<1>5. cfg.paths \cup cfg.topics = Staged(n) /\ Unclaimed(n, cfg)
  BY DEF Activate
<1> HIDE DEF ids
<1>6. HomeTypes'
  <2>1. Renamed(ids) \in Ids
    BY <1>2, <1>3 DEF Renamed, Ids
  <2>2. st \in Values
    BY ReleasedType DEF Values, HomeInv
  <2>3. Entries(Staged(n), ids) \subseteq Item \X Nat
    <3>1. Staged(n) \in SUBSET Item
      BY DEF Staged
    <3>2. Entries(Staged(n), ids) \subseteq Staged(n) \X Nat
      BY <1>3, <3>1, EntriesType
    <3> QED
      BY <3>1, <3>2
  <2>4. NoStage \in StageRecord /\ "ready" \in SlotStatus
    BY DEF NoStage, StageRecord, NoIds, Ids, SlotStatus
  <2>5. revision' \in Nat /\ revision' # 0
    BY <1>2, <1>4
  <2>6. /\ slot' \in [Name -> SlotStatus] /\ stage' \in [Name -> StageRecord]
        /\ active' \in [Name -> Config \cup {NoConfig}] /\ given' \in [Name -> Ids]
    BY <1>1, <1>2, <1>3, <1>4, <2>4
  <2> HIDE DEF st
  <2> QED
    BY <1>2, <1>4, <2>1, <2>2, <2>3, <2>5, <2>6 DEF HomeTypes
<1>7. active'[n] = cfg /\ given'[n] = ids
      /\ \A m \in Name : m # n => active'[m] = active[m] /\ given'[m] = given[m]
  BY <1>2, <1>4
<1>8. \A m \in Name : m \in Declared(active)' <=> m = n \/ m \in Declared(active)
  BY <1>1, <1>7 DEF Declared
<1>9. ASSUME NEW m \in Name, m \in Declared(active)', NEW i \in active'[m].paths \cup active'[m].topics
      PROVE  given'[m][i] = current'[i]
  <2>1. CASE m = n
    <3>1. i \in Staged(n)
      BY <1>5, <1>7, <1>9, <2>1
    <3>2. i \in Item /\ ids[i] # 0
      BY <3>1 DEF Staged, ids
    <3> QED
      BY <1>4, <1>7, <2>1, <3>2 DEF Renamed
  <2>2. CASE m # n
    <3>1. m \in Declared(active) \ {n} /\ i \in active[m].paths \cup active[m].topics
      BY <1>7, <1>8, <1>9, <2>2
    <3>2. active[m] \in Config
      BY <1>2, <3>1 DEF Declared
    <3>3. active[m].paths \subseteq Path /\ active[m].topics \subseteq Topic
      BY <3>2 DEF Config
    <3>4. i \in Item /\ i \notin cfg.paths \cup cfg.topics
      BY <1>1, <1>5, <3>1, <3>3, ItemAssumption DEF Unclaimed, Item
    <3>5. ids[i] = 0
      BY <1>5, <3>4 DEF Staged, ids
    <3>6. given[m][i] = current[i]
      BY <3>1 DEF HomeInv, DeclarationsAgree, GivenAreCurrent, OwnersAreDisjoint
    <3> QED
      BY <1>4, <1>7, <2>2, <3>4, <3>5, <3>6 DEF Renamed
  <2> QED
    BY <2>1, <2>2
<1>10. ASSUME NEW m \in Name, NEW k \in Name, m \in Declared(active)', k \in Declared(active)', m # k
       PROVE  /\ active'[m].paths \cap active'[k].paths = {}
              /\ active'[m].topics \cap active'[k].topics = {}
  <2>1. CASE m # n /\ k # n
    BY <1>7, <1>8, <1>10, <2>1 DEF HomeInv, DeclarationsAgree, GivenAreCurrent, OwnersAreDisjoint
  <2>2. CASE m = n
    <3>1. k \in Declared(active) \ {n}
      BY <1>8, <1>10, <2>2
    <3> QED
      BY <1>5, <1>7, <2>2, <3>1 DEF Unclaimed
  <2>3. CASE k = n
    <3>1. m \in Declared(active) \ {n}
      BY <1>8, <1>10, <2>3
    <3> QED
      BY <1>5, <1>7, <2>3, <3>1 DEF Unclaimed
  <2> QED
    BY <2>1, <2>2, <2>3
<1>11. ASSUME NEW p \in Path, state'[p] # NoValue
       PROVE  p \in OwnedPaths(active)'
  <2>1. n \in Declared(active)'
    BY <1>8
  <2>2. CASE p \in cfg.paths
    BY <1>7, <2>1, <2>2 DEF OwnedPaths
  <2>3. CASE p \notin cfg.paths
    <3>1. Released(n)[p] # NoValue
      BY <1>4, <1>11, <2>3
    <3>2. PICK m \in Declared(active) \ {n} : p \in active[m].paths
      BY <3>1, ReleasedHeld
    <3>3. m \in Declared(active)' /\ active'[m] = active[m]
      BY <1>7, <1>8, <3>2 DEF Declared
    <3> QED
      BY <3>2, <3>3 DEF OwnedPaths
  <2> QED
    BY <2>2, <2>3
<1>12. DeclarationsAgree'
  <2>1. Declared(active)' \subseteq Name
    BY DEF Declared
  <2>2. Held(active', state')
    BY <1>11 DEF Held
  <2>3. \A m \in Declared(active)' : \A i \in active'[m].paths \cup active'[m].topics :
          given'[m][i] = current'[i]
    BY <1>9, <2>1
  <2>4. \A m, k \in Declared(active)' : m # k =>
          /\ active'[m].paths \cap active'[k].paths = {}
          /\ active'[m].topics \cap active'[k].topics = {}
    BY <1>10, <2>1
  <2>5. GivenAreCurrent'
    BY <2>3 DEF GivenAreCurrent
  <2>6. OwnersAreDisjoint'
    BY <2>4 DEF OwnersAreDisjoint
  <2> QED
    BY <2>2, <2>5, <2>6 DEF DeclarationsAgree
<1> QED
  BY <1>6, <1>12 DEF HomeInv

\* Expiry takes a coordinator's declaration and its values away, if it has one.
LEMMA ExpireKeepsHome ==
    ASSUME HomeInv, NEW n \in Name, Expire(n)
    PROVE  HomeInv'
<1>1. /\ slot \in [Name -> SlotStatus] /\ active \in [Name -> Config \cup {NoConfig}]
      /\ given \in [Name -> Ids] /\ revision \in Nat /\ revision # 0 /\ state \in Values
  BY DEF HomeInv, HomeTypes
<1>2. /\ slot' = [slot EXCEPT ![n] = "absent"] /\ given' = [given EXCEPT ![n] = NoIds]
      /\ UNCHANGED <<stage, reserved, current, known>>
      /\ active' = [active EXCEPT ![n] = NoConfig] /\ state' = Released(n)
      /\ revision' \in {revision, revision + 1}
  <2>1. CASE active[n] = NoConfig
    <3>1. active = [active EXCEPT ![n] = NoConfig]
      BY <1>1, <2>1
    <3> QED
      BY <2>1, <3>1 DEF Expire, Released, idVars
  <2>2. CASE active[n] # NoConfig
    BY <2>2 DEF Expire, idVars
  <2> QED
    BY <2>1, <2>2
<1>3. HomeTypes'
  <2>1. NoIds \in Ids /\ "absent" \in SlotStatus
    BY DEF NoIds, Ids, SlotStatus
  <2>2. Released(n) \in Values
    BY ReleasedType DEF HomeInv
  <2>3. /\ slot' \in [Name -> SlotStatus] /\ active' \in [Name -> Config \cup {NoConfig}]
        /\ given' \in [Name -> Ids] /\ revision' \in Nat /\ revision' # 0
    BY <1>1, <1>2, <2>1
  <2> QED
    BY <1>2, <2>2, <2>3 DEF HomeInv, HomeTypes
<1>4. \A m \in Name : m # n => active'[m] = active[m] /\ given'[m] = given[m]
  BY <1>1, <1>2
<1>5. \A m \in Declared(active)' : m \in Declared(active) \ {n}
  BY <1>1, <1>2 DEF Declared
<1>6. \A m \in Declared(active) \ {n} : m \in Declared(active)'
  BY <1>4 DEF Declared
<1>7. ASSUME NEW p \in Path, state'[p] # NoValue
      PROVE  p \in OwnedPaths(active)'
  <2>1. PICK m \in Declared(active) \ {n} : p \in active[m].paths
    BY <1>2, <1>7, ReleasedHeld
  <2>2. m \in Declared(active)' /\ active'[m] = active[m]
    BY <1>4, <1>6, <2>1 DEF Declared
  <2> QED
    BY <2>1, <2>2 DEF OwnedPaths
<1>8. Held(active', state')
  BY <1>7 DEF Held
<1>9. \A m \in Declared(active)' :
        m \in Declared(active) /\ active'[m] = active[m] /\ given'[m] = given[m]
  BY <1>4, <1>5 DEF Declared
<1>10. DeclarationsAgree'
  <2>1. GivenAreCurrent /\ OwnersAreDisjoint
    BY DEF HomeInv, DeclarationsAgree
  <2>2. GivenAreCurrent'
    BY <1>2, <1>9, <2>1 DEF GivenAreCurrent
  <2>3. OwnersAreDisjoint'
    BY <1>9, <2>1 DEF OwnersAreDisjoint
  <2> QED
    BY <1>8, <2>2, <2>3 DEF DeclarationsAgree
<1> QED
  BY <1>3, <1>10 DEF HomeInv

\* Values are set of declared paths.
LEMMA StateSetKeepsHome ==
    ASSUME HomeInv, NEW n \in Name, NEW D \in SUBSET Path,
           NEW changes \in [D -> Value \cup {NoValue}], NEW via, NEW large,
           StateSet(n, changes, via, large)
    PROVE  HomeInv'
<1> DEFINE st == [p \in Path |-> IF p \in DOMAIN changes THEN changes[p] ELSE state[p]]
<1>1. /\ state' = st /\ revision' = revision + 1
      /\ UNCHANGED <<slot, stage, active, given, reserved, current, known>>
      /\ n \in Declared(active) /\ D \subseteq active[n].paths
  BY DEF StateSet, coordVars, idVars, Declared
<1>2. state \in Values /\ revision \in Nat
  BY DEF HomeInv, HomeTypes
<1>3. st \in Values
  BY <1>2 DEF Values
<1>4. ASSUME NEW p \in Path, state'[p] # NoValue
      PROVE  p \in OwnedPaths(active)
  <2>1. CASE p \in D
    BY <1>1, <2>1 DEF OwnedPaths
  <2>2. CASE p \notin D
    BY <1>1, <1>4, <2>2 DEF HomeInv, DeclarationsAgree, GivenAreCurrent, OwnersAreDisjoint, Held
  <2> QED
    BY <2>1, <2>2
<1> HIDE DEF st
<1>5. HomeTypes'
  BY <1>1, <1>2, <1>3 DEF HomeInv, HomeTypes
<1>6. DeclarationsAgree'
  BY <1>1, <1>4 DEF HomeInv, DeclarationsAgree, GivenAreCurrent, OwnersAreDisjoint, Held
<1> QED
  BY <1>5, <1>6 DEF HomeInv

\* Steps of a slot and of its transaction.
LEMMA SlotStepsKeepHome ==
    ASSUME HomeInv, NEW n \in Name,
           \/ Attach(n) \/ Detach(n) \/ EndStage(n)
           \/ \E items \in SUBSET Item : StateSync(n, items) \/ EventSync(n, items)
    PROVE  HomeInv'
<1>1. /\ slot \in [Name -> SlotStatus] /\ stage \in [Name -> StageRecord]
      /\ reserved \in Ids
  BY DEF HomeInv, HomeTypes
<1>2. NoStage \in StageRecord
  BY DEF NoStage, StageRecord, NoIds, Ids
<1>3. UNCHANGED <<active, given, current, known, state, revision>>
  BY DEF Attach, Detach, EndStage, StateSync, EventSync, idVars
<1>4. slot' \in [Name -> SlotStatus]
  BY <1>1 DEF Attach, Detach, EndStage, StateSync, EventSync, SlotStatus
<1>5. reserved' \in Ids
  BY <1>1 DEF Attach, Detach, EndStage, StateSync, EventSync, idVars, Reserving, Ids
<1>6. stage' \in [Name -> StageRecord]
  <2>1. CASE Attach(n) \/ Detach(n) \/ EndStage(n)
    BY <1>1, <1>2, <2>1 DEF Attach, Detach, EndStage
  <2>2. ASSUME NEW items \in SUBSET Item, StateSync(n, items)
        PROVE  stage' \in [Name -> StageRecord]
    <3>1. Reserve(items) \in Ids
      BY ReserveType DEF HomeInv
    <3>2. [step |-> "state", ids |-> Reserve(items)] \in StageRecord
      BY <3>1 DEF StageRecord
    <3> QED
      BY <1>1, <2>2, <3>2 DEF StateSync
  <2>3. ASSUME NEW items \in SUBSET Item, EventSync(n, items)
        PROVE  stage' \in [Name -> StageRecord]
    <3> DEFINE ids == [i \in Item |-> IF i \in items THEN Reserve(items)[i] ELSE stage[n].ids[i]]
    <3>1. Reserve(items) \in Ids /\ stage[n].ids \in Ids
      BY <1>1, ReserveType DEF HomeInv, StageRecord
    <3>2. ids \in Ids
      BY <3>1 DEF Ids
    <3>3. stage' = [stage EXCEPT ![n] = [step |-> "events", ids |-> ids]]
      BY <1>1, <2>3 DEF EventSync
    <3> HIDE DEF ids
    <3>4. [step |-> "events", ids |-> ids] \in StageRecord
      BY <3>2 DEF StageRecord
    <3> QED
      BY <1>1, <3>3, <3>4
  <2> QED
    BY <2>1, <2>2, <2>3
<1>7. HomeTypes'
  BY <1>3, <1>4, <1>5, <1>6 DEF HomeInv, HomeTypes
<1>8. DeclarationsAgree'
  BY <1>3 DEF HomeInv, DeclarationsAgree, GivenAreCurrent, OwnersAreDisjoint, Held
<1> QED
  BY <1>7, <1>8 DEF HomeInv

\* No step breaks the agreement of the declarations.
LEMMA HomeStep == ASSUME HomeInv, [Next]_vars PROVE HomeInv'
<1>1. ASSUME NEW n \in Name, NEW cfg \in Offers[n],
             StateSync(n, cfg.paths) \/ EventSync(n, cfg.topics)
      PROVE  HomeInv'
  <2>1. cfg \in Config
    BY OffersAssumption
  <2>2. cfg.paths \in SUBSET Item /\ cfg.topics \in SUBSET Item
    BY <2>1 DEF Config, Item
  <2> QED
    BY <1>1, <2>2, SlotStepsKeepHome
<1>2. ASSUME NEW n \in Name, Attach(n) \/ Detach(n) \/ EndStage(n)
      PROVE  HomeInv'
  BY <1>2, SlotStepsKeepHome
<1>3. ASSUME UNCHANGED <<coordVars, idVars, state, revision>>
      PROVE  HomeInv'
  BY <1>3 DEF HomeInv, HomeTypes, DeclarationsAgree, GivenAreCurrent, OwnersAreDisjoint, Held,
              coordVars, idVars
<1>4. ASSUME NEW u \in User, Join(u) \/ Lapse(u) \/ Leave(u) \/ Resync(u)
      PROVE  HomeInv'
  BY <1>3, <1>4 DEF Join, Lapse, Leave, Resync
<1>5. ASSUME NEW u \in User, NEW ids, Subscribe(u, ids) \/ Unsubscribe(u, ids)
      PROVE  HomeInv'
  BY <1>3, <1>5 DEF Subscribe, Unsubscribe
<1>6. ASSUME NEW n \in Name, NEW t \in Topic, NEW k, NEW targets, Publish(n, t, k, targets)
      PROVE  HomeInv'
  BY <1>3, <1>6 DEF Publish
<1>7. CASE UNCHANGED vars
  BY <1>3, <1>7 DEF vars
<1>8. ASSUME NEW n \in Name, NEW D \in SUBSET Path, NEW large \in SUBSET User,
             NEW changes \in [D -> Value \cup {NoValue}], NEW via \in [D -> 1 .. MaxIds],
             StateSet(n, changes, via, large)
      PROVE  HomeInv'
  BY <1>8, StateSetKeepsHome
<1>9. ASSUME NEW n \in Name, NEW cfg \in Offers[n], NEW values \in [cfg.paths -> Value],
             Activate(n, cfg, values)
      PROVE  HomeInv'
  BY <1>9, ActivateKeepsHome
<1> QED
  BY <1>1, <1>2, <1>4, <1>5, <1>6, <1>7, <1>8, <1>9, ExpireKeepsHome DEF Next

----------------------------------------------------------------------------
\* The sessions

\* A session that is not followed agrees with every home.
LEMMA IdleAgrees ==
    ASSUME NEW u, NEW r \in UserRecord, r.phase # "open",
           NEW act, NEW cur, NEW st, NEW rev \in Nat,
           r.phase = "new" => r.subs = {},
           r.phase = "lapsed" => \A e \in r.subs : e[1] \in Hear(act, u)
    PROVE  Agrees(u, r, NoClient, act, cur, st, rev)
<1>1. NoClient \in Shown /\ NoClient.revision = 0 /\ NoClient.strays = {}
  BY DEF NoClient, Shown, Nothing, Values
<1> QED
  BY <1>1 DEF Agrees

\* An open session that was just shown the home agrees with it.
LEMMA ShownAgrees ==
    ASSUME NEW u, NEW r \in UserRecord, r.phase = "open",
           NEW act, NEW cur, NEW st, NEW rev \in Nat, rev # 0, r.last = rev,
           \A e \in r.subs : e[1] \in Hear(act, u),
           NEW y, NEW x, HomeOf(y, x, act, cur, st, rev, u), x.strays = {}
    PROVE  Agrees(u, r, y, act, cur, st, rev)
BY DEF Agrees, HomeOf

\* After a change of declarations, and whatever the new home is, the sessions
\* agree with it.
LEMMA RepublishAgrees ==
    ASSUME ViewsInv, NEW act \in [Name -> Config \cup {NoConfig}], NEW cur \in Ids,
           NEW st \in Values, NEW rev \in Nat, rev >= revision, Held(act, st),
           active' = act, current' = cur, state' = st, revision' = rev,
           Republish(act, cur, st, rev)
    PROVE  SessionsInv'
<1>1. /\ user \in [User -> UserRecord] /\ client \in [User -> Shown]
      /\ revision \in Nat /\ revision # 0
  BY DEF ViewsInv, SessionsInv, HomeInv, HomeTypes
<1>2. ASSUME NEW u \in User
      PROVE  Agrees(u, user[u], client[u], active, current, state, revision)
  BY DEF ViewsInv, SessionsInv
<1>3. ASSUME NEW u \in User
      PROVE  Agrees(u, user'[u], client'[u], act, cur, st, rev)
  <2>1. user[u] \in UserRecord /\ client[u] \in Shown
    BY <1>1
  <2>2. CASE Available(u)
    <3> DEFINE r == [user[u] EXCEPT !.subs = Pruned(act, u), !.last = rev]
               y == HomeShown(client[u], act, cur, st, rev, u)
    <3>1. Pruned(act, u) \subseteq user[u].subs
          /\ \A e \in Pruned(act, u) : e[1] \in Hear(act, u)
      BY DEF Pruned
    <3>2. r \in UserRecord /\ r.phase = "open" /\ r.last = rev /\ r.subs = Pruned(act, u)
      BY <2>1, <2>2, <3>1 DEF UserRecord, Available
    <3>3. user'[u] = r /\ client'[u] = y
      BY <2>2 DEF Republish, ShownToAll, Members, Available
    <3>4. HomeOf(y, client[u], act, cur, st, rev, u)
      BY <2>1, HomeShownIs
    <3>5. client[u].strays = {}
      BY <1>2 DEF Agrees
    <3>6. rev # 0
      BY <1>1
    <3> HIDE DEF r, y
    <3>7. \A e \in r.subs : e[1] \in Hear(act, u)
      BY <3>1, <3>2
    <3>8. Agrees(u, r, y, act, cur, st, rev)
      BY <3>2, <3>4, <3>5, <3>6, <3>7, ShownAgrees
    <3> QED
      BY <3>3, <3>8
  <2>3. CASE user[u].phase = "lapsed"
    <3> DEFINE r == [user[u] EXCEPT !.subs = Pruned(act, u)]
    <3>1. Pruned(act, u) \subseteq user[u].subs
          /\ \A e \in Pruned(act, u) : e[1] \in Hear(act, u)
      BY DEF Pruned
    <3>2. r \in UserRecord /\ r.phase = "lapsed" /\ r.subs = Pruned(act, u)
      BY <2>1, <2>3, <3>1 DEF UserRecord
    <3>3. client'[u] = client[u] /\ client[u] = NoClient
      BY <1>2, <2>3 DEF Republish, ShownToAll, Available, Agrees
    <3>4. user'[u] = [user[u] EXCEPT !.subs = Pruned(act, u), !.last = user[u].last]
      BY <2>3 DEF Republish, Members, Available
    <3>5. user'[u] = r
      BY <2>1, <3>4 DEF UserRecord
    <3> HIDE DEF r
    <3> QED
      BY <3>1, <3>2, <3>3, <3>5, IdleAgrees
  <2>4. CASE user[u].phase \in {"new", "gone"}
    <3>1. user'[u] = user[u] /\ client'[u] = client[u]
      BY <2>4 DEF Republish, ShownToAll, Members, Available
    <3>2. client[u] = NoClient /\ (user[u].phase = "new" => user[u].subs = {})
      BY <1>2, <2>4 DEF Agrees
    <3>3. Agrees(u, user[u], NoClient, act, cur, st, rev)
      BY <2>1, <2>4, <3>2, IdleAgrees
    <3> QED
      BY <3>1, <3>2, <3>3
  <2> QED
    BY <2>1, <2>2, <2>3, <2>4 DEF UserRecord, Available
<1>4. user' = [u \in User |-> user'[u]] /\ client' = [u \in User |-> client'[u]]
  BY DEF Republish, ShownToAll
<1>5. \A u \in User : user'[u] \in UserRecord /\ client'[u] \in Shown
  BY <1>3 DEF Agrees
<1>6. user' \in [User -> UserRecord] /\ client' \in [User -> Shown]
  BY <1>4, <1>5
<1> QED
  BY <1>3, <1>6 DEF SessionsInv

\* A step of one session leaves the others in agreement.
LEMMA OneSessionStep ==
    ASSUME SessionsInv, NEW u \in User, NEW r, NEW x,
           user' = [user EXCEPT ![u] = r], client' = [client EXCEPT ![u] = x],
           Agrees(u, r, x, active, current, state, revision),
           UNCHANGED <<active, current, state, revision>>
    PROVE  SessionsInv'
<1>1. user \in [User -> UserRecord] /\ client \in [User -> Shown]
  BY DEF SessionsInv
<1>2. ASSUME NEW w \in User
      PROVE  Agrees(w, user'[w], client'[w], active, current, state, revision)
  <2>1. CASE w = u
    BY <1>1, <2>1
  <2>2. CASE w # u
    BY <1>1, <2>2 DEF SessionsInv
  <2> QED
    BY <2>1, <2>2
<1>3. r \in UserRecord /\ x \in Shown
  BY DEF Agrees
<1>4. user' \in [User -> UserRecord] /\ client' \in [User -> Shown]
  BY <1>1, <1>3
<1> QED
  BY <1>2, <1>4 DEF SessionsInv

\* A client with new values under a new revision.
Revised(x, vs, ms, rev) ==
    [x EXCEPT !.values = vs, !.missed = ms, !.gaps = 0, !.revision = rev]

\* y is x with these values and paths missed.
ValuesOf(y, x, vs, ms, rev) ==
    /\ y \in Shown /\ y.values = vs /\ y.missed = ms /\ y.revision = rev /\ y.gaps = 0
    /\ y.paths = x.paths /\ y.topics = x.topics /\ y.strays = x.strays

\* New values leave the dictionaries alone.
LEMMA RevisedIs ==
    ASSUME NEW x \in Shown, NEW vs \in Values, NEW ms \in SUBSET Path, NEW rev \in Nat
    PROVE  ValuesOf(Revised(x, vs, ms, rev), x, vs, ms, rev)
<1> DEFINE y == Revised(x, vs, ms, rev)
<1>1. y \in Shown
  BY DEF Revised, Shown
<1>2. /\ y.values = vs /\ y.missed = ms /\ y.revision = rev /\ y.gaps = 0
      /\ y.paths = x.paths /\ y.topics = x.topics /\ y.strays = x.strays
  BY DEF Revised, Shown
<1> HIDE DEF y
<1> QED
  BY <1>1, <1>2 DEF ValuesOf, y

\* A patch gives a session that agreed the new values, but for the paths it
\* misses: a mutation under the identifier its coordinator was given is one the
\* session's dictionary lists.
LEMMA PatchedAgrees ==
    ASSUME ViewsInv, NEW u \in User, Available(u), NEW n \in Declared(active),
           NEW D \in SUBSET active[n].paths, NEW changes \in [D -> Value \cup {NoValue}],
           NEW via, NEW st \in Values,
           st = [p \in Path |-> IF p \in D THEN changes[p] ELSE state[p]]
    PROVE  \E vs \in Values, ms \in SUBSET Path :
              /\ Patched(client[u], n, changes, via, u)
                   = Revised(client[u], vs, ms, revision + 1)
              /\ \A p \in Path \ ms : vs[p] = View(active, st, u)[p]
<1> DEFINE x == client[u]
           seen == D \cap See(active, u)
           listed == {p \in seen : <<p, via[p]>> \in x.paths}
           foreign == {p \in seen \ listed : via[p] # given[n][p]}
           vs == [p \in Path |-> IF p \in listed THEN changes[p] ELSE x.values[p]]
           ms == (x.missed \ seen) \cup foreign
<1>1. /\ x \in Shown /\ x.revision = user[u].last /\ x.revision # 0 /\ x.gaps = 0
      /\ x.paths = Entries(OwnedPaths(active) \cap See(active, u), current)
      /\ \A p \in Path \ x.missed : x.values[p] = View(active, state, u)[p]
  BY DEF ViewsInv, SessionsInv, Agrees, Available
<1>2. active \in [Name -> Config \cup {NoConfig}] /\ n \in Name /\ D \subseteq Path
  <2>1. active \in [Name -> Config \cup {NoConfig}]
    BY DEF ViewsInv, HomeInv, HomeTypes
  <2>2. active[n] \in Config /\ n \in Name
    BY <2>1 DEF Declared
  <2> QED
    BY <2>1, <2>2 DEF Config
<1>3. x.revision = PatchBase(u)
  BY <1>1 DEF PatchBase
<1>4. Patched(x, n, changes, via, u) = Revised(x, vs, ms, revision + 1)
  BY <1>1, <1>3 DEF Patched, Revised
<1>5. x.missed \subseteq Path /\ x.values \in Values
  BY <1>1 DEF Shown
<1>6. vs \in Values
  BY <1>2, <1>5 DEF Values
<1>7. ms \in SUBSET Path
  BY <1>2, <1>5
<1>8. ASSUME NEW p \in Path \ ms
      PROVE  vs[p] = View(active, st, u)[p]
  <2>1. View(active, st, u)[p] = IF p \in See(active, u) THEN st[p] ELSE NoValue
    BY DEF View
  <2>2. View(active, state, u)[p] = IF p \in See(active, u) THEN state[p] ELSE NoValue
    BY DEF View
  <2>3. vs[p] = IF p \in listed THEN changes[p] ELSE x.values[p]
    OBVIOUS
  <2>4. CASE p \in seen
    <3>1. p \in listed \/ via[p] = given[n][p]
      BY <1>8, <2>4
    <3>2. given[n][p] = current[p]
      BY <2>4 DEF ViewsInv, HomeInv, DeclarationsAgree, GivenAreCurrent
    <3>3. p \in OwnedPaths(active) \cap See(active, u)
      BY <2>4 DEF OwnedPaths
    <3>4. <<p, current[p]>> \in x.paths
      BY <1>1, <3>3, EntriesMembers
    <3>5. p \in listed
      BY <2>4, <3>1, <3>2, <3>4
    <3>6. st[p] = changes[p] /\ p \in See(active, u)
      BY <2>4
    <3> HIDE DEF listed, seen
    <3> QED
      BY <2>1, <2>3, <3>5, <3>6
  <2>5. CASE p \notin seen
    <3>1. p \notin listed /\ p \notin x.missed
      BY <1>8, <2>5
    <3>2. x.values[p] = View(active, state, u)[p]
      BY <1>1, <3>1
    <3>3. p \in See(active, u) => st[p] = state[p]
      BY <2>5
    <3> HIDE DEF listed, seen
    <3> QED
      BY <2>1, <2>2, <2>3, <3>1, <3>2, <3>3
  <2> QED
    BY <2>4, <2>5
<1> HIDE DEF vs, ms
<1> QED
  BY <1>4, <1>6, <1>7, <1>8

\* A snapshot in place of a patch gives all values.
LEMMA ResnappedAgrees ==
    ASSUME ViewsInv, NEW u \in User, Available(u), NEW st \in Values, Held(active, st)
    PROVE  Resnapped(client[u], st, u)
             = Revised(client[u], View(active, st, u), {}, revision + 1)
<1>1. client[u].paths = Entries(OwnedPaths(active) \cap See(active, u), current)
  BY DEF ViewsInv, SessionsInv, Agrees, Available
<1>2. active \in [Name -> Config \cup {NoConfig}]
  BY DEF ViewsInv, HomeInv, HomeTypes
<1>3. Read(client[u].paths, active, current, st, u) = View(active, st, u)
  BY <1>1, <1>2, ReadIsView
<1> QED
  BY <1>3 DEF Resnapped, Revised

\* STATE_SET: a session gets the mutations it may see as a patch that starts
\* from its revision, or a snapshot; one that sees none of them has the new
\* values already.
LEMMA StateSetAgrees ==
    ASSUME ViewsInv, HomeInv', NEW n \in Name, NEW D \in SUBSET Path,
           NEW changes \in [D -> Value \cup {NoValue}], NEW via, NEW large,
           StateSet(n, changes, via, large)
    PROVE  SessionsInv'
<1> DEFINE st == [p \in Path |-> IF p \in DOMAIN changes THEN changes[p] ELSE state[p]]
           told == {u \in User : Available(u) /\ DOMAIN changes \cap See(active, u) # {}}
<1>1. /\ revision \in Nat /\ revision # 0 /\ state \in Values
      /\ active \in [Name -> Config \cup {NoConfig}]
      /\ user \in [User -> UserRecord] /\ client \in [User -> Shown]
  BY DEF ViewsInv, HomeInv, HomeTypes, SessionsInv
<1>2. st \in Values
  BY <1>1 DEF Values
<1>3. /\ state' = st /\ revision' = revision + 1 /\ UNCHANGED <<active, current>>
      /\ n \in Declared(active) /\ D \subseteq active[n].paths
  BY DEF StateSet, coordVars, idVars, Declared
<1>4. Held(active, st)
  <2>1. Held(active', state')
    BY DEF HomeInv, DeclarationsAgree
  <2> QED
    BY <1>3, <2>1
<1>5. ASSUME NEW u \in User
      PROVE  Agrees(u, user[u], client[u], active, current, state, revision)
  BY DEF ViewsInv, SessionsInv
<1>6. ASSUME NEW u \in User, u \in told
      PROVE  \E vs \in Values, ms \in SUBSET Path :
                /\ client'[u] = Revised(client[u], vs, ms, revision + 1)
                /\ \A p \in Path \ ms : vs[p] = View(active, st, u)[p]
  <2>1. CASE u \in large
    <3>1. client'[u] = Resnapped(client[u], st, u)
      BY <1>6, <2>1 DEF StateSet
    <3>2. Available(u)
      BY <1>6
    <3> HIDE DEF st, told
    <3>3. client'[u] = Revised(client[u], View(active, st, u), {}, revision + 1)
      BY <1>2, <1>4, <3>1, <3>2, ResnappedAgrees
    <3>4. View(active, st, u) \in Values
      BY <1>2, ViewType
    <3> QED
      BY <3>3, <3>4
  <2>2. CASE u \notin large
    <3>1. client'[u] = Patched(client[u], n, changes, via, u)
      BY <1>6, <2>2 DEF StateSet
    <3>2. Available(u)
      BY <1>6
    <3>3. st = [p \in Path |-> IF p \in D THEN changes[p] ELSE state[p]]
      OBVIOUS
    <3> HIDE DEF st, told
    <3> QED
      BY <1>2, <1>3, <3>1, <3>2, <3>3, PatchedAgrees
  <2> QED
    BY <2>1, <2>2
<1>7. ASSUME NEW u \in User, u \in told
      PROVE  Agrees(u, user'[u], client'[u], active, current, st, revision + 1)
  <2>1. user'[u] = [user[u] EXCEPT !.last = revision + 1] /\ user[u].phase = "open"
    BY <1>7 DEF StateSet, Available
  <2> HIDE DEF st, told
  <2>2. user[u] \in UserRecord /\ client[u] \in Shown /\ revision + 1 \in Nat
    BY <1>1
  <2>3. /\ user'[u] \in UserRecord /\ user'[u].phase = "open"
        /\ user'[u].last = revision + 1 /\ user'[u].subs = user[u].subs
    BY <2>1, <2>2 DEF UserRecord
  <2>4. PICK vs \in Values, ms \in SUBSET Path :
           /\ client'[u] = Revised(client[u], vs, ms, revision + 1)
           /\ \A p \in Path \ ms : vs[p] = View(active, st, u)[p]
    BY <1>6, <1>7
  <2>5. ValuesOf(client'[u], client[u], vs, ms, revision + 1)
    BY <2>2, <2>4, RevisedIs
  <2>6. revision + 1 # 0 /\ revision + 1 <= revision + 1
    BY <1>1
  <2> QED
    BY <1>5, <2>1, <2>3, <2>4, <2>5, <2>6 DEF Agrees, ValuesOf
<1>8. ASSUME NEW u \in User, u \notin told
      PROVE  Agrees(u, user'[u], client'[u], active, current, st, revision + 1)
  <2>1. client'[u] = client[u] /\ user'[u] = user[u]
    BY <1>8 DEF StateSet
  <2>2. Available(u) => View(active, st, u) = View(active, state, u)
    BY <1>8 DEF View
  <2>3. client[u].revision \in Nat
    BY <1>1 DEF Shown
  <2> HIDE DEF st, told
  <2>4. client[u].revision <= revision + 1
    <3>1. client[u].revision <= revision
      BY <1>5 DEF Agrees
    <3> QED
      BY <1>1, <2>3, <3>1
  <2>5. CASE user[u].phase = "open"
    <3>1. View(active, st, u) = View(active, state, u)
      BY <2>2, <2>5 DEF Available
    <3> QED
      BY SMTT(30), <1>5, <2>1, <2>4, <2>5, <3>1 DEF Agrees
  <2>6. CASE user[u].phase # "open"
    BY <1>5, <2>1, <2>4, <2>6 DEF Agrees
  <2> QED
    BY <2>5, <2>6
<1>9. user' = [u \in User |-> user'[u]] /\ client' = [u \in User |-> client'[u]]
  BY DEF StateSet
<1> HIDE DEF st, told
<1>10. \A u \in User : Agrees(u, user'[u], client'[u], active, current, st, revision + 1)
  BY <1>7, <1>8
<1>11. user' \in [User -> UserRecord] /\ client' \in [User -> Shown]
  <2>1. \A u \in User : user'[u] \in UserRecord /\ client'[u] \in Shown
    BY <1>10 DEF Agrees
  <2> QED
    BY <1>9, <2>1
<1> QED
  BY <1>3, <1>10, <1>11 DEF SessionsInv

\* An event reaches sessions that subscribed to its identifier and may still
\* hear its topic; under the identifier its owner was given, their dictionaries
\* have it.
LEMMA PublishAgrees ==
    ASSUME ViewsInv, NEW n \in Name, NEW t \in Topic, NEW k, NEW targets,
           Publish(n, t, k, targets)
    PROVE  UNCHANGED client
<1>1. n \in Declared(active) /\ t \in active[n].topics
  BY DEF Publish, Declared
<1>2. t \in OwnedTopics(active) /\ given[n][t] = current[t]
  BY <1>1 DEF OwnedTopics, ViewsInv, HomeInv, DeclarationsAgree, GivenAreCurrent
<1>3. ASSUME NEW u \in User, u \in targets, k = given[n][t]
      PROVE  <<t, k>> \in client[u].topics
  <2>1. Available(u) /\ t \in Hear(active, u)
    BY <1>3 DEF Publish, Subscribers
  <2>2. client[u].topics =
          Entries(OwnedTopics(active) \cap (Hear(active, u) \cup Say(active, u)), current)
    BY <2>1 DEF ViewsInv, SessionsInv, Agrees, Available
  <2>3. t \in OwnedTopics(active) \cap (Hear(active, u) \cup Say(active, u))
    BY <1>2, <2>1
  <2> QED
    BY <1>2, <1>3, <2>2, <2>3, EntriesMembers
<1>4. client \in [User -> Shown]
  BY DEF ViewsInv, SessionsInv
<1>5. client' = [u \in User |-> client[u]]
  BY <1>3 DEF Publish
<1> QED
  BY <1>4, <1>5

\* Steps that leave the home alone: one session comes, goes, asks again or
\* changes its subscriptions.
LEMMA UserStepsAgree ==
    ASSUME ViewsInv, NEW u \in User,
           \/ Join(u) \/ Resync(u) \/ Lapse(u) \/ Leave(u)
           \/ \E ids : Subscribe(u, ids) \/ Unsubscribe(u, ids)
    PROVE  SessionsInv'
<1>1. /\ active \in [Name -> Config \cup {NoConfig}] /\ current \in Ids /\ state \in Values
      /\ revision \in Nat /\ revision # 0 /\ Held(active, state) /\ known \subseteq Item \X Nat
  BY DEF ViewsInv, HomeInv, HomeTypes, DeclarationsAgree
<1>2. /\ user \in [User -> UserRecord] /\ user[u] \in UserRecord
      /\ client \in [User -> Shown] /\ client[u] \in Shown
      /\ Agrees(u, user[u], client[u], active, current, state, revision)
  BY DEF ViewsInv, SessionsInv
<1>3. UNCHANGED <<active, current, state, revision>>
  BY DEF Join, Resync, Lapse, Leave, Subscribe, Unsubscribe, coordVars, idVars
<1>4. SessionsInv
  BY DEF ViewsInv
<1>5. client[u].strays = {}
  BY <1>2 DEF Agrees
<1>6. CASE Join(u)
  <2> DEFINE r == [user[u] EXCEPT !.phase = "open", !.last = revision]
             y == HomeShown(client[u], active, current, state, revision, u)
  <2>1. user' = [user EXCEPT ![u] = r] /\ client' = [client EXCEPT ![u] = y]
    BY <1>2, <1>6 DEF Join
  <2>2. user[u].subs = {}
    BY <1>2, <1>6 DEF Join, Agrees
  <2>3. r \in UserRecord /\ r.phase = "open" /\ r.last = revision /\ r.subs = {}
    BY <1>1, <1>2, <2>2 DEF UserRecord
  <2>4. HomeOf(y, client[u], active, current, state, revision, u)
    BY <1>1, <1>2, HomeShownIs
  <2> HIDE DEF r, y
  <2>5. Agrees(u, r, y, active, current, state, revision)
    BY <1>1, <1>5, <2>3, <2>4, ShownAgrees
  <2> QED
    BY <1>3, <1>4, <2>1, <2>5, OneSessionStep
<1>7. CASE Resync(u)
  <2> DEFINE r == [user[u] EXCEPT !.last = revision]
             y == StateShown(client[u], active, current, state, revision, u)
  <2>1. user' = [user EXCEPT ![u] = r] /\ client' = [client EXCEPT ![u] = y]
    BY <1>2, <1>7 DEF Resync
  <2>2. user[u].phase = "open"
    BY <1>7 DEF Resync, Available
  <2>3. /\ r \in UserRecord /\ r.phase = "open" /\ r.last = revision
        /\ r.subs = user[u].subs
    BY <1>1, <1>2, <2>2 DEF UserRecord
  <2>4. StateOf(y, client[u], active, current, state, revision, u)
    BY <1>1, <1>2, StateShownIs
  <2>5. client[u].topics =
          Entries(OwnedTopics(active) \cap (Hear(active, u) \cup Say(active, u)), current)
        /\ \A e \in user[u].subs : e[1] \in Hear(active, u)
    BY <1>2, <2>2 DEF Agrees
  <2> HIDE DEF r, y
  <2>6. HomeOf(y, client[u], active, current, state, revision, u)
    BY <2>4, <2>5 DEF StateOf, HomeOf
  <2>7. Agrees(u, r, y, active, current, state, revision)
    BY <1>1, <1>5, <2>3, <2>5, <2>6, ShownAgrees
  <2> QED
    BY <1>3, <1>4, <2>1, <2>7, OneSessionStep
<1>8. CASE Lapse(u)
  <2> DEFINE r == [user[u] EXCEPT !.phase = "lapsed"]
  <2>1. user' = [user EXCEPT ![u] = r] /\ client' = [client EXCEPT ![u] = NoClient]
    BY <1>2, <1>8 DEF Lapse
  <2>2. r \in UserRecord /\ r.phase = "lapsed" /\ r.subs = user[u].subs
    BY <1>2 DEF UserRecord
  <2>3. \A e \in user[u].subs : e[1] \in Hear(active, u)
    BY <1>2, <1>8 DEF Agrees, Lapse, Available
  <2> HIDE DEF r
  <2>4. Agrees(u, r, NoClient, active, current, state, revision)
    BY <1>1, <2>2, <2>3, IdleAgrees
  <2> QED
    BY <1>3, <1>4, <2>1, <2>4, OneSessionStep
<1>9. CASE Leave(u)
  <2>1. /\ user' = [user EXCEPT ![u] = Idle("gone")]
        /\ client' = [client EXCEPT ![u] = NoClient]
    BY <1>9 DEF Leave
  <2>2. Idle("gone") \in UserRecord /\ Idle("gone").phase = "gone"
    BY DEF Idle, UserRecord
  <2>3. Agrees(u, Idle("gone"), NoClient, active, current, state, revision)
    BY <1>1, <2>2, IdleAgrees
  <2> QED
    BY <1>3, <1>4, <2>1, <2>3, OneSessionStep
<1>10. ASSUME NEW ids, Subscribe(u, ids) \/ Unsubscribe(u, ids)
       PROVE  SessionsInv'
  <2> DEFINE subs == IF Subscribe(u, ids) THEN user[u].subs \cup ids ELSE user[u].subs \ ids
             r == [user[u] EXCEPT !.subs = subs]
  <2>1. user[u].phase \in {"open", "lapsed"}
    BY <1>10 DEF Subscribe, Unsubscribe, Members
  <2>2. \A e \in user[u].subs : e[1] \in Hear(active, u)
    BY <1>2, <2>1 DEF Agrees
  <2>3. \A e \in subs : e[1] \in Hear(active, u)
    BY <2>2 DEF Subscribe
  <2>4. subs \in SUBSET (Topic \X Nat)
    <3>1. user[u].subs \in SUBSET (Topic \X Nat)
      BY <1>2 DEF UserRecord
    <3>2. Subscribe(u, ids) => \A e \in ids : e \in Item \X Nat /\ e[1] \in Topic
      BY <1>1 DEF Subscribe
    <3>3. Subscribe(u, ids) => ids \in SUBSET (Topic \X Nat)
      BY <3>2
    <3> QED
      BY <3>1, <3>3
  <2>5. user' = [user EXCEPT ![u] = r]
    BY <1>2, <1>10 DEF Subscribe, Unsubscribe
  <2> HIDE DEF subs
  <2>6. /\ r \in UserRecord /\ r.phase = user[u].phase /\ r.subs = subs
        /\ r.last = user[u].last
    BY <1>2, <2>4 DEF UserRecord
  <2> HIDE DEF r
  <2>7. Agrees(u, r, client[u], active, current, state, revision)
    BY <1>2, <2>1, <2>3, <2>6 DEF Agrees
  <2>8. client' = [client EXCEPT ![u] = client[u]]
    BY <1>2, <1>10 DEF Subscribe, Unsubscribe
  <2> QED
    BY <1>3, <1>4, <2>5, <2>7, <2>8, OneSessionStep
<1> QED
  BY <1>6, <1>7, <1>8, <1>9, <1>10

\* No step breaks the invariant.
LEMMA ViewsStep == ASSUME ViewsInv, [Next]_vars PROVE ViewsInv'
<1>1. HomeInv'
  BY HomeStep DEF ViewsInv
<1> SUFFICES SessionsInv'
  BY <1>1 DEF ViewsInv
<1>2. ASSUME UNCHANGED <<active, current, state, revision, user, client>>
      PROVE  SessionsInv'
  BY <1>2 DEF ViewsInv, SessionsInv
<1>3. ASSUME NEW n \in Name, Attach(n) \/ Detach(n) \/ EndStage(n)
      PROVE  SessionsInv'
  BY <1>2, <1>3 DEF Attach, Detach, EndStage, idVars
<1>4. ASSUME NEW n \in Name, NEW items, StateSync(n, items) \/ EventSync(n, items)
      PROVE  SessionsInv'
  BY <1>2, <1>4 DEF StateSync, EventSync
<1>5. ASSUME NEW n \in Name, NEW t \in Topic, NEW k, NEW targets, Publish(n, t, k, targets)
      PROVE  SessionsInv'
  <2>1. UNCHANGED client
    BY <1>5, PublishAgrees
  <2> QED
    BY <1>2, <1>5, <2>1 DEF Publish, coordVars, idVars
<1>6. CASE UNCHANGED vars
  BY <1>2, <1>6 DEF vars, coordVars, idVars
<1>7. /\ active' \in [Name -> Config \cup {NoConfig}] /\ current' \in Ids
      /\ state' \in Values /\ revision' \in Nat /\ revision \in Nat /\ Held(active', state')
  BY <1>1 DEF HomeInv, HomeTypes, DeclarationsAgree, ViewsInv
<1>8. ASSUME NEW n \in Name, NEW cfg \in Offers[n], NEW values \in [cfg.paths -> Value],
             Activate(n, cfg, values)
      PROVE  SessionsInv'
  <2>1. PICK act \in [Name -> Config \cup {NoConfig}], cur \in Ids, st \in Values, rev \in Nat :
           /\ active' = act /\ current' = cur /\ state' = st /\ revision' = rev
           /\ Republish(act, cur, st, rev) /\ rev \in {revision, revision + 1}
    BY <1>7, <1>8 DEF Activate
  <2>2. rev >= revision /\ Held(act, st)
    BY <1>7, <2>1
  <2> QED
    BY <2>1, <2>2, RepublishAgrees
<1>9. ASSUME NEW n \in Name, Expire(n)
      PROVE  SessionsInv'
  <2>1. CASE active[n] = NoConfig
    BY <1>2, <1>9, <2>1 DEF Expire, idVars
  <2>2. CASE active[n] # NoConfig
    <3>1. PICK act \in [Name -> Config \cup {NoConfig}], cur \in Ids, st \in Values,
               rev \in Nat :
             /\ active' = act /\ current' = cur /\ state' = st /\ revision' = rev
             /\ Republish(act, cur, st, rev) /\ rev = revision + 1
      BY <1>7, <1>9, <2>2 DEF Expire, idVars
    <3>2. rev >= revision /\ Held(act, st)
      BY <1>7, <3>1
    <3> QED
      BY <3>1, <3>2, RepublishAgrees
  <2> QED
    BY <2>1, <2>2
<1>10. ASSUME NEW n \in Name, NEW D \in SUBSET Path, NEW large \in SUBSET User,
              NEW changes \in [D -> Value \cup {NoValue}], NEW via \in [D -> 1 .. MaxIds],
              StateSet(n, changes, via, large)
       PROVE  SessionsInv'
  BY <1>1, <1>10, StateSetAgrees
<1>11. ASSUME NEW u \in User, Join(u) \/ Resync(u) \/ Lapse(u) \/ Leave(u)
       PROVE  SessionsInv'
  BY <1>11, UserStepsAgree
<1>12. ASSUME NEW u \in User, NEW ids, Subscribe(u, ids) \/ Unsubscribe(u, ids)
       PROVE  SessionsInv'
  BY <1>12, UserStepsAgree
<1> QED
  BY <1>3, <1>4, <1>5, <1>6, <1>8, <1>9, <1>10, <1>11, <1>12 DEF Next

\* Before anything happens, no session has been shown anything.
LEMMA ViewsInit == ASSUME Init PROVE ViewsInv
<1>1. HomeTypes
  BY DEF Init, HomeTypes, SlotStatus, NoStage, StageRecord, NoIds, Ids, Values, Nothing
<1>2. DeclarationsAgree
  <2>1. Declared(active) = {}
    BY DEF Init, Declared
  <2>2. Held(active, state)
    BY DEF Init, Held, Nothing
  <2>3. GivenAreCurrent
    BY <2>1 DEF GivenAreCurrent
  <2>4. OwnersAreDisjoint
    BY <2>1 DEF OwnersAreDisjoint
  <2> QED
    BY <2>2, <2>3, <2>4 DEF DeclarationsAgree
<1>3. SessionsInv
  <2>1. Idle("new") \in UserRecord /\ NoClient \in Shown
    BY DEF Idle, UserRecord, NoClient, Shown, Nothing, Values
  <2>2. /\ Idle("new").phase = "new" /\ Idle("new").subs = {}
        /\ NoClient.revision = 0 /\ NoClient.strays = {}
    BY DEF Idle, NoClient
  <2>3. \A u \in User : user[u] = Idle("new") /\ client[u] = NoClient
    BY DEF Init
  <2>4. user \in [User -> UserRecord] /\ client \in [User -> Shown]
    BY <2>1 DEF Init
  <2>5. revision = 1
    BY DEF Init
  <2> QED
    BY <2>1, <2>2, <2>3, <2>4, <2>5 DEF SessionsInv, Agrees
<1> QED
  BY <1>1, <1>2, <1>3 DEF ViewsInv, HomeInv

\* The inductive invariant holds at every state.
LEMMA ViewsInvariant == Spec => []ViewsInv
BY ViewsInit, ViewsStep, PTL DEF Spec

----------------------------------------------------------------------------
\* Revisions

\* A republished home that has the same revision has the same values: a
\* declaration that changes some of them raises it.
LEMMA ActivateKeepsValues ==
    ASSUME HomeInv, NEW n \in Name, NEW cfg \in Offers[n],
           NEW values \in [cfg.paths -> Value], Activate(n, cfg, values),
           revision' = revision
    PROVE  state' = state
<1>1. ~ChangesState(n, cfg, values)
  BY DEF Activate, HomeInv, HomeTypes
<1>2. active[n] # NoConfig
  BY <1>1 DEF ChangesState
<1>3. state' = [p \in Path |-> IF p \in cfg.paths THEN values[p] ELSE Released(n)[p]]
  BY DEF Activate
<1>4. \A p \in Path : (IF p \in active[n].paths THEN state[p] ELSE NoValue)
                        = (IF p \in cfg.paths THEN values[p] ELSE NoValue)
  BY <1>1 DEF ChangesState
<1>5. ASSUME NEW p \in Path
      PROVE  state'[p] = state[p]
  <2>1. CASE p \in cfg.paths
    <3>1. values[p] # NoValue
      BY <2>1, ValueAssumption
    <3> QED
      BY <1>3, <1>4, <2>1, <3>1
  <2>2. CASE p \notin cfg.paths
    BY <1>2, <1>3, <1>4, <2>2 DEF Released
  <2> QED
    BY <2>1, <2>2
<1>6. state \in [Path -> Value \cup {NoValue}]
  BY DEF HomeInv, HomeTypes, Values
<1> QED
  BY <1>3, <1>5, <1>6

\* What a republished session is shown.
LEMMA RepublishShows ==
    ASSUME ViewsInv, NEW act \in [Name -> Config \cup {NoConfig}], NEW cur \in Ids,
           NEW st \in Values, NEW rev \in Nat, Held(act, st), Republish(act, cur, st, rev),
           NEW u \in User, Available(u)
    PROVE  client'[u].values = View(act, st, u) /\ client'[u].revision = rev
<1>1. client'[u] = HomeShown(client[u], act, cur, st, rev, u)
  BY DEF Republish, ShownToAll
<1>2. client[u] \in Shown
  BY DEF ViewsInv, SessionsInv
<1>3. HomeOf(client'[u], client[u], act, cur, st, rev, u)
  BY <1>1, <1>2, HomeShownIs
<1> QED
  BY <1>3 DEF HomeOf

\* A view depends on the rights of its session and the values only.
LEMMA ViewOfRights ==
    ASSUME NEW act, NEW act2, NEW st, NEW u, See(act, u) = See(act2, u)
    PROVE  View(act, st, u) = View(act2, st, u)
BY DEF View

\* With the rights of a session unchanged, a step that leaves its revision
\* alone leaves the values it did not miss alone.
LEMMA RevisionStep ==
    ASSUME ViewsInv, Next, NEW u \in User, client[u].revision # 0,
           client'[u].revision = client[u].revision, See(active', u) = See(active, u),
           NEW p \in Path \ client[u].missed
    PROVE  client'[u].values[p] = client[u].values[p]
<1>1. /\ revision \in Nat /\ client \in [User -> Shown] /\ client[u] \in Shown
      /\ client[u].revision \in Nat /\ state \in Values /\ current \in Ids
      /\ active \in [Name -> Config \cup {NoConfig}] /\ Held(active, state)
  BY DEF ViewsInv, HomeInv, HomeTypes, DeclarationsAgree, SessionsInv, Shown
<1>2. Agrees(u, user[u], client[u], active, current, state, revision)
  BY DEF ViewsInv, SessionsInv
<1>3. client[u].revision <= revision
  BY <1>2 DEF Agrees
<1>4. Available(u)
  BY <1>2 DEF Agrees, Available, NoClient
<1>5. client[u].values[p] = View(active, state, u)[p]
  BY <1>2, <1>4 DEF Agrees, Available
<1>6. revision' \in Nat /\ active' \in [Name -> Config \cup {NoConfig}] /\ current' \in Ids
      /\ state' \in Values /\ Held(active', state')
  BY ViewsStep DEF ViewsInv, HomeInv, HomeTypes, DeclarationsAgree
<1>7. ASSUME UNCHANGED client
      PROVE  client'[u].values[p] = client[u].values[p]
  BY <1>7
<1>8. ASSUME NEW n \in Name, NEW cfg \in Offers[n], NEW values \in [cfg.paths -> Value],
             Activate(n, cfg, values)
      PROVE  client'[u].values[p] = client[u].values[p]
  <2>1. PICK act \in [Name -> Config \cup {NoConfig}], cur \in Ids, st \in Values, rev \in Nat :
           /\ active' = act /\ current' = cur /\ state' = st /\ revision' = rev
           /\ Republish(act, cur, st, rev) /\ rev \in {revision, revision + 1}
    BY <1>6, <1>8 DEF Activate
  <2>2. client'[u].values = View(act, st, u) /\ client'[u].revision = rev
    BY <1>4, <1>6, <2>1, RepublishShows
  <2>3. revision' = revision
    BY <1>1, <1>3, <2>1, <2>2
  <2>4. st = state
    BY <1>8, <2>1, <2>3, ActivateKeepsValues DEF ViewsInv
  <2>5. See(act, u) = See(active, u)
    BY <2>1
  <2>6. View(act, st, u) = View(active, state, u)
    BY <2>4, <2>5, ViewOfRights
  <2> QED
    BY <1>5, <2>2, <2>6
<1>9. ASSUME NEW n \in Name, Expire(n)
      PROVE  client'[u].values[p] = client[u].values[p]
  <2>1. CASE active[n] = NoConfig
    BY <1>7, <1>9, <2>1 DEF Expire
  <2>2. CASE active[n] # NoConfig
    <3>1. PICK act \in [Name -> Config \cup {NoConfig}], cur \in Ids, st \in Values,
               rev \in Nat :
             /\ active' = act /\ state' = st /\ rev = revision + 1
             /\ Republish(act, cur, st, rev)
      BY <1>1, <1>6, <1>9, <2>2 DEF Expire
    <3>2. client'[u].revision = revision + 1
      BY <1>4, <1>6, <3>1, RepublishShows
    <3> QED
      BY <1>1, <1>3, <3>2
  <2> QED
    BY <2>1, <2>2
<1>10. ASSUME NEW n \in Name, NEW D \in SUBSET Path, NEW large \in SUBSET User,
              NEW changes \in [D -> Value \cup {NoValue}], NEW via \in [D -> 1 .. MaxIds],
              StateSet(n, changes, via, large)
       PROVE  client'[u].values[p] = client[u].values[p]
  <2> DEFINE st == [q \in Path |-> IF q \in DOMAIN changes THEN changes[q] ELSE state[q]]
             told == {w \in User : Available(w) /\ DOMAIN changes \cap See(active, w) # {}}
  <2>1. client'[u] = IF u \notin told THEN client[u]
                     ELSE IF u \in large THEN Resnapped(client[u], st, u)
                     ELSE Patched(client[u], n, changes, via, u)
    BY <1>10 DEF StateSet
  <2> HIDE DEF st, told
  <2>2. Resnapped(client[u], st, u).revision = revision + 1
    BY <1>1 DEF Resnapped, Shown
  <2>3. Patched(client[u], n, changes, via, u).revision = revision + 1
    BY <1>1 DEF Patched, Shown
  <2> QED
    BY <1>1, <1>3, <2>1, <2>2, <2>3
<1>11. ASSUME NEW w \in User, Join(w)
       PROVE  client'[u].values[p] = client[u].values[p]
  <2>1. u # w
    BY <1>4, <1>11 DEF Join, Available
  <2> QED
    BY <1>1, <1>11, <2>1 DEF Join
<1>12. ASSUME NEW w \in User, Resync(w)
       PROVE  client'[u].values[p] = client[u].values[p]
  <2>1. CASE w = u
    <3>1. client'[u] = StateShown(client[u], active, current, state, revision, u)
      BY <1>1, <1>12, <2>1 DEF Resync
    <3>2. StateOf(client'[u], client[u], active, current, state, revision, u)
      BY <1>1, <3>1, StateShownIs
    <3> QED
      BY <1>5, <3>2 DEF StateOf
  <2>2. CASE w # u
    BY <1>1, <1>12, <2>2 DEF Resync
  <2> QED
    BY <2>1, <2>2
<1>13. ASSUME NEW w \in User, Lapse(w) \/ Leave(w)
       PROVE  client'[u].values[p] = client[u].values[p]
  <2>1. CASE w = u
    <3>1. client'[u] = NoClient
      BY <1>1, <1>13, <2>1 DEF Lapse, Leave
    <3> QED
      BY <3>1 DEF NoClient
  <2>2. CASE w # u
    BY <1>1, <1>13, <2>2 DEF Lapse, Leave
  <2> QED
    BY <2>1, <2>2
<1>14. ASSUME NEW n \in Name, NEW t \in Topic, NEW k, NEW targets, Publish(n, t, k, targets)
       PROVE  client'[u].values[p] = client[u].values[p]
  BY <1>7, <1>14, PublishAgrees
<1>15. ASSUME NEW n \in Name, Attach(n) \/ Detach(n) \/ EndStage(n)
       PROVE  client'[u].values[p] = client[u].values[p]
  BY <1>7, <1>15 DEF Attach, Detach, EndStage
<1>16. ASSUME NEW n \in Name, NEW items, StateSync(n, items) \/ EventSync(n, items)
       PROVE  client'[u].values[p] = client[u].values[p]
  BY <1>7, <1>16 DEF StateSync, EventSync
<1>17. ASSUME NEW w \in User, NEW ids, Subscribe(w, ids) \/ Unsubscribe(w, ids)
       PROVE  client'[u].values[p] = client[u].values[p]
  BY <1>7, <1>17 DEF Subscribe, Unsubscribe
<1> QED
  BY <1>8, <1>9, <1>10, <1>11, <1>12, <1>13, <1>14, <1>15, <1>16, <1>17 DEF Next

----------------------------------------------------------------------------
\* Theorems

\* What a home and its sessions hold keeps its shape through every handler of
\* state.go and events.go.
THEOREM ViewsTypes == Spec => []TypeOK
BY ViewsInvariant, ViewsInvImplies, PTL

\* A session is never ahead of, behind or beside the home it may see, whatever
\* applyStateSet, handleState, activateLocked and attach sent it: its
\* dictionaries are current and it misses only values that a coordinator set
\* under an identifier it had not been given.
THEOREM SessionsFollow == Spec => []ViewsFollowTheHome
BY ViewsInvariant, ViewsInvImplies, PTL

\* No declaration leaves a session a subscription it lost the right to
\* (pruneSubscriptionsLocked).
THEOREM SubscriptionsAuthorized == Spec => []SubscriptionsStayAuthorized
BY ViewsInvariant, ViewsInvImplies, PTL

\* An event under the identifier its coordinator was given is listed by the
\* dictionaries of all it reaches, however many transactions had reserved
\* identifiers for the topic (activateLocked, routeCoordinatorEventLocked).
THEOREM EventsExpected == Spec => []EventsAreExpected
BY ViewsInvariant, ViewsInvImplies, PTL

\* A client that keeps the values it has for a revision is right to: the same
\* revision never comes with other values, as long as its rights stay and it
\* missed none (activateLocked, removeCoordinatorLocked, applyStateSet).
THEOREM RevisionsTellApart == Spec => RevisionTellsViewsApart
<1>1. ASSUME ViewsInv, [Next]_vars
      PROVE  [\A u \in User :
                /\ client[u].revision # 0
                /\ client'[u].revision = client[u].revision
                /\ See(active, u)' = See(active, u)
                => \A p \in Path \ client[u].missed :
                     client'[u].values[p] = client[u].values[p]]_vars
  <2>1. CASE UNCHANGED vars
    BY <2>1
  <2>2. CASE Next
    BY <1>1, <2>2, RevisionStep
  <2> QED
    BY <1>1, <2>1, <2>2
<1> QED
  BY <1>1, ViewsInvariant, PTL DEF Spec, RevisionTellsViewsApart

==============================================================================
