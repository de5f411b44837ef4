-------------------------- MODULE DictionaryProofs --------------------------
(***************************************************************************)
(* Identifiers of state paths, topics and functions: stages reserve them   *)
(* concurrently, activation publishes them, and their meaning never moves. *)
(***************************************************************************)
EXTENDS DeclarationsProofs

\* Identifiers in use were handed out.
UsedIdsAreHandedOut ==
    /\ \A e \in Entry : idOf[e] # NoId => idOf[e] < nextID[KindOf[e]]
    /\ \A k \in Kind, i \in Id : nameOf[k][i] # None => i < nextID[k]

\* A staged identifier was handed out and is free, or is the name's already.
StagedIdsFit ==
    \A c \in Conn : \A e \in stage[c].entries :
        LET k == KindOf[e]
            i == stage[c].ids[e]
        IN  i \in Id /\ i < nextID[k] /\ nameOf[k][i] \in {None, e}

\* No two names are staged under one identifier, by whichever connections.
StagedIdsDiffer ==
    \A b, c \in Conn : \A d \in stage[b].entries, e \in stage[c].entries :
        KindOf[d] = KindOf[e] /\ stage[b].ids[d] = stage[c].ids[e] => d = e

\* What a coordinator owns is known, and is staged under its own identifier by
\* the connection that may still activate.
OwnedIsKnown == \A e \in Entry : owner[e] # None => idOf[e] # NoId

OwnedIsStagedAsKnown ==
    \A c \in Conn : Fenced(c) =>
        \A e \in stage[c].entries : owner[e] = NameOf[c] => stage[c].ids[e] = idOf[e]

NewHasNoStage == \A c \in Conn : peer[c].pc = "new" => stage[c].entries = {}

IdsInv ==
    /\ OwnershipInv
    /\ DictionaryAgrees
    /\ UsedIdsAreHandedOut
    /\ StagedIdsFit
    /\ StagedIdsDiffer
    /\ OwnedIsKnown
    /\ OwnedIsStagedAsKnown
    /\ NewHasNoStage

\* No identifier is handed out at the start.
LEMMA InitIds == Init => IdsInv
<1> SUFFICES ASSUME Init PROVE IdsInv
  OBVIOUS
<1>1. \A c \in Conn : stage[c].entries = {}
  BY DEF Init, NoStage
<1>2. \A e \in Entry : idOf[e] = NoId /\ owner[e] = None
  BY DEF Init, NoIds
<1>3. \A k \in Kind, i \in Id : nameOf[k][i] = None
  BY DEF Init
<1> QED
  BY <1>1, <1>2, <1>3, InitOwnership DEF IdsInv, DictionaryAgrees, UsedIdsAreHandedOut,
     StagedIdsFit, StagedIdsDiffer, OwnedIsKnown, OwnedIsStagedAsKnown, NewHasNoStage

----------------------------------------------------------------------------
\* Steps that publish nothing and reserve nothing that is kept

\* Stages are kept or dropped, names lose their owners at most.
IdsKept ==
    /\ idOf' = idOf /\ nameOf' = nameOf
    /\ \A k \in Kind : nextID[k] <= nextID'[k]
    /\ \A e \in Entry : owner'[e] \in {owner[e], None}
    /\ \A c \in Conn :
         /\ \/ stage'[c].entries = {}
            \/ stage'[c].entries = stage[c].entries /\ stage'[c].ids = stage[c].ids
         /\ Fenced(c)' => Fenced(c) \/ stage'[c].entries = {}
         /\ peer'[c].pc = "new" => peer[c].pc = "new"

\* A step that leaves dictionaries and stages' identifiers alone keeps the invariant.
LEMMA IdsKeptPreserves ==
    ASSUME IdsInv, OwnershipInv', IdsKept
    PROVE  IdsInv'
<1>1. /\ \A k \in Kind : nextID[k] \in Int /\ nextID'[k] \in Int /\ nextID[k] <= nextID'[k]
      /\ \A i \in Id : i \in Int
      /\ idOf \in [Entry -> Id \cup {NoId}]
      /\ \A c \in Conn : stage[c].entries \in SUBSET Entry
      /\ \A e \in Entry : KindOf[e] \in Kind
  BY NamesAssumption DEF IdsInv, OwnershipInv, TypeOK, IdsKept, Id, Stage
<1>2. DictionaryAgrees'
  BY DEF IdsInv, IdsKept, DictionaryAgrees
<1>3. UsedIdsAreHandedOut'
  <2>1. ASSUME NEW e \in Entry, idOf'[e] # NoId PROVE idOf'[e] < nextID'[KindOf[e]]
    BY <1>1, <2>1 DEF IdsInv, IdsKept, UsedIdsAreHandedOut
  <2>2. ASSUME NEW k \in Kind, NEW i \in Id, nameOf'[k][i] # None PROVE i < nextID'[k]
    BY <1>1, <2>2 DEF IdsInv, IdsKept, UsedIdsAreHandedOut
  <2> QED
    BY <2>1, <2>2 DEF UsedIdsAreHandedOut
<1>4. StagedIdsFit'
  <2> SUFFICES ASSUME NEW c \in Conn, NEW e \in stage'[c].entries
               PROVE  /\ stage'[c].ids[e] \in Id
                      /\ stage'[c].ids[e] < nextID'[KindOf[e]]
                      /\ nameOf'[KindOf[e]][stage'[c].ids[e]] \in {None, e}
    BY DEF StagedIdsFit
  <2>1. e \in stage[c].entries /\ stage'[c].ids = stage[c].ids /\ KindOf[e] \in Kind
    BY <1>1 DEF IdsKept
  <2> QED
    BY <1>1, <2>1 DEF IdsInv, IdsKept, StagedIdsFit
<1>5. StagedIdsDiffer'
  BY DEF IdsInv, IdsKept, StagedIdsDiffer
<1>6. OwnedIsKnown'
  BY DEF IdsInv, IdsKept, OwnedIsKnown
<1>7. OwnedIsStagedAsKnown'
  <2> SUFFICES ASSUME NEW c \in Conn, Fenced(c)', NEW e \in stage'[c].entries,
                      owner'[e] = NameOf[c]
               PROVE  stage'[c].ids[e] = idOf'[e]
    BY DEF OwnedIsStagedAsKnown
  <2>1. /\ e \in stage[c].entries /\ stage'[c].ids = stage[c].ids /\ Fenced(c)
        /\ e \in Entry /\ owner[e] = NameOf[c]
    BY <1>1, NamesAssumption DEF IdsKept
  <2> QED
    BY <2>1 DEF IdsInv, IdsKept, OwnedIsStagedAsKnown
<1>8. NewHasNoStage'
  BY DEF IdsInv, IdsKept, NewHasNoStage
<1> QED
  BY <1>2, <1>3, <1>4, <1>5, <1>6, <1>7, <1>8 DEF IdsInv

----------------------------------------------------------------------------
\* Reservation

\* What a slice reserves fits the dictionary and every stage there is.
LEMMA ReservationFits ==
    ASSUME IdsInv, NEW k \in Kind, NEW D \in SUBSET OfKind(k), NEW ids \in [D -> Id],
           CanHandOut(k, D), HandOut(k, D), Reserves(k, D, ids)
    PROVE  /\ \A j \in Kind : nextID[j] <= nextID'[j]
           /\ \A e \in D : ids[e] < nextID'[k] /\ nameOf[k][ids[e]] \in {None, e}
           /\ \A e \in D : idOf[e] # NoId => ids[e] = idOf[e]
           /\ \A d, e \in D : ids[d] = ids[e] => d = e
           /\ \A e \in D, c \in Conn : \A d \in stage[c].entries :
                KindOf[d] = k /\ stage[c].ids[d] = ids[e] => d = e
<1> DEFINE fresh == Fresh(D)
           count == Cardinality(fresh)
<1>1. /\ \A e \in D : e \in Entry /\ KindOf[e] = k /\ e # None /\ ids[e] \in Id
      /\ \A i \in Id : i \in Int
      /\ \A j \in Kind : nextID[j] \in Int
      /\ nextID \in [Kind -> 1 .. MaxId + 1]
      /\ idOf \in [Entry -> Id \cup {NoId}]
  BY NamesAssumption DEF OfKind, Id, IdsInv, OwnershipInv, TypeOK
<1>2. count \in Nat
  BY <1>1, FreshIsCounted
<1>3. /\ nextID'[k] = nextID[k] + count
      /\ \A j \in Kind \ {k} : nextID'[j] = nextID[j]
  BY <1>1 DEF HandOut
<1>4. \A e \in fresh : nextID[k] <= ids[e] /\ ids[e] < nextID[k] + count
  BY DEF Reserves
<1>5. \A e \in D \ fresh : ids[e] = idOf[e] /\ idOf[e] # NoId
  BY DEF Reserves, Fresh, Known
<1>6. \A e \in fresh : e \in D /\ idOf[e] = NoId
  BY DEF Fresh, Known
<1> HIDE DEF fresh, count
<1>7. \A j \in Kind : nextID[j] <= nextID'[j]
  BY <1>1, <1>2, <1>3
<1>8. \A e \in D \ fresh : ids[e] < nextID[k] /\ nameOf[k][ids[e]] = e
  BY <1>1, <1>5 DEF IdsInv, UsedIdsAreHandedOut, DictionaryAgrees
<1>9. \A e \in fresh : nameOf[k][ids[e]] = None
  <2> SUFFICES ASSUME NEW e \in fresh, nameOf[k][ids[e]] # None PROVE FALSE
    OBVIOUS
  <2>1. ids[e] < nextID[k]
    BY <1>1, <1>6 DEF IdsInv, UsedIdsAreHandedOut
  <2> QED
    BY <1>1, <1>4, <1>6, <2>1
<1>10. \A e \in D : ids[e] < nextID'[k] /\ nameOf[k][ids[e]] \in {None, e}
  BY <1>1, <1>2, <1>3, <1>4, <1>8, <1>9
<1>11. \A d, e \in D : ids[d] = ids[e] => d = e
  <2> SUFFICES ASSUME NEW d \in D, NEW e \in D, ids[d] = ids[e] PROVE d = e
    OBVIOUS
  <2>1. CASE d \in fresh /\ e \in fresh
    BY <2>1 DEF Reserves, fresh
  <2>2. CASE d \notin fresh /\ e \notin fresh
    BY <1>8, <2>2
  <2>3. CASE (d \in fresh /\ e \notin fresh) \/ (d \notin fresh /\ e \in fresh)
    BY <1>1, <1>4, <1>8, <2>3
  <2> QED
    BY <2>1, <2>2, <2>3
<1>12. ASSUME NEW e \in D, NEW c \in Conn, NEW d \in stage[c].entries,
              KindOf[d] = k, stage[c].ids[d] = ids[e]
       PROVE  d = e
  <2>1. ids[e] < nextID[k] /\ nameOf[k][ids[e]] \in {None, d}
    BY <1>12 DEF IdsInv, StagedIdsFit
  <2>2. e \notin fresh
    BY <1>1, <1>4, <2>1
  <2> QED
    BY <1>1, <1>8, <2>1, <2>2
<1> QED
  BY <1>5, <1>6, <1>7, <1>10, <1>11, <1>12

----------------------------------------------------------------------------
\* Staging and activation

\* A handler that returns changes nobody's generation and leaves its own
\* connection attached once.
LEMMA HandledPeers ==
    ASSUME NEW c \in Conn, peer \in [Conn -> PeerRecord], Handled(c) \/ HandledFatally(c)
    PROVE  \A b \in Conn :
             /\ peer'[b].gen = peer[b].gen
             /\ peer'[b].pc = "new" => b # c /\ peer[b].pc = "new"
<1> SUFFICES ASSUME NEW b \in Conn
             PROVE  /\ peer'[b].gen = peer[b].gen
                    /\ peer'[b].pc = "new" => b # c /\ peer[b].pc = "new"
  OBVIOUS
<1>1. CASE b # c
  BY <1>1 DEF Handled, HandledFatally
<1>2. CASE b = c /\ Handled(c)
  BY <1>2 DEF Handled, PeerRecord
<1>3. CASE b = c /\ HandledFatally(c)
  <2>1. peer'[c].gen = peer[c].gen /\ peer'[c].pc = "serving"
    BY <1>3, Zenon DEF HandledFatally, PeerRecord
  <2> QED
    BY <1>3, <2>1
<1> QED
  BY <1>1, <1>2, <1>3

\* What a stage extended by a slice needs before it can be kept or activated.
StageFits(c, st) ==
    /\ \A e \in st.entries :
         /\ e \in Entry /\ st.ids[e] \in Id /\ st.ids[e] < nextID'[KindOf[e]]
         /\ nameOf[KindOf[e]][st.ids[e]] \in {None, e}
    /\ \A d, e \in st.entries : KindOf[d] = KindOf[e] /\ st.ids[d] = st.ids[e] => d = e
    /\ \A b \in Conn : \A d \in stage[b].entries, e \in st.entries :
         KindOf[d] = KindOf[e] /\ stage[b].ids[d] = st.ids[e] => d = e
    /\ \A e \in st.entries : owner[e] = NameOf[c] => st.ids[e] = idOf[e]

\* A slice added to a stage, or to none, fits the home it was reserved in.
LEMMA SliceFits ==
    ASSUME IdsInv, NEW c \in Conn, Fenced(c),
           NEW k \in Kind, NEW D \in SUBSET OfKind(k), NEW ids \in [D -> Id],
           CanHandOut(k, D), HandOut(k, D), Reserves(k, D, ids),
           NEW st, \A e \in st.entries \ D : e \in stage[c].entries /\ st.ids[e] = stage[c].ids[e],
           \A e \in D : st.ids[e] = ids[e]
    PROVE  StageFits(c, st) /\ \A j \in Kind : nextID[j] <= nextID'[j]
<1>1. /\ \A j \in Kind : nextID[j] <= nextID'[j]
      /\ \A e \in D : ids[e] < nextID'[k] /\ nameOf[k][ids[e]] \in {None, e}
      /\ \A e \in D : idOf[e] # NoId => ids[e] = idOf[e]
      /\ \A d, e \in D : ids[d] = ids[e] => d = e
      /\ \A e \in D, b \in Conn : \A d \in stage[b].entries :
           KindOf[d] = k /\ stage[b].ids[d] = ids[e] => d = e
  BY ReservationFits
<1>2. /\ \A e \in D : e \in Entry /\ KindOf[e] = k /\ ids[e] \in Id
      /\ \A e \in stage[c].entries : e \in Entry /\ KindOf[e] \in Kind
      /\ \A i \in Id : i \in Int
      /\ \A j \in Kind : nextID[j] \in Int
      /\ NameOf[c] # None
  BY NamesAssumption DEF OfKind, Id, IdsInv, OwnershipInv, TypeOK, Stage
<1>3. \A j \in Kind : nextID'[j] \in Int
  <2>1. Cardinality(Fresh(D)) \in Nat
    BY <1>2, FreshIsCounted
  <2> QED
    BY <1>2, <2>1 DEF HandOut, IdsInv, OwnershipInv, TypeOK
<1>4. ASSUME NEW e \in st.entries
      PROVE  /\ e \in Entry /\ st.ids[e] \in Id /\ st.ids[e] < nextID'[KindOf[e]]
             /\ nameOf[KindOf[e]][st.ids[e]] \in {None, e}
  <2>1. CASE e \in D
    BY <1>1, <1>2, <2>1
  <2>2. CASE e \notin D
    <3>1. /\ e \in stage[c].entries /\ st.ids[e] = stage[c].ids[e]
          /\ st.ids[e] \in Id /\ st.ids[e] < nextID[KindOf[e]]
          /\ nameOf[KindOf[e]][st.ids[e]] \in {None, e}
      BY <2>2 DEF IdsInv, StagedIdsFit
    <3> QED
      BY <1>1, <1>2, <1>3, <3>1
  <2> QED
    BY <2>1, <2>2
<1>5. ASSUME NEW b \in Conn, NEW d \in stage[b].entries, NEW e \in st.entries,
             KindOf[d] = KindOf[e], stage[b].ids[d] = st.ids[e]
      PROVE  d = e
  <2>1. CASE e \in D
    BY <1>1, <1>2, <1>5, <2>1
  <2>2. CASE e \notin D
    BY <1>5, <2>2 DEF IdsInv, StagedIdsDiffer
  <2> QED
    BY <2>1, <2>2
<1>6. ASSUME NEW d \in st.entries, NEW e \in st.entries,
             KindOf[d] = KindOf[e], st.ids[d] = st.ids[e]
      PROVE  d = e
  <2>1. CASE d \in D /\ e \in D
    BY <1>1, <1>6, <2>1
  <2>2. CASE d \notin D
    BY <1>5, <1>6, <2>2
  <2>3. CASE e \notin D
    BY <1>5, <1>6, <2>3
  <2> QED
    BY <2>1, <2>2, <2>3
<1>7. ASSUME NEW e \in st.entries, owner[e] = NameOf[c] PROVE st.ids[e] = idOf[e]
  <2>1. CASE e \in D
    BY <1>1, <1>2, <1>7, <2>1 DEF IdsInv, OwnedIsKnown
  <2>2. CASE e \notin D
    BY <1>7, <2>2 DEF IdsInv, OwnedIsStagedAsKnown
  <2> QED
    BY <2>1, <2>2
<1> QED
  BY <1>1, <1>4, <1>5, <1>6, <1>7 DEF StageFits

\* A stage that fits is kept.
LEMMA StagingPreserves ==
    ASSUME IdsInv, OwnershipInv', NEW c \in Conn, Fenced(c), NEW st, StageFits(c, st),
           \A j \in Kind : nextID[j] <= nextID'[j],
           stage' = [stage EXCEPT ![c] = st], Handled(c) \/ HandledFatally(c),
           UNCHANGED <<slot, idOf, nameOf, owner>>
    PROVE  IdsInv'
<1>1. /\ \A k \in Kind : nextID[k] \in Int /\ nextID'[k] \in Int /\ nextID[k] <= nextID'[k]
      /\ \A i \in Id : i \in Int
      /\ idOf \in [Entry -> Id \cup {NoId}]
      /\ stage \in [Conn -> Stage] /\ peer \in [Conn -> PeerRecord]
      /\ \A b \in Conn : stage[b].entries \in SUBSET Entry
      /\ \A e \in Entry : KindOf[e] \in Kind
  BY NamesAssumption DEF IdsInv, OwnershipInv, TypeOK, Id, Stage
<1>2. stage'[c] = st /\ \A b \in Conn \ {c} : stage'[b] = stage[b]
  BY <1>1
<1>3. \A b \in Conn :
        /\ peer'[b].gen = peer[b].gen
        /\ peer'[b].pc = "new" => b # c /\ peer[b].pc = "new"
  BY <1>1, HandledPeers
<1>4. DictionaryAgrees' /\ OwnedIsKnown'
  BY DEF IdsInv, DictionaryAgrees, OwnedIsKnown
<1>5. UsedIdsAreHandedOut'
  <2>1. ASSUME NEW e \in Entry, idOf'[e] # NoId PROVE idOf'[e] < nextID'[KindOf[e]]
    BY <1>1, <2>1 DEF IdsInv, UsedIdsAreHandedOut
  <2>2. ASSUME NEW k \in Kind, NEW i \in Id, nameOf'[k][i] # None PROVE i < nextID'[k]
    BY <1>1, <2>2 DEF IdsInv, UsedIdsAreHandedOut
  <2> QED
    BY <2>1, <2>2 DEF UsedIdsAreHandedOut
<1>6. StagedIdsFit'
  <2> SUFFICES ASSUME NEW b \in Conn, NEW e \in stage'[b].entries
               PROVE  /\ stage'[b].ids[e] \in Id
                      /\ stage'[b].ids[e] < nextID'[KindOf[e]]
                      /\ nameOf'[KindOf[e]][stage'[b].ids[e]] \in {None, e}
    BY DEF StagedIdsFit
  <2>1. CASE b = c
    BY <1>2, <2>1 DEF StageFits
  <2>2. CASE b # c
    <3>1. e \in stage[b].entries /\ stage'[b] = stage[b] /\ KindOf[e] \in Kind
      BY <1>1, <1>2, <2>2
    <3> QED
      BY <1>1, <3>1 DEF IdsInv, StagedIdsFit
  <2> QED
    BY <2>1, <2>2
<1>7. StagedIdsDiffer'
  <2> SUFFICES ASSUME NEW a \in Conn, NEW b \in Conn,
                      NEW d \in stage'[a].entries, NEW e \in stage'[b].entries,
                      KindOf[d] = KindOf[e], stage'[a].ids[d] = stage'[b].ids[e]
               PROVE  d = e
    BY DEF StagedIdsDiffer
  <2>1. CASE a = c /\ b = c
    BY <1>2, <2>1 DEF StageFits
  <2>2. CASE a # c /\ b = c
    BY <1>2, <2>2 DEF StageFits
  <2>3. CASE a = c /\ b # c
    BY <1>2, <2>3 DEF StageFits
  <2>4. CASE a # c /\ b # c
    BY <1>2, <2>4 DEF IdsInv, StagedIdsDiffer
  <2> QED
    BY <2>1, <2>2, <2>3, <2>4
<1>8. OwnedIsStagedAsKnown'
  <2> SUFFICES ASSUME NEW b \in Conn, Fenced(b)', NEW e \in stage'[b].entries,
                      owner'[e] = NameOf[b]
               PROVE  stage'[b].ids[e] = idOf'[e]
    BY DEF OwnedIsStagedAsKnown
  <2>1. CASE b = c
    BY <1>2, <2>1 DEF StageFits
  <2>2. CASE b # c
    <3>1. Fenced(b)
      BY <1>3 DEF Fenced
    <3> QED
      BY <1>2, <2>2, <3>1 DEF IdsInv, OwnedIsStagedAsKnown
  <2> QED
    BY <2>1, <2>2
<1>9. NewHasNoStage'
  <2> SUFFICES ASSUME NEW b \in Conn, peer'[b].pc = "new" PROVE stage'[b].entries = {}
    BY DEF NewHasNoStage
  <2>1. b # c /\ peer[b].pc = "new"
    BY <1>3
  <2> QED
    BY <1>2, <2>1 DEF IdsInv, NewHasNoStage
<1> QED
  BY <1>4, <1>5, <1>6, <1>7, <1>8, <1>9 DEF IdsInv

\* Learning a stage that fits gives every name its staged identifier, leads that
\* identifier back to the name, and moves no identifier that has a meaning.
LEMMA LearnResult ==
    ASSUME IdsInv, NEW c \in Conn, NEW st \in Stage, StageFits(c, st), Learn(st)
    PROVE  /\ \A e \in st.entries : idOf'[e] = st.ids[e] /\ nameOf'[KindOf[e]][st.ids[e]] = e
           /\ \A e \in Entry \ st.entries : idOf'[e] = idOf[e]
           /\ \A k \in Kind, i \in Id :
                \/ nameOf'[k][i] = nameOf[k][i]
                \/ \E e \in st.entries : KindOf[e] = k /\ st.ids[e] = i
           /\ \A k \in Kind, i \in Id : nameOf[k][i] # None => nameOf'[k][i] = nameOf[k][i]
<1>1. \A e \in st.entries : e \in Entry /\ KindOf[e] \in Kind /\ st.ids[e] \in Id
  BY NamesAssumption DEF Stage, StageFits
<1>2. ASSUME NEW k \in Kind, NEW i \in Id,
             ~ \E e \in st.entries : KindOf[e] = k /\ st.ids[e] = i
      PROVE  nameOf'[k][i] = nameOf[k][i]
  BY <1>2 DEF Learn
<1>3. ASSUME NEW e \in st.entries PROVE nameOf'[KindOf[e]][st.ids[e]] = e
  <2> DEFINE d == CHOOSE x \in st.entries : KindOf[x] = KindOf[e] /\ st.ids[x] = st.ids[e]
  <2>1. nameOf'[KindOf[e]][st.ids[e]] = d
    BY <1>1, <1>3 DEF Learn
  <2>2. d \in st.entries /\ KindOf[d] = KindOf[e] /\ st.ids[d] = st.ids[e]
    BY <1>3
  <2> HIDE DEF d
  <2>3. d = e
    BY <1>3, <2>2 DEF StageFits
  <2> QED
    BY <2>1, <2>3
<1>4. ASSUME NEW k \in Kind, NEW i \in Id, nameOf[k][i] # None
      PROVE  nameOf'[k][i] = nameOf[k][i]
  <2>1. ASSUME NEW e \in st.entries, KindOf[e] = k, st.ids[e] = i
        PROVE  nameOf'[k][i] = nameOf[k][i]
    BY <1>3, <1>4, <2>1 DEF StageFits
  <2> QED
    BY <1>2, <2>1
<1>5. /\ \A e \in st.entries : idOf'[e] = st.ids[e]
      /\ \A e \in Entry \ st.entries : idOf'[e] = idOf[e]
  BY <1>1 DEF Learn
<1> QED
  BY <1>2, <1>3, <1>4, <1>5

\* Activation keeps every stage of the other coordinators consistent with the
\* dictionary it publishes.
LEMMA ActivationPreserves ==
    ASSUME IdsInv, OwnershipInv', NEW c \in Conn, Fenced(c), NEW st \in Stage, StageFits(c, st),
           \A j \in Kind : nextID[j] <= nextID'[j],
           stage' = [stage EXCEPT ![c] = NoStage], Handled(c), Activate(c, st)
    PROVE  IdsInv'
<1> DEFINE n == NameOf[c]
<1>1. /\ \A k \in Kind : nextID[k] \in Int /\ nextID'[k] \in Int /\ nextID[k] <= nextID'[k]
      /\ \A i \in Id : i \in Int /\ i # NoId
      /\ idOf \in [Entry -> Id \cup {NoId}]
      /\ stage \in [Conn -> Stage] /\ peer \in [Conn -> PeerRecord] /\ slot \in [Name -> Slot]
      /\ \A b \in Conn : stage[b].entries \in SUBSET Entry
      /\ \A e \in Entry : KindOf[e] \in Kind
      /\ \A b \in Conn : NameOf[b] \in Name /\ NameOf[b] # None
      /\ st.entries \in SUBSET Entry
  <2>1. /\ idOf \in [Entry -> Id \cup {NoId}] /\ \A i \in Id : i \in Int /\ i # NoId
        /\ \A k \in Kind : nextID[k] \in Int /\ nextID'[k] \in Int
    BY DEF IdsInv, OwnershipInv, TypeOK, Id, NoId
  <2>2. stage \in [Conn -> Stage] /\ peer \in [Conn -> PeerRecord] /\ slot \in [Name -> Slot]
    BY DEF IdsInv, OwnershipInv, TypeOK
  <2>3. /\ \A b \in Conn : stage[b].entries \in SUBSET Entry
        /\ st.entries \in SUBSET Entry
    BY <2>2 DEF Stage
  <2> QED
    BY <2>1, <2>2, <2>3, NamesAssumption
<1>2. Learn(st)
  BY DEF Activate
<1>3. /\ \A e \in st.entries : idOf'[e] = st.ids[e] /\ nameOf'[KindOf[e]][st.ids[e]] = e
      /\ \A e \in Entry \ st.entries : idOf'[e] = idOf[e]
      /\ \A k \in Kind, i \in Id :
           \/ nameOf'[k][i] = nameOf[k][i]
           \/ \E e \in st.entries : KindOf[e] = k /\ st.ids[e] = i
      /\ \A k \in Kind, i \in Id : nameOf[k][i] # None => nameOf'[k][i] = nameOf[k][i]
  BY <1>2, LearnResult
<1>4. \A e \in st.entries :
        st.ids[e] \in Id /\ st.ids[e] < nextID'[KindOf[e]] /\ st.ids[e] # NoId
  BY <1>1 DEF StageFits
<1>5. \A e \in Entry : owner'[e] = IF e \in st.entries THEN n
                                   ELSE IF e \in slot[n].entries THEN None ELSE owner[e]
  BY DEF Activate, Own
<1>6. \A b \in Conn :
        /\ peer'[b].gen = peer[b].gen
        /\ peer'[b].pc = "new" => b # c /\ peer[b].pc = "new"
  BY <1>1, HandledPeers
<1>7. stage'[c].entries = {} /\ \A b \in Conn \ {c} : stage'[b] = stage[b]
  BY <1>1 DEF NoStage
<1>8. DictionaryAgrees'
  <2> SUFFICES ASSUME NEW e \in Entry, idOf'[e] # NoId PROVE nameOf'[KindOf[e]][idOf'[e]] = e
    BY DEF DictionaryAgrees
  <2>1. CASE e \in st.entries
    BY <1>3, <2>1
  <2>2. CASE e \notin st.entries
    <3>1. /\ idOf'[e] = idOf[e] /\ idOf[e] \in Id /\ KindOf[e] \in Kind
          /\ nameOf[KindOf[e]][idOf[e]] = e /\ e # None
      BY <1>1, <1>3, <2>2, NamesAssumption DEF IdsInv, DictionaryAgrees
    <3> QED
      BY <1>3, <3>1
  <2> QED
    BY <2>1, <2>2
<1>9. UsedIdsAreHandedOut'
  <2>1. ASSUME NEW e \in Entry, idOf'[e] # NoId PROVE idOf'[e] < nextID'[KindOf[e]]
    <3>1. CASE e \in st.entries
      BY <1>3, <1>4, <3>1
    <3>2. CASE e \notin st.entries
      <4>1. idOf'[e] = idOf[e] /\ idOf[e] < nextID[KindOf[e]] /\ idOf[e] \in Id
        BY <1>1, <1>3, <2>1, <3>2 DEF IdsInv, UsedIdsAreHandedOut
      <4> QED
        BY <1>1, <4>1
    <3> QED
      BY <3>1, <3>2
  <2>2. ASSUME NEW k \in Kind, NEW i \in Id, nameOf'[k][i] # None PROVE i < nextID'[k]
    <3>1. CASE nameOf'[k][i] = nameOf[k][i]
      <4>1. i < nextID[k]
        BY <2>2, <3>1 DEF IdsInv, UsedIdsAreHandedOut
      <4> QED
        BY <1>1, <4>1
    <3>2. CASE \E e \in st.entries : KindOf[e] = k /\ st.ids[e] = i
      BY <1>4, <3>2
    <3> QED
      BY <1>3, <3>1, <3>2
  <2> QED
    BY <2>1, <2>2 DEF UsedIdsAreHandedOut
<1>10. StagedIdsFit'
  <2> SUFFICES ASSUME NEW b \in Conn, NEW e \in stage'[b].entries
               PROVE  /\ stage'[b].ids[e] \in Id
                      /\ stage'[b].ids[e] < nextID'[KindOf[e]]
                      /\ nameOf'[KindOf[e]][stage'[b].ids[e]] \in {None, e}
    BY DEF StagedIdsFit
  <2> DEFINE i == stage[b].ids[e]
             k == KindOf[e]
  <2>1. b # c /\ stage'[b] = stage[b] /\ e \in stage[b].entries /\ k \in Kind
    BY <1>1, <1>7
  <2>2. i \in Id /\ i < nextID[k] /\ nameOf[k][i] \in {None, e}
    BY <2>1 DEF IdsInv, StagedIdsFit
  <2>3. i < nextID'[k]
    BY <1>1, <2>1, <2>2
  <2>4. CASE nameOf'[k][i] = nameOf[k][i]
    BY <2>1, <2>2, <2>3, <2>4
  <2>5. CASE \E d \in st.entries : KindOf[d] = k /\ st.ids[d] = i
    <3>1. PICK d \in st.entries : KindOf[d] = k /\ st.ids[d] = i
      BY <2>5
    <3>2. d = e
      BY <2>1, <3>1 DEF StageFits
    <3> QED
      BY <1>3, <2>1, <2>2, <2>3, <3>1, <3>2
  <2> QED
    BY <1>3, <2>1, <2>2, <2>4, <2>5
<1>11. StagedIdsDiffer'
  <2> SUFFICES ASSUME NEW a \in Conn, NEW b \in Conn,
                      NEW d \in stage'[a].entries, NEW e \in stage'[b].entries,
                      KindOf[d] = KindOf[e], stage'[a].ids[d] = stage'[b].ids[e]
               PROVE  d = e
    BY DEF StagedIdsDiffer
  <2>1. stage'[a] = stage[a] /\ stage'[b] = stage[b]
    BY <1>7
  <2> QED
    BY <2>1 DEF IdsInv, StagedIdsDiffer
<1>12. OwnedIsKnown'
  <2> SUFFICES ASSUME NEW e \in Entry, owner'[e] # None PROVE idOf'[e] # NoId
    BY DEF OwnedIsKnown
  <2>1. CASE e \in st.entries
    BY <1>3, <1>4, <2>1
  <2>2. CASE e \notin st.entries
    BY <1>3, <1>5, <2>2 DEF IdsInv, OwnedIsKnown
  <2> QED
    BY <2>1, <2>2
<1>13. OwnedIsStagedAsKnown'
  <2> SUFFICES ASSUME NEW b \in Conn, Fenced(b)', NEW e \in stage'[b].entries,
                      owner'[e] = NameOf[b]
               PROVE  stage'[b].ids[e] = idOf'[e]
    BY DEF OwnedIsStagedAsKnown
  <2>1. b # c /\ stage'[b] = stage[b] /\ e \in stage[b].entries /\ e \in Entry
    BY <1>1, <1>7
  <2>2. \A m \in Name : slot'[m].conn = slot[m].conn /\ slot'[m].gen = slot[m].gen
    <3>1. slot'[n].conn = slot[n].conn /\ slot'[n].gen = slot[n].gen
      BY <1>1, ZenonT(40) DEF Activate, Configure, Slot
    <3> QED
      BY <1>1, <3>1 DEF Activate
  <2>3. Fenced(b) /\ NameOf[b] # n
    BY <1>1, <1>6, <2>1, <2>2 DEF Fenced
  <2>4. e \notin st.entries /\ owner[e] = NameOf[b]
    BY <1>1, <1>5, <2>1, <2>3
  <2> QED
    BY <1>3, <2>1, <2>3, <2>4 DEF IdsInv, OwnedIsStagedAsKnown
<1>14. NewHasNoStage'
  <2> SUFFICES ASSUME NEW b \in Conn, peer'[b].pc = "new" PROVE stage'[b].entries = {}
    BY DEF NewHasNoStage
  <2> QED
    BY <1>6, <1>7 DEF IdsInv, NewHasNoStage
<1> QED
  BY <1>8, <1>9, <1>10, <1>11, <1>12, <1>13, <1>14 DEF IdsInv

----------------------------------------------------------------------------
\* The steps

\* Coming, failing and leaving, and timers that fire, keep the identifiers.
LEMMA ConnectionKeepsIds ==
    ASSUME IdsInv, NEW c \in Conn, Connection(c)
    PROVE  IdsKept
<1>1. /\ peer \in [Conn -> PeerRecord] /\ stage \in [Conn -> Stage] /\ slot \in [Name -> Slot]
      /\ \A b \in Conn : NameOf[b] \in Name /\ b # None
      /\ \A k \in Kind : nextID[k] <= nextID[k]
  <2>1. \A k \in Kind : nextID[k] \in Int
    BY DEF IdsInv, OwnershipInv, TypeOK
  <2>2. peer \in [Conn -> PeerRecord] /\ stage \in [Conn -> Stage] /\ slot \in [Name -> Slot]
    BY DEF IdsInv, OwnershipInv, TypeOK
  <2> QED
    BY <2>1, <2>2, NamesAssumption
<1>2. CASE Attach(c)
  <2>1. /\ peer[c].pc = "new" /\ stage[c].entries = {} /\ peer'[c].pc = "serving"
        /\ \A b \in Conn \ {c} : peer'[b] = peer[b]
    BY <1>1, <1>2 DEF Attach, IdsInv, NewHasNoStage
  <2>2. slot' = [slot EXCEPT ![NameOf[c]] = TakeOver(slot[NameOf[c]], c)]
    BY <1>2 DEF Attach
  <2>3. slot'[NameOf[c]].conn = c
    <3>1. \A s \in Slot : TakeOver(s, c).conn = c
      BY DEF TakeOver, Slot
    <3> QED
      BY <1>1, <2>2, <3>1
  <2>4. ASSUME NEW b \in Conn \ {c}, Fenced(b)' PROVE Fenced(b)
    <3>1. NameOf[b] # NameOf[c]
      BY <2>3, <2>4 DEF Fenced
    <3> QED
      BY <1>1, <2>1, <2>2, <2>4, <3>1 DEF Fenced
  <2> QED
    BY <1>1, <1>2, <2>1, <2>4 DEF Attach, IdsKept, stageVars, dictVars, tableVars
<1>3. CASE Detach(c)
  <2>1. /\ stage'[c].entries = {}
        /\ \A b \in Conn \ {c} : stage'[b] = stage[b] /\ peer'[b] = peer[b]
        /\ peer'[c].pc = peer[c].pc
    BY <1>1, <1>3 DEF Detach, NoStage, PeerRecord
  <2>2. ASSUME NEW b \in Conn \ {c}, Fenced(b)' PROVE Fenced(b)
    <3>1. CASE slot' = slot
      BY <2>1, <2>2, <3>1 DEF Fenced
    <3>2. CASE slot' = [slot EXCEPT ![NameOf[c]] = SlotAfterDetach(c, slot[NameOf[c]])]
      <4>1. \A s \in Slot : SlotAfterDetach(c, s).conn = None
        BY DEF SlotAfterDetach, NoSlot, Slot
      <4>2. NameOf[b] # NameOf[c]
        BY <1>1, <2>2, <3>2, <4>1 DEF Fenced
      <4> QED
        BY <1>1, <2>1, <2>2, <3>2, <4>2 DEF Fenced
    <3> QED
      BY <1>3, <3>1, <3>2 DEF Detach
  <2> QED
    BY <1>1, <1>3, <2>1, <2>2 DEF Detach, IdsKept, dictVars, tableVars
<1>4. CASE FailAsync(c) \/ Receive(c)
  <2>1. ASSUME NEW b \in Conn
        PROVE  peer'[b].gen = peer[b].gen /\ (peer'[b].pc = "new" => peer[b].pc = "new")
    <3>1. CASE FailAsync(c)
      BY <1>1, <3>1, Zenon DEF FailAsync, PeerRecord
    <3>2. CASE Receive(c)
      BY <1>1, <3>2, Zenon DEF Receive, PeerRecord
    <3> QED
      BY <1>4, <3>1, <3>2
  <2>2. UNCHANGED <<stageVars, slotVars, dictVars, tableVars>>
    BY <1>4 DEF FailAsync, Receive
  <2> QED
    BY <1>1, <2>1, <2>2 DEF IdsKept, Fenced, stageVars, slotVars, dictVars, tableVars
<1>5. CASE StageTimerFires(c)
  <2>1. \A b \in Conn : stage'[b].entries = stage[b].entries /\ stage'[b].ids = stage[b].ids
    BY <1>1, <1>5, Zenon DEF StageTimerFires, Stage
  <2> QED
    BY <1>1, <1>5, <2>1 DEF StageTimerFires, IdsKept, Fenced, slotVars, dictVars, tableVars
<1> QED
  BY <1>2, <1>3, <1>4, <1>5 DEF Connection

\* So do the callbacks of the timers.
LEMMA TimerKeepsIds ==
    ASSUME IdsInv,
           \/ \E t \in overdue : ExpireStage(t[1], t[2])
           \/ \E n \in Name : GraceFires(n)
           \/ \E t \in expiring : ExpireCoordinator(t[1], t[2])
    PROVE  IdsKept
<1>1. /\ stage \in [Conn -> Stage] /\ slot \in [Name -> Slot]
      /\ \A k \in Kind : nextID[k] <= nextID[k]
      /\ \A b \in Conn : b # None
  <2>1. \A k \in Kind : nextID[k] \in Int
    BY DEF IdsInv, OwnershipInv, TypeOK
  <2> QED
    BY <2>1, NamesAssumption DEF IdsInv, OwnershipInv, TypeOK
<1>2. ASSUME NEW t \in overdue, ExpireStage(t[1], t[2]) PROVE IdsKept
  <2>1. \A b \in Conn : stage'[b] = stage[b] \/ stage'[b].entries = {}
    BY <1>1, <1>2 DEF ExpireStage, NoStage
  <2> QED
    BY <1>1, <1>2, <2>1 DEF ExpireStage, IdsKept, Fenced, slotVars, dictVars, tableVars
<1>3. ASSUME NEW n \in Name, GraceFires(n) PROVE IdsKept
  <2>1. \A m \in Name : slot'[m].conn = slot[m].conn /\ slot'[m].gen = slot[m].gen
    BY <1>1, <1>3, Zenon DEF GraceFires, Slot
  <2>2. \A b \in Conn : Fenced(b)' => Fenced(b)
    BY <1>3, <2>1, NamesAssumption DEF Fenced, GraceFires
  <2> QED
    BY <1>1, <1>3, <2>2 DEF GraceFires, IdsKept, stageVars, dictVars, tableVars
<1>4. ASSUME NEW t \in expiring, ExpireCoordinator(t[1], t[2]) PROVE IdsKept
  <2>1. \A m \in Name : slot'[m] = slot[m] \/ slot'[m].conn = None
    BY <1>1, <1>4 DEF ExpireCoordinator, NoSlot
  <2>2. \A b \in Conn : Fenced(b)' => Fenced(b)
    BY <1>1, <1>4, <2>1, NamesAssumption DEF Fenced, ExpireCoordinator
  <2>3. \A e \in Entry : owner'[e] \in {owner[e], None}
    BY <1>4 DEF ExpireCoordinator, RemoveCoordinator, tableVars
  <2> QED
    BY <1>1, <1>4, <2>2, <2>3 DEF ExpireCoordinator, IdsKept, stageVars, dictVars
<1> QED
  BY <1>2, <1>3, <1>4

\* A handler that keeps the dictionary, the owners and who holds the slots, and
\* keeps the stages or drops its own, keeps the identifiers.
LEMMA ReturnKeepsIds ==
    ASSUME IdsInv, NEW c \in Conn, Handled(c) \/ HandledFatally(c),
           UNCHANGED <<idOf, nameOf, owner>>,
           \A j \in Kind : nextID[j] <= nextID'[j],
           \A m \in Name : slot'[m].conn = slot[m].conn /\ slot'[m].gen = slot[m].gen,
           \A b \in Conn :
             \/ stage'[b].entries = {}
             \/ stage'[b].entries = stage[b].entries /\ stage'[b].ids = stage[b].ids
    PROVE  IdsKept
<1>1. peer \in [Conn -> PeerRecord]
  BY DEF IdsInv, OwnershipInv, TypeOK
<1>2. \A b \in Conn :
        /\ peer'[b].gen = peer[b].gen
        /\ peer'[b].pc = "new" => b # c /\ peer[b].pc = "new"
  BY <1>1, HandledPeers
<1>3. \A b \in Conn : Fenced(b)' => Fenced(b)
  BY <1>2, NamesAssumption DEF Fenced
<1> QED
  BY <1>2, <1>3 DEF IdsKept

\* The handlers that hand out no identifier.
LEMMA PlainHandlerKeepsIds ==
    ASSUME IdsInv, NEW c \in Conn,
           Superseded(c) \/ WrongSlice(c) \/ OtherFrame(c) \/ AclSync(c) \/ StateSet(c)
    PROVE  IdsKept
<1>1. /\ stage \in [Conn -> Stage] /\ slot \in [Name -> Slot] /\ NameOf[c] \in Name
      /\ \A k \in Kind : nextID[k] <= nextID[k]
  <2>1. \A k \in Kind : nextID[k] \in Int
    BY DEF IdsInv, OwnershipInv, TypeOK
  <2> QED
    BY <2>1, NamesAssumption DEF IdsInv, OwnershipInv, TypeOK
<1>2. CASE Superseded(c) \/ OtherFrame(c)
  BY <1>1, <1>2, ReturnKeepsIds
  DEF Superseded, OtherFrame, stageVars, slotVars, dictVars, tableVars
<1>3. CASE WrongSlice(c)
  <2>1. \A b \in Conn : stage'[b] = stage[b] \/ stage'[b].entries = {}
    BY <1>1, <1>3 DEF WrongSlice, NoStage
  <2> QED
    BY <1>1, <1>3, <2>1, ReturnKeepsIds DEF WrongSlice, slotVars, dictVars, tableVars
<1>4. CASE AclSync(c)
  <2>1. PICK a \in Acl :
          stage' = [stage EXCEPT ![c].acl[stage[c].expected] = a,
                                 ![c].expected = AfterAcl(stage[c].expected)]
    BY <1>4 DEF AclSync
  <2>2. \A b \in Conn : stage'[b].entries = stage[b].entries /\ stage'[b].ids = stage[b].ids
    BY <1>1, <2>1, Zenon DEF Stage
  <2> QED
    BY <1>1, <1>4, <2>2, ReturnKeepsIds DEF AclSync, slotVars, dictVars, tableVars
<1>5. CASE StateSet(c)
  <2>1. \A s \in Slot : \A D, values :
          SetConfig(s, D, values).conn = s.conn /\ SetConfig(s, D, values).gen = s.gen
    BY DEF SetConfig, Slot
  <2>2. \/ slot' = slot
        \/ \E D : \E values :
             slot' = [slot EXCEPT ![NameOf[c]] = SetConfig(slot[NameOf[c]], D, values)]
    BY <1>5 DEF StateSet
  <2>3. \A m \in Name : slot'[m].conn = slot[m].conn /\ slot'[m].gen = slot[m].gen
    BY <1>1, <2>1, <2>2
  <2> QED
    BY <1>1, <1>5, <2>3, ReturnKeepsIds DEF StateSet, stageVars, dictVars, tableVars
<1> QED
  BY <1>2, <1>3, <1>4, <1>5

\* STATE_SYNC starts a stage over with the identifiers it reserved, or none.
LEMMA StateSyncIds ==
    ASSUME IdsInv, OwnershipInv', NEW c \in Conn, StateSync(c)
    PROVE  IdsInv'
<1>1. stage \in [Conn -> Stage]
  BY DEF IdsInv, OwnershipInv, TypeOK
<1>2. PICK D \in SUBSET Path : \E values \in [D -> Value], ids \in [D -> Id], fits \in BOOLEAN :
        StateSlice(c, D, values, ids, fits)
  BY DEF StateSync, Fits
<1>3. PICK values \in [D -> Value], ids \in [D -> Id], fits \in BOOLEAN :
        StateSlice(c, D, values, ids, fits)
  BY <1>2
<1>4. /\ Fenced(c) /\ "state" \in Kind /\ D \in SUBSET OfKind("state")
      /\ UNCHANGED <<slot, idOf, nameOf, owner>>
      /\ CanHandOut("state", D) /\ HandOut("state", D) /\ Reserves("state", D, ids)
  BY <1>3 DEF StateSync, Handling, Path, Kind, StateSlice, slotVars, tableVars
<1> DEFINE st == Begin(c, D, values, ids)
<1>5. st.entries = D /\ \A e \in D : st.ids[e] = ids[e]
  <2>1. st.entries = D /\ st.ids = [e \in Entry |-> IF e \in D THEN ids[e] ELSE NoId]
    BY DEF Begin, NoStage
  <2> QED
    BY <1>4, <2>1 DEF OfKind
<1> HIDE DEF st
<1>6. StageFits(c, st) /\ \A j \in Kind : nextID[j] <= nextID'[j]
  BY <1>4, <1>5, SliceFits
<1>7. CASE stage' = [stage EXCEPT ![c].timer = FALSE] /\ Handled(c)
  <2>1. \A b \in Conn : stage'[b].entries = stage[b].entries /\ stage'[b].ids = stage[b].ids
    BY <1>1, <1>7, Zenon DEF Stage
  <2> QED
    BY <1>4, <1>6, <1>7, <2>1, ReturnKeepsIds, IdsKeptPreserves
<1>8. CASE stage' = [stage EXCEPT ![c] = NoStage] /\ HandledFatally(c)
  <2>1. \A b \in Conn : stage'[b] = stage[b] \/ stage'[b].entries = {}
    BY <1>1, <1>8 DEF NoStage
  <2> QED
    BY <1>4, <1>6, <1>8, <2>1, ReturnKeepsIds, IdsKeptPreserves
<1>9. CASE stage' = [stage EXCEPT ![c] = st] /\ Handled(c)
  BY <1>4, <1>6, <1>9, StagingPreserves
<1> QED
  BY <1>3, <1>7, <1>8, <1>9 DEF StateSlice, st

\* EVENT_SYNC extends the stage by the identifiers it reserved, or drops it.
LEMMA EventSyncIds ==
    ASSUME IdsInv, OwnershipInv', NEW c \in Conn, EventSync(c)
    PROVE  IdsInv'
<1>1. stage \in [Conn -> Stage]
  BY DEF IdsInv, OwnershipInv, TypeOK
<1>2. PICK D \in SUBSET OfKind("event") : \E ids \in [D -> Id], fits \in BOOLEAN :
        EventSlice(c, D, ids, fits)
  BY DEF EventSync, Fits
<1>3. PICK ids \in [D -> Id], fits \in BOOLEAN : EventSlice(c, D, ids, fits)
  BY <1>2
<1>4. /\ Fenced(c) /\ "event" \in Kind
      /\ UNCHANGED <<slot, idOf, nameOf, owner>>
      /\ CanHandOut("event", D) /\ HandOut("event", D) /\ Reserves("event", D, ids)
  BY <1>3 DEF EventSync, Handling, Kind, EventSlice, slotVars, tableVars
<1> DEFINE st == Expect(Extend(stage[c], D, ids), "EVENT_ACL_SYNC")
<1>5. /\ \A e \in st.entries \ D : e \in stage[c].entries /\ st.ids[e] = stage[c].ids[e]
      /\ \A e \in D : st.ids[e] = ids[e]
  <2>1. /\ st.entries = stage[c].entries \cup D
        /\ st.ids = [e \in Entry |-> IF e \in D THEN ids[e] ELSE stage[c].ids[e]]
    BY <1>1 DEF Expect, Extend, Stage
  <2>2. stage[c].entries \in SUBSET Entry
    BY <1>1 DEF Stage
  <2> QED
    BY <2>1, <2>2 DEF OfKind
<1> HIDE DEF st
<1>6. StageFits(c, st) /\ \A j \in Kind : nextID[j] <= nextID'[j]
  BY <1>4, <1>5, SliceFits
<1>7. CASE stage' = [stage EXCEPT ![c] = NoStage] /\ Handled(c)
  <2>1. \A b \in Conn : stage'[b] = stage[b] \/ stage'[b].entries = {}
    BY <1>1, <1>7 DEF NoStage
  <2> QED
    BY <1>4, <1>6, <1>7, <2>1, ReturnKeepsIds, IdsKeptPreserves
<1>8. CASE stage' = [stage EXCEPT ![c] = st] /\ (Handled(c) \/ HandledFatally(c))
  BY <1>4, <1>6, <1>8, StagingPreserves
<1> QED
  BY <1>3, <1>7, <1>8 DEF EventSlice, st

\* What FUNCTION_SYNC publishes, if it publishes anything, is a stage that fits.
LEMMA FunctionSyncFits ==
    ASSUME IdsInv, NEW c \in Conn, FunctionSync(c)
    PROVE  /\ \A j \in Kind : nextID[j] <= nextID'[j]
           /\ \/ (Handled(c) \/ HandledFatally(c)) /\ UNCHANGED <<slot, idOf, nameOf, tableVars>>
              \/ \E st \in Stage : StageFits(c, st) /\ Handled(c) /\ Activate(c, st)
<1>1. stage \in [Conn -> Stage]
  BY DEF IdsInv, OwnershipInv, TypeOK
<1>2. PICK D \in SUBSET OfKind("function") : \E ids \in [D -> Id], fits \in BOOLEAN :
        FunctionSlice(c, D, ids, fits)
  BY DEF FunctionSync, Fits
<1>3. PICK ids \in [D -> Id], fits \in BOOLEAN : FunctionSlice(c, D, ids, fits)
  BY <1>2
<1>4. /\ Fenced(c) /\ "function" \in Kind
      /\ CanHandOut("function", D) /\ HandOut("function", D) /\ Reserves("function", D, ids)
  BY <1>3 DEF FunctionSync, Handling, Kind, FunctionSlice
<1> DEFINE st == Extend(stage[c], D, ids)
<1>5. /\ \A e \in st.entries \ D : e \in stage[c].entries /\ st.ids[e] = stage[c].ids[e]
      /\ \A e \in D : st.ids[e] = ids[e]
  <2>1. /\ st.entries = stage[c].entries \cup D
        /\ st.ids = [e \in Entry |-> IF e \in D THEN ids[e] ELSE stage[c].ids[e]]
    BY <1>1 DEF Extend, Stage
  <2>2. stage[c].entries \in SUBSET Entry
    BY <1>1 DEF Stage
  <2> QED
    BY <2>1, <2>2 DEF OfKind
<1>6. st \in Stage
  BY <1>1, ExtendType DEF OfKind
<1> HIDE DEF st
<1>7. StageFits(c, st) /\ \A j \in Kind : nextID[j] <= nextID'[j]
  BY <1>4, <1>5, SliceFits
<1> QED
  BY <1>3, <1>6, <1>7 DEF FunctionSlice, st

\* FUNCTION_SYNC activates a stage that fits, or leaves the dictionary alone.
LEMMA FunctionSyncIds ==
    ASSUME IdsInv, OwnershipInv', NEW c \in Conn, FunctionSync(c)
    PROVE  IdsInv'
<1>1. /\ stage \in [Conn -> Stage] /\ Fenced(c) /\ stage' = [stage EXCEPT ![c] = NoStage]
      /\ \A j \in Kind : nextID[j] <= nextID'[j]
  BY FunctionSyncFits DEF IdsInv, OwnershipInv, TypeOK, FunctionSync, Handling
<1>2. CASE (Handled(c) \/ HandledFatally(c)) /\ UNCHANGED <<slot, idOf, nameOf, tableVars>>
  <2>1. \A b \in Conn : stage'[b] = stage[b] \/ stage'[b].entries = {}
    BY <1>1 DEF NoStage
  <2> QED
    BY <1>1, <1>2, <2>1, ReturnKeepsIds, IdsKeptPreserves DEF tableVars
<1>3. CASE \E st \in Stage : StageFits(c, st) /\ Handled(c) /\ Activate(c, st)
  BY <1>1, <1>3, ActivationPreserves
<1> QED
  BY <1>2, <1>3, FunctionSyncFits

\* Every step preserves the invariant.
LEMMA IdsStep ==
    ASSUME IdsInv, OwnershipInv', [Next]_vars
    PROVE  IdsInv'
<1>1. ASSUME NEW c \in Conn, Connection(c) PROVE IdsInv'
  BY <1>1, ConnectionKeepsIds, IdsKeptPreserves
<1>2. ASSUME NEW c \in Conn, Handler(c) PROVE IdsInv'
  BY <1>2, PlainHandlerKeepsIds, IdsKeptPreserves, StateSyncIds, EventSyncIds, FunctionSyncIds
  DEF Handler
<1>3. CASE \/ \E t \in overdue : ExpireStage(t[1], t[2])
           \/ \E n \in Name : GraceFires(n)
           \/ \E t \in expiring : ExpireCoordinator(t[1], t[2])
  BY <1>3, TimerKeepsIds, IdsKeptPreserves
<1>4. CASE UNCHANGED vars
  BY <1>4 DEF vars, stageVars, slotVars, dictVars, tableVars, IdsInv, DictionaryAgrees,
     UsedIdsAreHandedOut, StagedIdsFit, StagedIdsDiffer, OwnedIsKnown, OwnedIsStagedAsKnown,
     NewHasNoStage, Fenced
<1> QED
  BY <1>1, <1>2, <1>3, <1>4 DEF Next

----------------------------------------------------------------------------
\* Theorems

\* The inductive invariant holds of every behaviour.
THEOREM DictionaryInvariant == Spec => []IdsInv
<1>1. IdsInv /\ OwnershipInv' /\ [Next]_vars => IdsInv'
  BY IdsStep
<1> QED
  BY <1>1, InitIds, OwnershipInvariant, PTL DEF Spec

\* The identifier a name has leads back to that name, however many transactions
\* reserve identifiers side by side and however few are activated.
THEOREM DictionaryIsConsistent == Spec => []DictionaryAgrees
<1>1. IdsInv => DictionaryAgrees
  BY DEF IdsInv
<1> QED
  BY <1>1, DictionaryInvariant, PTL

\* What a step of any kind does to identifiers that have a meaning or an owner.
LEMMA IdsOnlyGrow ==
    ASSUME IdsInv, [Next]_vars
    PROVE  /\ \A k \in Kind, i \in Id : nameOf[k][i] # None => nameOf'[k][i] = nameOf[k][i]
           /\ \A e \in Entry : owner[e] # None /\ owner'[e] = owner[e] => idOf'[e] = idOf[e]
<1>1. ASSUME NEW c \in Conn, FunctionSync(c)
      PROVE  /\ \A k \in Kind, i \in Id : nameOf[k][i] # None => nameOf'[k][i] = nameOf[k][i]
             /\ \A e \in Entry : owner[e] # None /\ owner'[e] = owner[e] => idOf'[e] = idOf[e]
  <2>1. CASE UNCHANGED <<idOf, nameOf>>
    BY <2>1
  <2>2. ASSUME NEW st \in Stage, StageFits(c, st), Activate(c, st)
        PROVE  /\ \A k \in Kind, i \in Id : nameOf[k][i] # None => nameOf'[k][i] = nameOf[k][i]
               /\ \A e \in Entry : owner[e] # None /\ owner'[e] = owner[e] => idOf'[e] = idOf[e]
    <3>1. /\ \A e \in st.entries : idOf'[e] = st.ids[e]
          /\ \A e \in Entry \ st.entries : idOf'[e] = idOf[e]
          /\ \A k \in Kind, i \in Id : nameOf[k][i] # None => nameOf'[k][i] = nameOf[k][i]
      BY <2>2, LearnResult DEF Activate
    <3>2. ASSUME NEW e \in st.entries, e \in Entry, owner'[e] = owner[e] PROVE idOf'[e] = idOf[e]
      <4>1. owner'[e] = NameOf[c]
        BY <2>2, <3>2 DEF Activate, Own
      <4> QED
        BY <2>2, <3>1, <3>2, <4>1 DEF StageFits
    <3> QED
      BY <3>1, <3>2
  <2> QED
    BY <1>1, <2>1, <2>2, FunctionSyncFits
<1>2. ASSUME NEW c \in Conn, Handler(c), ~FunctionSync(c) PROVE UNCHANGED <<idOf, nameOf>>
  BY <1>2 DEF Handler, Superseded, WrongSlice, OtherFrame, StateSync, AclSync, EventSync,
     StateSet, dictVars
<1>3. ASSUME NEW c \in Conn, Connection(c) PROVE UNCHANGED <<idOf, nameOf>>
  BY <1>3, ConnectionKeepsIds DEF IdsKept
<1>4. CASE \/ \E t \in overdue : ExpireStage(t[1], t[2])
           \/ \E n \in Name : GraceFires(n)
           \/ \E t \in expiring : ExpireCoordinator(t[1], t[2])
  BY <1>4, TimerKeepsIds DEF IdsKept
<1>5. CASE UNCHANGED vars
  BY <1>5 DEF vars, dictVars
<1> QED
  BY <1>1, <1>2, <1>3, <1>4, <1>5 DEF Next

\* An identifier never changes its meaning while the home lives.
THEOREM IdsAreNeverReused == Spec => IdsKeepTheirMeaning
<1>1. IdsInv /\ [Next]_vars =>
        [\A k \in Kind, i \in Id : nameOf[k][i] # None => nameOf'[k][i] = nameOf[k][i]]_vars
  BY IdsOnlyGrow
<1> QED
  BY <1>1, DictionaryInvariant, PTL DEF Spec, IdsKeepTheirMeaning

\* A name keeps its identifier as long as it keeps its owner.
THEOREM OwnersKeepTheirIds == Spec => OwnedIdsAreStable
<1>1. IdsInv /\ [Next]_vars =>
        [\A e \in Entry : owner[e] # None /\ owner'[e] = owner[e] => idOf'[e] = idOf[e]]_vars
  BY IdsOnlyGrow
<1> QED
  BY <1>1, DictionaryInvariant, PTL DEF Spec, OwnedIdsAreStable

=============================================================================
