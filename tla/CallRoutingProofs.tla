-------------------------- MODULE CallRoutingProofs --------------------------
(***************************************************************************)
(* Proofs about CallRouting, for every set of connections and every limit: *)
(* the shape of the state, the agreement of the call indexes with the      *)
(* routes, the end of a call with the session it was dispatched to, and    *)
(* what the two ends are told: the end of the call, once, and no stream    *)
(* beyond its credit or after its end.                                     *)
(***************************************************************************)
EXTENDS CallRouting, TLAPS

USE DEF Call, Id, NoCall, Credit

----------------------------------------------------------------------------
\* Types

\* Removing a route keeps its ends, identifiers and history.
LEMMA RemovedType ==
    ASSUME TypeOK, NEW r \in Call
    PROVE  /\ Removed(r) \in Route
           /\ Removed(r).caller = route[r].caller /\ Removed(r).callee = route[r].callee
           /\ Removed(r).callerID = route[r].callerID
           /\ Removed(r).calleeID = route[r].calleeID
           /\ Removed(r).live = FALSE
  BY ZenonT(40) DEF TypeOK, Removed, Route

\* Telling an end of a call changes a counter only.
LEMMA ToldType ==
    ASSUME NEW x \in Route
    PROVE  /\ Cancelled(x) \in Route /\ Reported(x) \in Route
           /\ \A y \in {Cancelled(x), Reported(x)} :
                /\ y.caller = x.caller /\ y.callee = x.callee
                /\ y.callerID = x.callerID /\ y.calleeID = x.calleeID
                /\ y.live = x.live
  BY DEF Cancelled, Reported, Route

\* Deleting identifiers leaves an index of the same shape.
LEMMA UnindexedType ==
    ASSUME TypeOK, NEW R
    PROVE  Unindexed(R) \in [Conn -> [Id -> Call \cup {NoCall}]]
  BY DEF TypeOK, Unindexed

\* Terminating a connection's calls leaves routes and indexes of the same shape.
LEMMA TerminateType ==
    ASSUME TypeOK, NEW c \in Conn, TerminateCalls(c)
    PROVE  route' \in [Call -> Route] /\ calls' \in [Conn -> [Id -> Call \cup {NoCall}]]
  <1>1. ASSUME NEW r \in Call PROVE Terminated(c)[r] \in Route
    <2>1. route[r] \in Route /\ Removed(r) \in Route
      BY RemovedType DEF TypeOK
    <2>2. Cancelled(Removed(r)) \in Route /\ Reported(Removed(r)) \in Route
      BY <2>1, ToldType
    <2> QED BY <2>1, <2>2 DEF Terminated
  <1>2. Terminated(c) \in [Call -> Route]
    BY <1>1 DEF Terminated
  <1> QED BY <1>2, UnindexedType DEF TerminateCalls

\* The initial state has the shape.
LEMMA InitType == Init => TypeOK
  BY LimitAssumption DEF Init, TypeOK, NewPeer, NoRoute, PeerRecord, SlotRecord, Route

\* A connection's life keeps the shape.
LEMMA LifeType ==
    ASSUME TypeOK, NEW c \in Conn, Life(c)
    PROVE  TypeOK'
  <1> USE BindingAssumption
  <1>1. CASE Attach(c)
    <2>0. peer' \in [Conn -> PeerRecord]
      <3>1. [peer[c] EXCEPT !.phase = "Active", !.attached = TRUE] \in PeerRecord
        BY DEF TypeOK, PeerRecord
      <3>2. peer' = [peer EXCEPT ![c] = [peer[c] EXCEPT !.phase = "Active",
                                                        !.attached = TRUE]]
        BY <1>1 DEF Attach, TypeOK
      <3> QED BY <3>1, <3>2 DEF TypeOK
    <2>1. slot' \in [Name -> SlotRecord]
      <3>1. [conn |-> c, ready |-> FALSE] \in SlotRecord
        BY DEF SlotRecord
      <3> QED BY <1>1, <3>1 DEF Attach, TypeOK
    <2>2. route' \in [Call -> Route] /\ calls' \in [Conn -> [Id -> Call \cup {NoCall}]]
      <3>1. CASE IsCoordinator(c) /\ slot[NameOf[c]].conn # None
        <4>1. slot[NameOf[c]].conn \in Conn /\ TerminateCalls(slot[NameOf[c]].conn)
          BY <1>1, <3>1 DEF Attach, TypeOK, SlotRecord
        <4> QED BY <4>1, TerminateType
      <3>2. CASE ~(IsCoordinator(c) /\ slot[NameOf[c]].conn # None)
        BY <1>1, <3>2 DEF Attach, TypeOK
      <3> QED BY <3>1, <3>2
    <2> QED BY <1>1, <2>0, <2>1, <2>2 DEF Attach, TypeOK
  <1>2. CASE Fail(c)
    BY <1>2 DEF Fail, TypeOK, PeerRecord
  <1>3. CASE ShutQueue(c)
    BY <1>3 DEF ShutQueue, TypeOK, PeerRecord
  <1>4. CASE Leave(c)
    BY <1>4 DEF Leave, TypeOK, PeerRecord
  <1>5. CASE Detach(c)
    <2>1. peer' \in [Conn -> PeerRecord] /\ slot' \in [Name -> SlotRecord]
      BY <1>5, ZenonT(40) DEF Detach, TypeOK, PeerRecord, SlotRecord
    <2> QED BY <1>5, <2>1, TerminateType DEF Detach, TypeOK
  <1>6. CASE StopLeft(c)
    BY <1>6, ZenonT(40) DEF StopLeft, TypeOK, PeerRecord
  <1>7. CASE StartDraining(c)
    BY <1>7 DEF StartDraining, TypeOK, PeerRecord
  <1> QED BY <1>1, <1>2, <1>3, <1>4, <1>5, <1>6, <1>7 DEF Life

\* The read loop's return to the next frame keeps the peers' shape.
LEMMA DoneType ==
    ASSUME TypeOK, NEW c \in Conn, Done(c)
    PROVE  peer' \in [Conn -> PeerRecord]
  BY ZenonT(40) DEF Done, TypeOK, PeerRecord

\* A new call keeps the shape.
LEMMA StartCallType ==
    ASSUME TypeOK, NEW c \in Conn, NEW d \in Conn, NEW i \in Id, NEW j \in Id,
           NEW credit \in Credit, NEW told \in BOOLEAN, StartCall(c, d, i, j, credit, told)
    PROVE  TypeOK'
  <1> USE LimitAssumption
  <1>1. made' \in Call /\ made' = made + 1
    BY DEF StartCall, TypeOK
  <1>2. NewRoute(c, d, i, j, credit) \in Route
    BY DEF NewRoute, Route
  <1>3. route' \in [Call -> Route]
    BY <1>1, <1>2 DEF StartCall, TypeOK
  <1>4. calls' \in [Conn -> [Id -> Call \cup {NoCall}]]
    BY <1>1 DEF StartCall, TypeOK
  <1>5. peer' \in [Conn -> PeerRecord]
    <2>1. CASE told
      BY <2>1, DoneType DEF StartCall
    <2>2. CASE ~told
      <3>1. [peer[c] EXCEPT !.phase = "Closed", !.shut = TRUE, !.handler = "left"]
                \in PeerRecord
        <4>1. peer[c] \in PeerRecord
          BY DEF TypeOK
        <4> QED BY <4>1, Zenon DEF PeerRecord
      <3>2. peer' = [peer EXCEPT ![c] =
                [peer[c] EXCEPT !.phase = "Closed", !.shut = TRUE, !.handler = "left"]]
        BY <2>2 DEF StartCall, TypeOK
      <3> QED BY <3>1, <3>2 DEF TypeOK
    <2> QED BY <2>1, <2>2
  <1>6. nextID' \in [Conn -> Id \cup {0}]
    BY DEF StartCall, TypeOK
  <1> QED BY <1>1, <1>3, <1>4, <1>5, <1>6 DEF StartCall, TypeOK

\* A dispatch that fails keeps the shape.
LEMMA DispatchFailsType ==
    ASSUME TypeOK, NEW c \in Conn, NEW d \in Conn, NEW i \in Id, NEW j \in Id,
           DispatchFails(c, d, i, j)
    PROVE  TypeOK'
  <1>1. nextID' \in [Conn -> Id \cup {0}]
    BY DEF DispatchFails, TypeOK
  <1>2. ASSUME NEW x \in Conn PROVE peer'[x] \in PeerRecord
    <2>1. [peer[x] EXCEPT !.phase = "Closed", !.shut = TRUE] \in PeerRecord
      BY ZenonT(40) DEF TypeOK, PeerRecord
    <2>2. \A y \in PeerRecord :
            [y EXCEPT !.handler = IF x = c THEN "reading" ELSE @] \in PeerRecord
      BY DEF PeerRecord
    <2>3. peer[x] \in PeerRecord
      BY DEF TypeOK
    <2> QED BY <2>1, <2>2, <2>3 DEF DispatchFails
  <1>3. peer' \in [Conn -> PeerRecord]
    BY <1>2 DEF DispatchFails
  <1> QED BY <1>1, <1>3 DEF DispatchFails, TypeOK

\* A handler of a call that exists keeps the shape.
LEMMA ControlType ==
    ASSUME TypeOK, NEW c \in Conn, NEW i \in Id, NEW more \in Credit,
           Answer(c, i) \/ Stream(c, i) \/ CancelCall(c, i) \/ CreditCall(c, i, more)
    PROVE  TypeOK'
  <1> USE LimitAssumption
  <1> DEFINE r == calls[c][i]
  <1>1. r \in Call /\ route[r] \in Route /\ Removed(r) \in Route
    <2>1. r \in Call
      BY DEF Answer, Stream, CancelCall, CreditCall, MayAnswer, MayControl, TypeOK
    <2> QED BY <2>1, RemovedType DEF TypeOK
  <1>2. peer' \in [Conn -> PeerRecord]
    BY DoneType DEF Answer, Stream, CancelCall, CreditCall
  <1>3. Unindexed({r}) \in [Conn -> [Id -> Call \cup {NoCall}]]
    BY UnindexedType
  <1> HIDE DEF r
  <1>4. CASE Answer(c, i)
    <2>1. Reported(Removed(r)) \in Route
      BY <1>1, ToldType
    <2>2. [Reported(Removed(r)) EXCEPT !.answered = TRUE] \in Route
      BY <2>1 DEF Route
    <2> QED BY <1>2, <1>3, <1>4, <2>2 DEF Answer, TypeOK, r
  <1>5. CASE Stream(c, i)
    <2>1. route[r].credit > 0
      BY <1>5 DEF Stream, r
    <2>2. [route[r] EXCEPT !.credit = @ - 1, !.streamed = @ + 1] \in Route
      <3>1. route[r].credit - 1 \in Nat /\ route[r].streamed + 1 \in Nat
        BY <1>1, <2>1 DEF Route
      <3> QED BY <1>1, <3>1, Zenon DEF Route
    <2>3. route' = [route EXCEPT ![r] = [route[r] EXCEPT !.credit = @ - 1,
                                                         !.streamed = @ + 1]]
      BY <1>1, <1>5 DEF Stream, TypeOK, r
    <2> QED BY <1>2, <1>5, <2>2, <2>3 DEF Stream, TypeOK
  <1>6. CASE CancelCall(c, i)
    <2>1. Reported(Cancelled(Removed(r))) \in Route
      BY <1>1, ToldType
    <2> QED BY <1>2, <1>3, <1>6, <2>1 DEF CancelCall, TypeOK, r
  <1>7. CASE CreditCall(c, i, more)
    <2>2. [route[r] EXCEPT !.credit = @ + more, !.granted = @ + more] \in Route
      <3>1. route[r].credit + more \in Nat /\ route[r].granted + more \in Nat
        BY <1>1 DEF Route
      <3> QED BY <1>1, <3>1, Zenon DEF Route
    <2>3. route' = [route EXCEPT ![r] = [route[r] EXCEPT !.credit = @ + more,
                                                         !.granted = @ + more]]
      BY <1>1, <1>7 DEF CreditCall, TypeOK, r
    <2> QED BY <1>2, <1>7, <2>2, <2>3 DEF CreditCall, TypeOK
  <1> QED BY <1>4, <1>5, <1>6, <1>7

\* The deadline's callback keeps the shape.
LEMMA DeadlineType ==
    ASSUME TypeOK, NEW r \in Call, Deadline(r)
    PROVE  TypeOK'
  <1>1. route[r] \in Route /\ Removed(r) \in Route
    BY RemovedType DEF TypeOK
  <1>2. CASE TimerFires(r)
    <2>1. [route[r] EXCEPT !.timer = "fired"] \in Route
      BY <1>1 DEF Route
    <2> QED BY <1>2, <2>1 DEF TimerFires, TypeOK
  <1>3. CASE ExpireTake(r)
    <2>1. /\ [Removed(r) EXCEPT !.timer = "cancelling"] \in Route
          /\ [route[r] EXCEPT !.timer = "done"] \in Route
      BY <1>1 DEF Route
    <2>2. /\ route' \in [Call -> Route] /\ calls' \in [Conn -> [Id -> Call \cup {NoCall}]]
          /\ UNCHANGED <<peer, slot, nextID, made>>
      <3>1. CASE route[r].live
        <4>1. /\ route' = [route EXCEPT ![r] = [Removed(r) EXCEPT !.timer = "cancelling"]]
              /\ calls' = Unindexed({r}) /\ UNCHANGED <<peer, slot, nextID, made>>
          BY <1>3, <3>1 DEF ExpireTake
        <4>2. Unindexed({r}) \in [Conn -> [Id -> Call \cup {NoCall}]]
          BY UnindexedType
        <4> QED BY <2>1, <4>1, <4>2 DEF TypeOK
      <3>2. CASE ~route[r].live
        BY <1>3, <2>1, <3>2 DEF ExpireTake, TypeOK
      <3> QED BY <3>1, <3>2
    <2> QED BY <2>2 DEF TypeOK
  <1>4. CASE ExpireCancel(r)
    <2>1. [Cancelled(route[r]) EXCEPT !.timer = "reporting"] \in Route
      BY <1>1, ToldType DEF Route
    <2> QED BY <1>4, <2>1 DEF ExpireCancel, TypeOK
  <1>5. CASE ExpireReport(r)
    <2>1. [Reported(route[r]) EXCEPT !.timer = "done"] \in Route
      BY <1>1, ToldType DEF Route
    <2> QED BY <1>5, <2>1 DEF ExpireReport, TypeOK
  <1> QED BY <1>2, <1>3, <1>4, <1>5 DEF Deadline

\* A request keeps the shape.
LEMMA RequestType ==
    ASSUME TypeOK, NEW c \in Conn, Request(c)
    PROVE  TypeOK'
  <1> USE BindingAssumption, LimitAssumption
  <1>1. CASE Read(c)
    <2>1. \A h \in {"left", "answering", "serving"} :
            [peer EXCEPT ![c].handler = h] \in [Conn -> PeerRecord]
      BY ZenonT(40) DEF TypeOK, PeerRecord
    <2> QED BY <1>1, <2>1 DEF Read, TypeOK
  <1>2. CASE Refuse(c)
    BY <1>2, DoneType DEF Refuse, TypeOK
  <1>3. CASE Declare(c)
    BY <1>3, DoneType DEF Declare, TypeOK, SlotRecord
  <1>4. CASE \E d \in Conn, i \in CallerIds, j \in Id :
               \/ \E credit \in Credit, told \in BOOLEAN :
                    StartCall(c, d, i, j, credit, told)
               \/ DispatchFails(c, d, i, j)
    BY <1>4, StartCallType, DispatchFailsType
  <1>5. CASE \E i \in Id : \/ Answer(c, i) \/ Stream(c, i) \/ CancelCall(c, i)
                           \/ \E more \in Credit \ {0} : CreditCall(c, i, more)
    <2>1. 0 \in Credit
      OBVIOUS
    <2> QED BY <1>5, <2>1, ControlType
  <1> QED BY <1>1, <1>2, <1>3, <1>4, <1>5 DEF Request

\* Every step keeps the shape.
LEMMA TypeStep == TypeOK /\ [Next]_vars => TypeOK'
  <1> SUFFICES ASSUME TypeOK, [Next]_vars PROVE TypeOK'
    OBVIOUS
  <1>1. CASE \E c \in Conn : Life(c) \/ Request(c)
    BY <1>1, LifeType, RequestType
  <1>2. CASE \E r \in Call : Deadline(r)
    BY <1>2, DeadlineType
  <1>3. CASE UNCHANGED vars
    BY <1>3 DEF vars, TypeOK
  <1> QED BY <1>1, <1>2, <1>3 DEF Next

\* The records of connections, slots and routes, and the call indexes, always
\* have the shape TypeOK gives them: no credit below zero, no identifier of no
\* call.
THEOREM RoutingTypeCorrect == Spec => []TypeOK
  BY InitType, TypeStep, PTL DEF Spec

----------------------------------------------------------------------------
\* The call indexes

\* An index entry is a call or none.
LEMMA EntryType ==
    ASSUME TypeOK
    PROVE  \A c \in Conn, i \in Id : calls[c][i] = NoCall \/ calls[c][i] \in Call
  <1>1. ASSUME NEW c \in Conn, NEW i \in Id PROVE calls[c][i] \in Call \cup {NoCall}
    <2>1. calls[c] \in [Id -> Call \cup {NoCall}]
      BY DEF TypeOK
    <2> QED BY <2>1
  <1> QED BY <1>1

\* No call has the number that stands for none.
LEMMA NoCallIsNone == NoCall \notin Call
  OBVIOUS

HIDE DEF Call, Id, NoCall, Credit

\* A step keeps the ends and identifiers of r.
SameEnds(r) ==
    /\ route'[r].caller = route[r].caller /\ route'[r].callee = route[r].callee
    /\ route'[r].callerID = route[r].callerID /\ route'[r].calleeID = route[r].calleeID

\* Taking routes in flight out of the indexes by their identifiers hits no
\* other call, whichever ends the two calls share.
LEMMA RemovalKeepsIndex ==
    ASSUME TypeOK, RoutesAreIndexed, NEW R \in SUBSET Call,
           \A r \in R : route[r].live,
           calls' = Unindexed(R), made' = made,
           \A r \in Call : SameEnds(r) /\ route'[r].live = (route[r].live /\ r \notin R)
    PROVE  RoutesAreIndexed'
  <1>1. ASSUME NEW c \in Conn, NEW i \in Id, calls'[c][i] # NoCall
        PROVE  LET x == route'[calls'[c][i]] IN
               x.live /\ ((x.caller = c /\ x.callerID = i) \/ (x.callee = c /\ x.calleeID = i))
    <2>1. calls'[c][i] = calls[c][i] /\ calls[c][i] # NoCall
      BY <1>1 DEF Unindexed
    <2>2. calls[c][i] \in Call
      BY <2>1, EntryType
    <2>3. calls[c][i] \notin R
      BY <1>1, <2>1 DEF Unindexed, RoutesAreIndexed
    <2>4. LET x == route[calls[c][i]] IN
          x.live /\ ((x.caller = c /\ x.callerID = i) \/ (x.callee = c /\ x.calleeID = i))
      BY <2>1 DEF RoutesAreIndexed
    <2>5. /\ SameEnds(calls[c][i])
          /\ route'[calls[c][i]].live = (route[calls[c][i]].live /\ calls[c][i] \notin R)
      BY <2>2
    <2>6. /\ route'[calls[c][i]].live
          /\ \/ route'[calls[c][i]].caller = c /\ route'[calls[c][i]].callerID = i
             \/ route'[calls[c][i]].callee = c /\ route'[calls[c][i]].calleeID = i
      BY <2>3, <2>4, <2>5 DEF SameEnds
    <2> QED BY <2>1, <2>6
  <1>2. ASSUME NEW s \in Call, route'[s].live
        PROVE  /\ s <= made'
               /\ route'[s].caller \in Conn /\ route'[s].callerID \in Id
               /\ route'[s].callee \in Conn /\ route'[s].calleeID \in Id
               /\ calls'[route'[s].caller][route'[s].callerID] = s
               /\ calls'[route'[s].callee][route'[s].calleeID] = s
    <2>1. route[s].live /\ s \notin R /\ SameEnds(s)
      BY <1>2
    <2>2. /\ s <= made
          /\ route[s].caller \in Conn /\ route[s].callerID \in Id
          /\ route[s].callee \in Conn /\ route[s].calleeID \in Id
          /\ calls[route[s].caller][route[s].callerID] = s
          /\ calls[route[s].callee][route[s].calleeID] = s
      BY <2>1 DEF RoutesAreIndexed, Live
    <2>3. ASSUME NEW r \in R
          PROVE  /\ calls[route[r].caller][route[r].callerID] = r
                 /\ calls[route[r].callee][route[r].calleeID] = r
      BY DEF RoutesAreIndexed, Live
    <2>4. ASSUME NEW c \in Conn, NEW i \in Id, calls[c][i] = s PROVE calls'[c][i] = s
      BY <2>1, <2>3, <2>4 DEF Unindexed
    <2> QED BY <2>1, <2>2, <2>4 DEF SameEnds
  <1> QED BY <1>1, <1>2 DEF RoutesAreIndexed, Live

\* A step that changes neither index nor the ends of a call keeps the agreement.
LEMMA SameIndex ==
    ASSUME TypeOK, RoutesAreIndexed, UNCHANGED <<calls, made>>,
           \A r \in Call : SameEnds(r) /\ route'[r].live = route[r].live
    PROVE  RoutesAreIndexed'
  <1>1. \A c \in Conn, i \in Id : calls[c][i] # NoCall => calls[c][i] \in Call
    BY EntryType
  <1> QED BY <1>1 DEF RoutesAreIndexed, SameEnds, Live

\* The calls that terminateCallsForConnectionLocked takes out are in flight,
\* and it takes out every call the connection is part of.
LEMMA CallsOfAreLive ==
    ASSUME TypeOK, RoutesAreIndexed, NEW c \in Conn
    PROVE  /\ CallsOf(c) \in SUBSET Call
           /\ \A r \in Call : r \in CallsOf(c) <=>
                /\ route[r].live
                /\ route[r].caller = c \/ route[r].callee = c
  <1>1. ASSUME NEW r \in Call, r \in CallsOf(c)
        PROVE  route[r].live /\ (route[r].caller = c \/ route[r].callee = c)
    BY <1>1, NoCallIsNone DEF CallsOf, RoutesAreIndexed
  <1>2. ASSUME NEW r \in Call, route[r].live, route[r].caller = c \/ route[r].callee = c
        PROVE  r \in CallsOf(c)
    BY <1>2 DEF CallsOf, RoutesAreIndexed, Live
  <1> QED BY <1>1, <1>2 DEF CallsOf

\* Terminating changes whether calls are in flight, for exactly those calls.
LEMMA TerminateEffect ==
    ASSUME TypeOK, RoutesAreIndexed, NEW c \in Conn, TerminateCalls(c)
    PROVE  \A r \in Call : /\ SameEnds(r)
                           /\ route'[r].live = (route[r].live /\ r \notin CallsOf(c))
  <1> SUFFICES ASSUME NEW r \in Call
               PROVE  SameEnds(r) /\ route'[r].live = (route[r].live /\ r \notin CallsOf(c))
    OBVIOUS
  <1>1. route'[r] = Terminated(c)[r]
    BY DEF TerminateCalls
  <1>2. CASE r \in CallsOf(c)
    <2>1. Removed(r) \in Route
      BY RemovedType
    <2>2. route'[r] = Cancelled(Removed(r)) \/ route'[r] = Reported(Removed(r))
      BY <1>1, <1>2 DEF Terminated
    <2>3. \A y \in {Cancelled(Removed(r)), Reported(Removed(r))} :
            /\ y.caller = Removed(r).caller /\ y.callee = Removed(r).callee
            /\ y.callerID = Removed(r).callerID /\ y.calleeID = Removed(r).calleeID
            /\ y.live = Removed(r).live
      BY <2>1, ToldType
    <2>4. /\ route'[r].caller = Removed(r).caller /\ route'[r].callee = Removed(r).callee
          /\ route'[r].callerID = Removed(r).callerID
          /\ route'[r].calleeID = Removed(r).calleeID
          /\ route'[r].live = Removed(r).live
      BY <2>2, <2>3
    <2> QED BY <1>2, <2>4, RemovedType DEF SameEnds
  <1>3. CASE r \notin CallsOf(c)
    <2>1. route'[r] = route[r]
      BY <1>1, <1>3 DEF Terminated
    <2>2. route[r].live \in BOOLEAN
      BY DEF TypeOK, Route
    <2> QED BY <1>3, <2>1, <2>2 DEF SameEnds
  <1> QED BY <1>2, <1>3

\* Terminating a connection's calls keeps the indexes in agreement.
LEMMA TerminateKeepsIndex ==
    ASSUME TypeOK, RoutesAreIndexed, NEW c \in Conn, TerminateCalls(c), made' = made
    PROVE  RoutesAreIndexed'
  <1>1. CallsOf(c) \in SUBSET Call /\ \A r \in CallsOf(c) : route[r].live
    BY CallsOfAreLive
  <1> QED BY <1>1, TerminateEffect, RemovalKeepsIndex DEF TerminateCalls

\* A new call enters both indexes under identifiers nobody used.
LEMMA StartCallKeepsIndex ==
    ASSUME TypeOK, RoutesAreIndexed, NEW c \in Conn, NEW d \in Conn, NEW i \in Id,
           NEW j \in Id, NEW credit \in Credit, NEW told \in BOOLEAN,
           StartCall(c, d, i, j, credit, told)
    PROVE  RoutesAreIndexed'
  <1> DEFINE new == made + 1
  <1>1. /\ new \in Call /\ made' = new /\ new # NoCall
        /\ \A r \in Call : r <= made => r <= new /\ r # new
    BY LimitAssumption DEF StartCall, TypeOK, Call, NoCall
  <1>2. calls[c][i] = NoCall /\ calls[d][j] = NoCall
    <2>1. i \notin Used(c)
      BY DEF StartCall, MayCall
    <2>2. j \notin Used(d)
      BY DEF StartCall, NextCallID
    <2> QED BY <2>1, <2>2 DEF Used
  <1>3. /\ route'[new].caller = c /\ route'[new].callee = d
        /\ route'[new].callerID = i /\ route'[new].calleeID = j /\ route'[new].live
        /\ \A r \in Call : r # new => route'[r] = route[r]
    <2>1. route' = [route EXCEPT ![new] = NewRoute(c, d, i, j, credit)]
      BY DEF StartCall
    <2> QED BY <1>1, <2>1 DEF TypeOK, NewRoute
  <1>4. \A x \in Conn, k \in Id :
          calls'[x][k] = IF (x = c /\ k = i) \/ (x = d /\ k = j) THEN new ELSE calls[x][k]
    BY DEF StartCall
  <1> HIDE DEF new
  <1>5. ASSUME NEW x \in Conn, NEW k \in Id, calls'[x][k] # NoCall
        PROVE  LET y == route'[calls'[x][k]] IN
               y.live /\ ((y.caller = x /\ y.callerID = k) \/ (y.callee = x /\ y.calleeID = k))
    <2>1. CASE (x = c /\ k = i) \/ (x = d /\ k = j)
      BY <1>3, <1>4, <2>1
    <2>2. CASE ~((x = c /\ k = i) \/ (x = d /\ k = j))
      <3>1. calls'[x][k] = calls[x][k] /\ calls[x][k] \in Call
        BY <1>4, <1>5, <2>2, EntryType
      <3>2. LET y == route[calls[x][k]] IN
            y.live /\ ((y.caller = x /\ y.callerID = k) \/ (y.callee = x /\ y.calleeID = k))
        BY <1>5, <3>1 DEF RoutesAreIndexed
      <3>3. calls[x][k] # new
        <4>1. calls[x][k] <= made
          BY <3>1, <3>2 DEF RoutesAreIndexed, Live
        <4> QED BY <1>1, <3>1, <4>1
      <3> QED BY <1>3, <3>1, <3>2, <3>3
    <2> QED BY <2>1, <2>2
  <1>6. ASSUME NEW s \in Call, route'[s].live
        PROVE  /\ s <= made'
               /\ route'[s].caller \in Conn /\ route'[s].callerID \in Id
               /\ route'[s].callee \in Conn /\ route'[s].calleeID \in Id
               /\ calls'[route'[s].caller][route'[s].callerID] = s
               /\ calls'[route'[s].callee][route'[s].calleeID] = s
    <2>1. CASE s = new
      <3>1. new <= made'
        BY <1>1 DEF Call
      <3> QED BY <1>3, <1>4, <2>1, <3>1
    <2>2. CASE s # new
      <3>1. route'[s] = route[s]
        BY <1>3, <2>2
      <3>2. /\ s <= made
            /\ route[s].caller \in Conn /\ route[s].callerID \in Id
            /\ route[s].callee \in Conn /\ route[s].calleeID \in Id
            /\ calls[route[s].caller][route[s].callerID] = s
            /\ calls[route[s].callee][route[s].calleeID] = s
        BY <1>6, <3>1 DEF RoutesAreIndexed, Live
      <3>3. ASSUME NEW x \in Conn, NEW k \in Id, calls[x][k] = s PROVE calls'[x][k] = s
        BY <1>2, <1>4, <3>3, NoCallIsNone
      <3> QED BY <1>1, <3>1, <3>2, <3>3
    <2> QED BY <2>1, <2>2
  <1> QED BY <1>5, <1>6 DEF RoutesAreIndexed, Live

\* Ending one call in flight keeps the indexes in agreement.
LEMMA EndKeepsIndex ==
    ASSUME TypeOK, RoutesAreIndexed, NEW r \in Call, route[r].live,
           calls' = Unindexed({r}), made' = made,
           \A s \in Call : s # r => route'[s] = route[s],
           SameEnds(r), route'[r].live = FALSE
    PROVE  RoutesAreIndexed'
  <1>1. \A s \in Call : route[s].live \in BOOLEAN
    BY DEF TypeOK, Route
  <1>2. \A s \in Call : SameEnds(s) /\ route'[s].live = (route[s].live /\ s \notin {r})
    BY <1>1 DEF SameEnds
  <1> QED BY <1>2, RemovalKeepsIndex

\* What a handler of an existing call or its deadline does to the routes.
LEMMA ControlEffect ==
    ASSUME TypeOK, NEW c \in Conn, NEW i \in Id,
           \/ Answer(c, i) \/ CancelCall(c, i) \/ Stream(c, i)
           \/ \E more \in Credit : CreditCall(c, i, more)
    PROVE  /\ calls[c][i] \in Call /\ route[calls[c][i]].live /\ made' = made
           /\ \A s \in Call : s # calls[c][i] => route'[s] = route[s]
           /\ SameEnds(calls[c][i])
           /\ \/ route'[calls[c][i]].live = FALSE /\ calls' = Unindexed({calls[c][i]})
              \/ route'[calls[c][i]].live = route[calls[c][i]].live /\ calls' = calls
  <1> DEFINE r == calls[c][i]
  <1>1. r \in Call /\ route[r].live /\ made' = made
    <2>1. r # NoCall /\ route[r].live
      BY DEF Answer, Stream, CancelCall, CreditCall, MayAnswer, MayControl
    <2>2. made' = made
      BY DEF Answer, Stream, CancelCall, CreditCall
    <2> QED BY <2>1, <2>2, EntryType
  <1>2. /\ route[r] \in Route /\ Removed(r) \in Route
        /\ Removed(r).caller = route[r].caller /\ Removed(r).callee = route[r].callee
        /\ Removed(r).callerID = route[r].callerID
        /\ Removed(r).calleeID = route[r].calleeID
        /\ Removed(r).live = FALSE
    BY <1>1, RemovedType DEF TypeOK
  <1> HIDE DEF r
  <1>3. CASE Answer(c, i)
    <2>1. route' = [route EXCEPT ![r] = [Reported(Removed(r)) EXCEPT !.answered = TRUE]]
      BY <1>3 DEF Answer, r
    <2>2. /\ Reported(Removed(r)) \in Route
          /\ Reported(Removed(r)).caller = Removed(r).caller
          /\ Reported(Removed(r)).callee = Removed(r).callee
          /\ Reported(Removed(r)).callerID = Removed(r).callerID
          /\ Reported(Removed(r)).calleeID = Removed(r).calleeID
          /\ Reported(Removed(r)).live = Removed(r).live
      BY <1>2, ToldType
    <2>3. route'[r] = [Reported(Removed(r)) EXCEPT !.answered = TRUE]
      BY <1>1, <2>1 DEF TypeOK
    <2>4. SameEnds(r) /\ route'[r].live = FALSE
      BY <1>2, <2>2, <2>3 DEF SameEnds, Route
    <2>5. \A s \in Call : s # r => route'[s] = route[s]
      BY <2>1 DEF TypeOK
    <2> QED BY <1>1, <1>3, <2>4, <2>5 DEF Answer, r
  <1>4. CASE CancelCall(c, i)
    <2>1. route' = [route EXCEPT ![r] = Reported(Cancelled(Removed(r)))]
      BY <1>4 DEF CancelCall, r
    <2>2. \A y \in Route : /\ Reported(y).caller = y.caller /\ Reported(y).callee = y.callee
                           /\ Reported(y).callerID = y.callerID
                           /\ Reported(y).calleeID = y.calleeID /\ Reported(y).live = y.live
      BY ToldType
    <2>3. /\ Cancelled(Removed(r)) \in Route
          /\ Cancelled(Removed(r)).caller = Removed(r).caller
          /\ Cancelled(Removed(r)).callee = Removed(r).callee
          /\ Cancelled(Removed(r)).callerID = Removed(r).callerID
          /\ Cancelled(Removed(r)).calleeID = Removed(r).calleeID
          /\ Cancelled(Removed(r)).live = Removed(r).live
      BY <1>2, ToldType
    <2>4. route'[r] = Reported(Cancelled(Removed(r)))
      BY <1>1, <2>1 DEF TypeOK
    <2>5. SameEnds(r) /\ route'[r].live = FALSE
      BY <1>2, <2>2, <2>3, <2>4 DEF SameEnds
    <2>6. \A s \in Call : s # r => route'[s] = route[s]
      BY <2>1 DEF TypeOK
    <2> QED BY <1>1, <1>4, <2>5, <2>6 DEF CancelCall, r
  <1>5. CASE Stream(c, i)
    <2>1. route' = [route EXCEPT ![r].credit = @ - 1, ![r].streamed = @ + 1]
      BY <1>5 DEF Stream, r
    <2>2. SameEnds(r) /\ route'[r].live = route[r].live
      BY <1>1, <1>2, <2>1 DEF SameEnds, TypeOK, Route
    <2>3. \A s \in Call : s # r => route'[s] = route[s]
      BY <2>1 DEF TypeOK
    <2> QED BY <1>1, <1>5, <2>2, <2>3 DEF Stream, r
  <1>6. CASE \E more \in Credit : CreditCall(c, i, more)
    <2>0. PICK more \in Credit : CreditCall(c, i, more)
      BY <1>6
    <2>1. route' = [route EXCEPT ![r].credit = @ + more, ![r].granted = @ + more]
      BY <2>0 DEF CreditCall, r
    <2>2. SameEnds(r) /\ route'[r].live = route[r].live
      BY <1>1, <1>2, <2>1 DEF SameEnds, TypeOK, Route
    <2>3. \A s \in Call : s # r => route'[s] = route[s]
      BY <2>1 DEF TypeOK
    <2> QED BY <1>1, <2>0, <2>2, <2>3 DEF CreditCall, r
  <1> QED BY <1>3, <1>4, <1>5, <1>6

\* What the deadline's callback does to the routes.
LEMMA DeadlineEffect ==
    ASSUME TypeOK, NEW r \in Call, Deadline(r)
    PROVE  /\ UNCHANGED <<peer, slot, made>>
           /\ \A s \in Call : s # r => route'[s] = route[s]
           /\ SameEnds(r)
           /\ \/ route[r].live /\ route'[r].live = FALSE /\ calls' = Unindexed({r})
              \/ route'[r].live = route[r].live /\ calls' = calls
  <1>1. /\ route[r] \in Route /\ Removed(r) \in Route
        /\ Removed(r).caller = route[r].caller /\ Removed(r).callee = route[r].callee
        /\ Removed(r).callerID = route[r].callerID
        /\ Removed(r).calleeID = route[r].calleeID
        /\ Removed(r).live = FALSE
    BY RemovedType DEF TypeOK
  <1>2. CASE TimerFires(r)
    BY <1>1, <1>2 DEF TimerFires, SameEnds, TypeOK, Route
  <1>3. CASE ExpireTake(r)
    <2>1. CASE route[r].live
      <3>1. route' = [route EXCEPT ![r] = [Removed(r) EXCEPT !.timer = "cancelling"]]
        BY <1>3, <2>1 DEF ExpireTake
      <3>2. route'[r] = [Removed(r) EXCEPT !.timer = "cancelling"]
        BY <3>1 DEF TypeOK
      <3>3. SameEnds(r) /\ route'[r].live = FALSE
        BY <1>1, <3>2 DEF SameEnds, Route
      <3>4. \A s \in Call : s # r => route'[s] = route[s]
        BY <3>1 DEF TypeOK
      <3> QED BY <1>3, <2>1, <3>3, <3>4 DEF ExpireTake
    <2>2. CASE ~route[r].live
      <3>1. route' = [route EXCEPT ![r].timer = "done"] /\ calls' = calls
        BY <1>3, <2>2 DEF ExpireTake
      <3> QED BY <1>1, <1>3, <3>1 DEF ExpireTake, SameEnds, TypeOK, Route
    <2> QED BY <2>1, <2>2
  <1>4. CASE ExpireCancel(r)
    <2>1. route'[r] = [Cancelled(route[r]) EXCEPT !.timer = "reporting"]
      BY <1>4 DEF ExpireCancel, TypeOK
    <2>2. SameEnds(r) /\ route'[r].live = route[r].live
      BY <1>1, <2>1 DEF SameEnds, Cancelled, Route
    <2>3. \A s \in Call : s # r => route'[s] = route[s]
      BY <1>4 DEF ExpireCancel, TypeOK
    <2> QED BY <1>4, <2>2, <2>3 DEF ExpireCancel
  <1>5. CASE ExpireReport(r)
    <2>1. route'[r] = [Reported(route[r]) EXCEPT !.timer = "done"]
      BY <1>5 DEF ExpireReport, TypeOK
    <2>2. SameEnds(r) /\ route'[r].live = route[r].live
      BY <1>1, <2>1 DEF SameEnds, Reported, Route
    <2>3. \A s \in Call : s # r => route'[s] = route[s]
      BY <1>5 DEF ExpireReport, TypeOK
    <2> QED BY <1>5, <2>2, <2>3 DEF ExpireReport
  <1> QED BY <1>2, <1>3, <1>4, <1>5 DEF Deadline

\* Nobody has called at the start.
LEMMA InitIndex == Init => RoutesAreIndexed
  BY DEF Init, RoutesAreIndexed, Live, NoRoute

\* Every step keeps the indexes in agreement with the routes.
LEMMA IndexStep == TypeOK /\ RoutesAreIndexed /\ [Next]_vars => RoutesAreIndexed'
  <1> SUFFICES ASSUME TypeOK, RoutesAreIndexed, [Next]_vars PROVE RoutesAreIndexed'
    OBVIOUS
  <1>1. ASSUME UNCHANGED <<calls, route, made>> PROVE RoutesAreIndexed'
    BY <1>1 DEF RoutesAreIndexed, Live
  <1>2. ASSUME NEW c \in Conn, Life(c) PROVE RoutesAreIndexed'
    <2>1. CASE Attach(c)
      <3>1. CASE IsCoordinator(c) /\ slot[NameOf[c]].conn # None
        <4>1. /\ slot[NameOf[c]].conn \in Conn
              /\ TerminateCalls(slot[NameOf[c]].conn) /\ made' = made
          BY <2>1, <3>1, BindingAssumption DEF Attach, TypeOK, SlotRecord
        <4> QED BY <4>1, TerminateKeepsIndex
      <3>2. CASE ~(IsCoordinator(c) /\ slot[NameOf[c]].conn # None)
        BY <1>1, <2>1, <3>2 DEF Attach
      <3> QED BY <3>1, <3>2
    <2>2. CASE Detach(c)
      BY <2>2, TerminateKeepsIndex DEF Detach
    <2>3. CASE Fail(c) \/ ShutQueue(c) \/ Leave(c) \/ StopLeft(c) \/ StartDraining(c)
      BY <1>1, <2>3 DEF Fail, ShutQueue, Leave, StopLeft, StartDraining
    <2> QED BY <1>2, <2>1, <2>2, <2>3 DEF Life
  <1>3. ASSUME NEW c \in Conn, Request(c) PROVE RoutesAreIndexed'
    <2>1. CASE Read(c) \/ Refuse(c) \/ Declare(c)
      BY <1>1, <2>1 DEF Read, Refuse, Declare
    <2>2. CASE \E d \in Conn, i \in CallerIds, j \in Id :
                 \/ \E credit \in Credit, told \in BOOLEAN :
                      StartCall(c, d, i, j, credit, told)
                 \/ DispatchFails(c, d, i, j)
      <3>1. PICK d \in Conn, i \in CallerIds, j \in Id :
              \/ \E credit \in Credit, told \in BOOLEAN : StartCall(c, d, i, j, credit, told)
              \/ DispatchFails(c, d, i, j)
        BY <2>2
      <3>2. i \in Id
        BY LimitAssumption DEF Id
      <3>3. CASE DispatchFails(c, d, i, j)
        BY <1>1, <3>3 DEF DispatchFails
      <3> QED BY <3>1, <3>2, <3>3, StartCallKeepsIndex
    <2>3. CASE \E i \in Id : \/ Answer(c, i) \/ Stream(c, i) \/ CancelCall(c, i)
                             \/ \E more \in Credit \ {0} : CreditCall(c, i, more)
      <3>1. PICK i \in Id : \/ Answer(c, i) \/ Stream(c, i) \/ CancelCall(c, i)
                            \/ \E more \in Credit : CreditCall(c, i, more)
        BY <2>3
      <3>2. /\ calls[c][i] \in Call /\ route[calls[c][i]].live /\ made' = made
            /\ \A s \in Call : s # calls[c][i] => route'[s] = route[s]
            /\ SameEnds(calls[c][i])
            /\ \/ route'[calls[c][i]].live = FALSE /\ calls' = Unindexed({calls[c][i]})
               \/ route'[calls[c][i]].live = route[calls[c][i]].live /\ calls' = calls
        BY <3>1, ControlEffect
      <3>3. CASE route'[calls[c][i]].live = FALSE /\ calls' = Unindexed({calls[c][i]})
        BY <3>2, <3>3, EndKeepsIndex
      <3>4. CASE route'[calls[c][i]].live = route[calls[c][i]].live /\ calls' = calls
        <4>1. \A s \in Call : SameEnds(s) /\ route'[s].live = route[s].live
          BY <3>2, <3>4 DEF SameEnds
        <4> QED BY <3>2, <3>4, <4>1, SameIndex
      <3> QED BY <3>2, <3>3, <3>4
    <2> QED BY <1>3, <2>1, <2>2, <2>3 DEF Request
  <1>4. ASSUME NEW r \in Call, Deadline(r) PROVE RoutesAreIndexed'
    <2>1. /\ made' = made /\ \A s \in Call : s # r => route'[s] = route[s]
          /\ SameEnds(r)
          /\ \/ route[r].live /\ route'[r].live = FALSE /\ calls' = Unindexed({r})
             \/ route'[r].live = route[r].live /\ calls' = calls
      BY <1>4, DeadlineEffect
    <2>2. CASE route[r].live /\ route'[r].live = FALSE /\ calls' = Unindexed({r})
      BY <2>1, <2>2, EndKeepsIndex
    <2>3. CASE route'[r].live = route[r].live /\ calls' = calls
      <3>1. \A s \in Call : SameEnds(s) /\ route'[s].live = route[s].live
        BY <2>1, <2>3 DEF SameEnds
      <3> QED BY <2>1, <2>3, <3>1, SameIndex
    <2> QED BY <2>1, <2>2, <2>3
  <1>5. CASE UNCHANGED vars
    BY <1>1, <1>5 DEF vars
  <1> QED BY <1>2, <1>3, <1>4, <1>5 DEF Next

\* Whatever replacements, losses, answers, cancellations and deadlines
\* interleave, a call in flight is found under its identifier at both of its
\* ends and every identifier in use leads to such a call.
THEOREM IndexInvariant == Spec => []RoutesAreIndexed
  <1>1. Init => TypeOK /\ RoutesAreIndexed
    BY InitType, InitIndex
  <1>2. TypeOK /\ RoutesAreIndexed /\ [Next]_vars => TypeOK' /\ RoutesAreIndexed'
    BY TypeStep, IndexStep
  <1> QED BY <1>1, <1>2, PTL DEF Spec

----------------------------------------------------------------------------
\* Calls and sessions

SessionInv == SlotsAreAttached /\ CallsEndWithTheirPeers

\* No peer joins, leaves or is replaced in the step, and no call begins.
StillAround ==
    /\ \A c \in Conn : peer'[c].attached = peer[c].attached
    /\ \A n \in Name : slot'[n].conn = slot[n].conn

NoNewCall == \A r \in Call : SameEnds(r) /\ (route'[r].live => route[r].live)

\* Will c be gone after the step?
GoneAfter(c) == ~peer'[c].attached \/ (IsCoordinator(c) /\ slot'[NameOf[c]].conn # c)

\* Without arrivals, departures and new calls the sessions stay as they were.
LEMMA QuietKeepsSessions ==
    ASSUME TypeOK, RoutesAreIndexed, SessionInv, StillAround, NoNewCall
    PROVE  SessionInv'
  <1> USE BindingAssumption
  <1>1. \A c \in Conn : Gone(c)' <=> Gone(c)
    BY DEF StillAround, Gone, IsCoordinator
  <1>2. SlotsAreAttached'
    <2>1. \A n \in Name : slot[n].conn # None => slot[n].conn \in Conn
      BY DEF TypeOK, SlotRecord
    <2> QED BY <2>1 DEF SessionInv, SlotsAreAttached, StillAround, IsCoordinator
  <1>3. \A r \in Call : route[r].live => route[r].caller \in Conn /\ route[r].callee \in Conn
    BY DEF RoutesAreIndexed, Live
  <1>4. CallsEndWithTheirPeers'
    BY <1>1, <1>3 DEF SessionInv, CallsEndWithTheirPeers, NoNewCall, SameEnds, Live,
                      IsCoordinator
  <1> QED BY <1>2, <1>4 DEF SessionInv

\* An attach takes every call of the generation it replaces out first.
LEMMA AttachKeepsSessions ==
    ASSUME TypeOK, RoutesAreIndexed, SessionInv, NEW c \in Conn, Attach(c)
    PROVE  SessionInv'
  <1> USE BindingAssumption, ConnAssumption
  <1>1. /\ peer'[c].attached
        /\ \A x \in Conn : x # c => peer'[x] = peer[x]
    BY DEF Attach, TypeOK, PeerRecord
  <1>2. /\ IsCoordinator(c) => slot'[NameOf[c]] = [conn |-> c, ready |-> FALSE]
        /\ \A n \in Name : ~(IsCoordinator(c) /\ n = NameOf[c]) => slot'[n] = slot[n]
    BY DEF Attach, TypeOK
  <1>3. \A n \in Name : slot[n].conn # None => slot[n].conn \in Conn
    BY DEF TypeOK, SlotRecord
  <1>4. SlotsAreAttached'
    <2> SUFFICES ASSUME NEW n \in Name, slot'[n].conn # None
                 PROVE  LET x == slot'[n].conn IN
                        IsCoordinator(x) /\ NameOf[x] = n /\ peer'[x].attached
      BY DEF SlotsAreAttached, IsCoordinator
    <2>1. CASE IsCoordinator(c) /\ n = NameOf[c]
      BY <1>1, <1>2, <2>1
    <2>2. CASE ~(IsCoordinator(c) /\ n = NameOf[c])
      <3>1. slot'[n] = slot[n]
        BY <1>2, <2>2
      <3>2. LET x == slot[n].conn IN
            x \in Conn /\ IsCoordinator(x) /\ NameOf[x] = n /\ peer[x].attached
        BY <1>3, <3>1 DEF SessionInv, SlotsAreAttached
      <3>3. slot[n].conn = c \/ peer'[slot[n].conn] = peer[slot[n].conn]
        BY <1>1, <3>2
      <3> QED BY <1>1, <3>1, <3>2, <3>3
    <2> QED BY <2>1, <2>2
  <1>5. ASSUME NEW x \in Conn, ~Gone(x),
               ~(IsCoordinator(c) /\ IsCoordinator(x) /\ slot[NameOf[c]].conn = x)
        PROVE  ~GoneAfter(x)
    <2>1. peer'[x].attached
      BY <1>1, <1>5 DEF Gone
    <2>2. IsCoordinator(x) => slot'[NameOf[x]].conn = x
      BY <1>2, <1>5 DEF Gone
    <2> QED BY <2>1, <2>2 DEF GoneAfter
  <1>6. ASSUME NEW r \in Call, route'[r].live
        PROVE  /\ route[r].live /\ SameEnds(r)
               /\ IsCoordinator(c) /\ slot[NameOf[c]].conn # None =>
                    route[r].caller # slot[NameOf[c]].conn /\ route[r].callee # slot[NameOf[c]].conn
    <2>1. CASE IsCoordinator(c) /\ slot[NameOf[c]].conn # None
      <3>1. slot[NameOf[c]].conn \in Conn /\ TerminateCalls(slot[NameOf[c]].conn)
        BY <1>3, <2>1 DEF Attach
      <3>2. /\ SameEnds(r)
            /\ route'[r].live = (route[r].live /\ r \notin CallsOf(slot[NameOf[c]].conn))
        BY <3>1, TerminateEffect
      <3> QED BY <1>6, <3>1, <3>2, CallsOfAreLive
    <2>2. CASE ~(IsCoordinator(c) /\ slot[NameOf[c]].conn # None)
      BY <1>6, <2>2 DEF Attach, SameEnds
    <2> QED BY <2>1, <2>2
  <1>7. CallsEndWithTheirPeers'
    <2> SUFFICES ASSUME NEW r \in Call, route'[r].live
                 PROVE  /\ ~GoneAfter(route'[r].callee)
                        /\ IsCoordinator(route'[r].caller) => ~GoneAfter(route'[r].caller)
      BY DEF CallsEndWithTheirPeers, Live, IsCoordinator, Gone, GoneAfter
    <2>1. route[r].caller \in Conn /\ route[r].callee \in Conn
      BY <1>6 DEF RoutesAreIndexed, Live
    <2>2. /\ ~Gone(route[r].callee)
          /\ IsCoordinator(route[r].caller) => ~Gone(route[r].caller)
      BY <1>6 DEF SessionInv, CallsEndWithTheirPeers, Live
    <2>3. ~GoneAfter(route[r].callee)
      BY <1>5, <1>6, <2>1, <2>2
    <2>4. IsCoordinator(route[r].caller) => ~GoneAfter(route[r].caller)
      BY <1>5, <1>6, <2>1, <2>2
    <2> QED BY <1>6, <2>3, <2>4 DEF SameEnds
  <1> QED BY <1>4, <1>7 DEF SessionInv

\* A detach takes every call of its connection out first.
LEMMA DetachKeepsSessions ==
    ASSUME TypeOK, RoutesAreIndexed, SessionInv, NEW c \in Conn, Detach(c)
    PROVE  SessionInv'
  <1> USE BindingAssumption, ConnAssumption
  <1>1. \A x \in Conn : x # c => peer'[x] = peer[x]
    BY DEF Detach, TypeOK
  <1>2. \A n \in Name : slot'[n].conn = IF slot[n].conn = c THEN None ELSE slot[n].conn
    BY DEF Detach
  <1>3. \A n \in Name : slot[n].conn # None => slot[n].conn \in Conn
    BY DEF TypeOK, SlotRecord
  <1>4. SlotsAreAttached'
    <2> SUFFICES ASSUME NEW n \in Name, slot'[n].conn # None
                 PROVE  LET x == slot'[n].conn IN
                        IsCoordinator(x) /\ NameOf[x] = n /\ peer'[x].attached
      BY DEF SlotsAreAttached, IsCoordinator
    <2>1. slot'[n].conn = slot[n].conn /\ slot[n].conn # c /\ slot[n].conn \in Conn
      BY <1>2, <1>3
    <2>2. peer'[slot[n].conn] = peer[slot[n].conn]
      BY <1>1, <2>1
    <2> QED BY <2>1, <2>2 DEF SessionInv, SlotsAreAttached
  <1>5. ASSUME NEW x \in Conn, x # c, ~Gone(x) PROVE ~GoneAfter(x)
    <2>1. peer'[x].attached
      BY <1>1, <1>5 DEF Gone
    <2>2. IsCoordinator(x) => slot'[NameOf[x]].conn = x
      BY <1>2, <1>5 DEF Gone
    <2> QED BY <2>1, <2>2 DEF GoneAfter
  <1>6. CallsEndWithTheirPeers'
    <2> SUFFICES ASSUME NEW r \in Call, route'[r].live
                 PROVE  /\ ~GoneAfter(route'[r].callee)
                        /\ IsCoordinator(route'[r].caller) => ~GoneAfter(route'[r].caller)
      BY DEF CallsEndWithTheirPeers, Live, IsCoordinator, Gone, GoneAfter
    <2>1. /\ SameEnds(r) /\ route[r].live
          /\ route[r].caller # c /\ route[r].callee # c
      <3>1. SameEnds(r) /\ route'[r].live = (route[r].live /\ r \notin CallsOf(c))
        BY TerminateEffect DEF Detach
      <3> QED BY <3>1, CallsOfAreLive
    <2>2. route[r].caller \in Conn /\ route[r].callee \in Conn
      BY <2>1 DEF RoutesAreIndexed, Live
    <2>3. /\ ~Gone(route[r].callee)
          /\ IsCoordinator(route[r].caller) => ~Gone(route[r].caller)
      BY <2>1 DEF SessionInv, CallsEndWithTheirPeers, Live
    <2> QED BY <1>5, <2>1, <2>2, <2>3 DEF SameEnds
  <1> QED BY <1>4, <1>6 DEF SessionInv

\* A call starts only between peers that are in the home.
LEMMA StartCallKeepsSessions ==
    ASSUME TypeOK, RoutesAreIndexed, SessionInv, NEW c \in Conn, NEW d \in Conn,
           NEW i \in Id, NEW j \in Id, NEW credit \in Credit, NEW told \in BOOLEAN,
           StartCall(c, d, i, j, credit, told)
    PROVE  SessionInv'
  <1> USE BindingAssumption, ConnAssumption
  <1> DEFINE new == made + 1
  <1>1. /\ \A x \in Conn : peer'[x].attached = peer[x].attached
        /\ slot' = slot
    <2>0. \A x \in Conn : peer[x] \in PeerRecord
      BY Zenon DEF TypeOK
    <2>1. ASSUME told, NEW x \in Conn PROVE peer'[x].attached = peer[x].attached
      <3>1. peer' = [peer EXCEPT ![c].handler = "reading"]
        BY <2>1 DEF StartCall, Done
      <3> QED BY <2>0, <3>1 DEF TypeOK, PeerRecord
    <2>2. ASSUME ~told, NEW x \in Conn PROVE peer'[x].attached = peer[x].attached
      <3>1. peer' = [peer EXCEPT ![c] =
                [peer[c] EXCEPT !.phase = "Closed", !.shut = TRUE, !.handler = "left"]]
        BY <2>2 DEF StartCall, TypeOK
      <3>2. [peer[c] EXCEPT !.phase = "Closed", !.shut = TRUE, !.handler = "left"].attached
              = peer[c].attached
        BY <2>0 DEF PeerRecord
      <3>3. peer' [x] = IF x = c THEN [peer[c] EXCEPT !.phase = "Closed", !.shut = TRUE,
                                                      !.handler = "left"]
                        ELSE peer[x]
        BY <3>1, Zenon DEF TypeOK
      <3> QED BY <3>2, <3>3
    <2>3. slot' = slot
      BY DEF StartCall
    <2> QED BY <2>1, <2>2, <2>3
  <1>2. \A x \in Conn : GoneAfter(x) <=> Gone(x)
    BY <1>1 DEF Gone, GoneAfter
  <1>3. /\ new \in Call
        /\ route'[new].caller = c /\ route'[new].callee = d
        /\ \A r \in Call : r # new => route'[r] = route[r]
    <2>1. new \in Call
      BY LimitAssumption DEF StartCall, TypeOK, Call
    <2>2. route' = [route EXCEPT ![new] = NewRoute(c, d, i, j, credit)]
      BY DEF StartCall
    <2> QED BY <2>1, <2>2 DEF TypeOK, NewRoute
  <1> HIDE DEF new
  <1>4. ~Gone(d)
    <2>1. CASE IsCoordinator(d) /\ slot[NameOf[d]] = [conn |-> d, ready |-> TRUE]
      BY <2>1 DEF Gone, SessionInv, SlotsAreAttached
    <2>2. CASE RoleOf[d] = "user" /\ peer[d].attached
      BY <2>2 DEF Gone, IsCoordinator
    <2> QED BY <2>1, <2>2 DEF StartCall, MayCall, Target
  <1>5. IsCoordinator(c) => ~Gone(c)
    <2>1. Fenced(c)
      BY DEF StartCall, MayCall
    <2> QED BY <2>1 DEF Fenced, Gone, SessionInv, SlotsAreAttached
  <1>6. CallsEndWithTheirPeers'
    <2> SUFFICES ASSUME NEW r \in Call, route'[r].live
                 PROVE  /\ ~GoneAfter(route'[r].callee)
                        /\ IsCoordinator(route'[r].caller) => ~GoneAfter(route'[r].caller)
      BY DEF CallsEndWithTheirPeers, Live, IsCoordinator, Gone, GoneAfter
    <2>1. CASE r = new
      BY <1>2, <1>3, <1>4, <1>5, <2>1
    <2>2. CASE r # new
      <3>1. route'[r] = route[r] /\ route[r].live
        BY <1>3, <2>2
      <3>2. route[r].caller \in Conn /\ route[r].callee \in Conn
        BY <3>1 DEF RoutesAreIndexed, Live
      <3> QED BY <1>2, <3>1, <3>2 DEF SessionInv, CallsEndWithTheirPeers, Live
    <2> QED BY <2>1, <2>2
  <1>7. SlotsAreAttached'
    <2>1. \A n \in Name : slot[n].conn # None => slot[n].conn \in Conn
      BY DEF TypeOK, SlotRecord
    <2> QED BY <1>1, <2>1 DEF SessionInv, SlotsAreAttached, IsCoordinator
  <1> QED BY <1>6, <1>7 DEF SessionInv

\* Nobody is in the home at the start.
LEMMA InitSessions == Init => SessionInv
  BY BindingAssumption DEF Init, SessionInv, SlotsAreAttached, CallsEndWithTheirPeers, Live, NoRoute

\* Every step keeps calls within the sessions of their peers.
LEMMA SessionStep ==
    TypeOK /\ RoutesAreIndexed /\ SessionInv /\ [Next]_vars => SessionInv'
  <1> SUFFICES ASSUME TypeOK, RoutesAreIndexed, SessionInv, [Next]_vars PROVE SessionInv'
    OBVIOUS
  <1>1. ASSUME route' = route, StillAround PROVE SessionInv'
    BY <1>1, QuietKeepsSessions DEF NoNewCall, SameEnds
  <1>2. ASSUME NEW c \in Conn, Life(c) PROVE SessionInv'
    <2>1. CASE Fail(c) \/ ShutQueue(c) \/ Leave(c) \/ StopLeft(c) \/ StartDraining(c)
      <3>1. route' = route /\ slot' = slot
        BY <2>1 DEF Fail, ShutQueue, Leave, StopLeft, StartDraining
      <3>2. \A x \in Conn : peer'[x].attached = peer[x].attached
        <4>1. CASE StopLeft(c)
          <5>1. /\ [peer[c] EXCEPT !.phase = "Closed", !.shut = TRUE].attached = peer[c].attached
                /\ peer' = [peer EXCEPT ![c] = [peer[c] EXCEPT !.phase = "Closed",
                                                              !.shut = TRUE]]
            BY <4>1 DEF StopLeft, TypeOK, PeerRecord
          <5> QED BY <5>1 DEF TypeOK
        <4>2. CASE Fail(c)
          BY <4>2 DEF Fail, TypeOK, PeerRecord
        <4>3. CASE ShutQueue(c)
          BY <4>3 DEF ShutQueue, TypeOK, PeerRecord
        <4>4. CASE Leave(c)
          BY <4>4 DEF Leave, TypeOK, PeerRecord
        <4>5. CASE StartDraining(c)
          BY <4>5 DEF StartDraining, TypeOK, PeerRecord
        <4> QED BY <2>1, <4>1, <4>2, <4>3, <4>4, <4>5
      <3> QED BY <1>1, <3>1, <3>2 DEF StillAround
    <2> QED BY <1>2, <2>1, AttachKeepsSessions, DetachKeepsSessions DEF Life
  <1>3. ASSUME NEW c \in Conn, Request(c) PROVE SessionInv'
    <2>1. CASE Read(c) \/ Refuse(c)
      <3>1. \A x \in Conn : peer'[x].attached = peer[x].attached
        BY <2>1, ZenonT(40) DEF Read, Refuse, Done, TypeOK, PeerRecord
      <3> QED BY <1>1, <2>1, <3>1 DEF Read, Refuse, StillAround
    <2>2. CASE Declare(c)
      <3>1. \A x \in Conn : peer'[x].attached = peer[x].attached
        BY <2>2 DEF Declare, Done, TypeOK, PeerRecord
      <3>2. \A n \in Name : slot'[n].conn = slot[n].conn
        BY <2>2 DEF Declare, TypeOK, SlotRecord
      <3> QED BY <1>1, <2>2, <3>1, <3>2 DEF Declare, StillAround
    <2>3. CASE \E d \in Conn, i \in CallerIds, j \in Id :
                 \/ \E credit \in Credit, told \in BOOLEAN :
                      StartCall(c, d, i, j, credit, told)
                 \/ DispatchFails(c, d, i, j)
      <3>1. PICK d \in Conn, i \in CallerIds, j \in Id :
              \/ \E credit \in Credit, told \in BOOLEAN : StartCall(c, d, i, j, credit, told)
              \/ DispatchFails(c, d, i, j)
        BY <2>3
      <3>2. i \in Id
        BY LimitAssumption DEF Id
      <3>3. CASE DispatchFails(c, d, i, j)
        <4>1. ASSUME NEW x \in Conn PROVE peer'[x].attached = peer[x].attached
          <5>1. peer[x] \in PeerRecord
            BY Zenon DEF TypeOK
          <5>2. \/ peer'[x] = [[peer[x] EXCEPT !.phase = "Closed", !.shut = TRUE]
                               EXCEPT !.handler = IF x = c THEN "reading" ELSE @]
                \/ peer'[x] = [peer[x] EXCEPT !.handler = IF x = c THEN "reading" ELSE @]
            BY <3>3 DEF DispatchFails
          <5> QED BY <5>1, <5>2 DEF PeerRecord
        <4> QED BY <1>1, <3>3, <4>1 DEF DispatchFails, StillAround
      <3> QED BY <3>1, <3>2, <3>3, StartCallKeepsSessions
    <2>4. CASE \E i \in Id : \/ Answer(c, i) \/ Stream(c, i) \/ CancelCall(c, i)
                             \/ \E more \in Credit \ {0} : CreditCall(c, i, more)
      <3>1. PICK i \in Id : \/ Answer(c, i) \/ Stream(c, i) \/ CancelCall(c, i)
                            \/ \E more \in Credit : CreditCall(c, i, more)
        BY <2>4
      <3>2. /\ slot' = slot /\ Done(c)
        BY <3>1 DEF Answer, Stream, CancelCall, CreditCall
      <3>3. StillAround
        BY <3>2 DEF StillAround, Done, TypeOK, PeerRecord
      <3>4. /\ calls[c][i] \in Call /\ route[calls[c][i]].live
            /\ \A s \in Call : s # calls[c][i] => route'[s] = route[s]
            /\ SameEnds(calls[c][i])
        BY <3>1, ControlEffect
      <3>5. NoNewCall
        BY <3>4 DEF NoNewCall, SameEnds
      <3> QED BY <3>3, <3>5, QuietKeepsSessions
    <2> QED BY <1>3, <2>1, <2>2, <2>3, <2>4 DEF Request
  <1>4. ASSUME NEW r \in Call, Deadline(r) PROVE SessionInv'
    <2>1. /\ UNCHANGED <<peer, slot>> /\ SameEnds(r)
          /\ \A s \in Call : s # r => route'[s] = route[s]
          /\ route'[r].live = FALSE \/ route'[r].live = route[r].live
      BY <1>4, DeadlineEffect
    <2>2. StillAround /\ NoNewCall
      BY <2>1 DEF StillAround, NoNewCall, SameEnds
    <2> QED BY <2>2, QuietKeepsSessions
  <1>5. CASE UNCHANGED vars
    BY <1>1, <1>5 DEF vars, StillAround
  <1> QED BY <1>2, <1>3, <1>4, <1>5 DEF Next

\* A call never outlives the session of its callee, nor the coordinator
\* generation that made it, however many connections, slots and calls there are.
THEOREM CallsAndSessions == Spec => []CallsEndWithTheirPeers
  <1>1. Init => TypeOK /\ RoutesAreIndexed /\ SessionInv
    BY InitType, InitIndex, InitSessions
  <1>2. TypeOK /\ RoutesAreIndexed /\ SessionInv /\ [Next]_vars
          => TypeOK' /\ RoutesAreIndexed' /\ SessionInv'
    BY TypeStep, IndexStep, SessionStep
  <1>3. SessionInv => CallsEndWithTheirPeers
    BY DEF SessionInv
  <1> QED BY <1>1, <1>2, <1>3, PTL DEF Spec

----------------------------------------------------------------------------
\* Both ends of a call are told, once each

\* A read loop holds a request only of a connection that has attached.
PeersAreKnown ==
    \A c \in Conn : peer[c].handler \in {"serving", "answering"} => peer[c].phase # "new"

\* What a callRoute still owes its two ends: in flight, nobody has been told
\* and the deadline is armed or fired; under the deadline's callback, the
\* callee and then the caller are still to be told.  What was streamed and what
\* may still be is what was granted.
Balanced(x) ==
    /\ x.live =>
         x.ends = 0 /\ x.cancels = 0 /\ ~x.answered /\ x.timer \in {"armed", "fired"}
    /\ x.timer = "cancelling" => ~x.live /\ x.ends = 0 /\ x.cancels = 0 /\ ~x.answered
    /\ x.timer = "reporting" => ~x.live /\ x.ends = 0 /\ x.cancels = 1
    /\ x.streamed + x.credit = x.granted /\ x.credit \in Credit

\* The ends of a call are connections that have been in the home.
EndsAttached(r) ==
    /\ route[r].caller \in Conn /\ peer[route[r].caller].phase # "new"
    /\ route[r].callee \in Conn /\ peer[route[r].callee].phase # "new"

\* One route's part of BothEndsAreTold.
Told(r) == ~Live(r) =>
    /\ \/ route[r].ends = 1 \/ Gone(route[r].caller)
       \/ route[r].timer \in {"cancelling", "reporting"}
    /\ \/ route[r].answered \/ route[r].cancels = 1 \/ Gone(route[r].callee)
       \/ route[r].timer = "cancelling"

LedgerInv ==
    PeersAreKnown /\ \A r \in 1 .. made : Balanced(route[r]) /\ EndsAttached(r) /\ Told(r)

\* Nobody who attached becomes new again, nobody who left comes back, and only
\* a new connection enters a slot.
PeerMoves ==
    /\ \A x \in Conn : peer[x].phase # "new" =>
         peer'[x].phase # "new" /\ (peer'[x].attached => peer[x].attached)
    /\ \A n \in Name : slot'[n].conn # slot[n].conn =>
         slot'[n].conn = None \/ \E c \in Conn : slot'[n].conn = c /\ peer[c].phase = "new"

\* A connection that attached and is gone stays gone.
LEMMA GoneForGood ==
    ASSUME PeerMoves, NEW x \in Conn, peer[x].phase # "new", Gone(x)
    PROVE  GoneAfter(x)
  BY BindingAssumption, ConnAssumption DEF PeerMoves, Gone, GoneAfter

\* How one connection and the slots change in a step that lets nobody in.
Stays(x) ==
    /\ peer'[x].phase = peer[x].phase \/ (peer[x].phase # "new" /\ peer'[x].phase # "new")
    /\ peer'[x].attached => peer[x].attached
    /\ \/ peer'[x].handler = peer[x].handler \/ peer'[x].handler \in {"reading", "left"}
       \/ peer'[x].phase # "new"

\* Such a step moves no peer the wrong way.
LEMMA StaysMoves ==
    ASSUME PeersAreKnown, \A x \in Conn : Stays(x),
           \A n \in Name : slot'[n].conn = slot[n].conn \/ slot'[n].conn = None
    PROVE  PeersAreKnown' /\ PeerMoves
  BY DEF PeersAreKnown, Stays, PeerMoves

\* Returning to the next frame is such a step.
LEMMA DoneStays ==
    ASSUME TypeOK, NEW c \in Conn, Done(c), NEW x \in Conn
    PROVE  Stays(x)
  BY DEF Done, TypeOK, PeerRecord, Stays

\* A step of a connection's life moves no peer the wrong way.
LEMMA LifeMoves ==
    ASSUME TypeOK, PeersAreKnown, NEW c \in Conn, Life(c)
    PROVE  PeersAreKnown' /\ PeerMoves
  <1> USE BindingAssumption
  <1>0. \A x \in Conn : peer[x] \in PeerRecord
    BY Zenon DEF TypeOK
  <1>1. CASE Attach(c)
    <2>1. /\ peer[c].phase = "new" /\ peer'[c].phase = "Active"
          /\ \A x \in Conn : x # c => peer'[x] = peer[x]
      BY <1>1 DEF Attach, TypeOK, PeerRecord
    <2>2. \A n \in Name : slot'[n].conn = slot[n].conn \/ slot'[n].conn = c
      BY <1>1 DEF Attach, TypeOK
    <2>3. PeersAreKnown'
      BY <2>1 DEF PeersAreKnown
    <2> QED BY <2>1, <2>2, <2>3 DEF PeerMoves
  <1>2. CASE Detach(c)
    <2>1. ASSUME NEW x \in Conn PROVE Stays(x)
      BY <1>0, <1>2 DEF Detach, TypeOK, PeerRecord, Stays
    <2>2. \A n \in Name : slot'[n].conn = slot[n].conn \/ slot'[n].conn = None
      BY <1>2 DEF Detach
    <2> QED BY <2>1, <2>2, StaysMoves
  <1>3. CASE StopLeft(c)
    <2>1. peer' = [peer EXCEPT ![c] = [peer[c] EXCEPT !.phase = "Closed", !.shut = TRUE]]
      BY <1>3 DEF StopLeft, TypeOK
    <2>2. LET y == [peer[c] EXCEPT !.phase = "Closed", !.shut = TRUE] IN
          y.phase = "Closed" /\ y.attached = peer[c].attached /\ y.handler = "left"
      BY <1>0, <1>3 DEF StopLeft, PeerRecord
    <2> DEFINE y == [peer[c] EXCEPT !.phase = "Closed", !.shut = TRUE]
    <2>3. peer'[c] = y /\ \A x \in Conn : x # c => peer'[x] = peer[x]
      BY <2>1 DEF TypeOK
    <2> HIDE DEF y
    <2>4. y.phase = "Closed" /\ y.attached = peer[c].attached /\ y.handler = "left"
      BY <2>2 DEF y
    <2>5. PeersAreKnown'
      BY <2>3, <2>4 DEF PeersAreKnown
    <2> QED BY <1>3, <2>3, <2>4, <2>5 DEF StopLeft, PeerMoves
  <1>4. CASE Fail(c) \/ ShutQueue(c) \/ Leave(c) \/ StartDraining(c)
    <2>1. ASSUME NEW x \in Conn PROVE Stays(x)
      <3>1. CASE Fail(c)
        BY <1>0, <3>1 DEF Fail, TypeOK, PeerRecord, Stays
      <3>2. CASE ShutQueue(c)
        BY <1>0, <3>2 DEF ShutQueue, TypeOK, PeerRecord, Stays
      <3>3. CASE Leave(c)
        BY <1>0, <3>3 DEF Leave, TypeOK, PeerRecord, Stays
      <3>4. CASE StartDraining(c)
        BY <1>0, <3>4 DEF StartDraining, TypeOK, PeerRecord, Stays
      <3> QED BY <1>4, <3>1, <3>2, <3>3, <3>4
    <2>2. slot' = slot
      BY <1>4 DEF Fail, ShutQueue, Leave, StartDraining
    <2> QED BY <2>1, <2>2, StaysMoves
  <1> QED BY <1>1, <1>2, <1>3, <1>4 DEF Life

\* A new call moves no peer the wrong way.
LEMMA StartCallMoves ==
    ASSUME TypeOK, PeersAreKnown, NEW c \in Conn, NEW d \in Conn, NEW i, NEW j \in Id,
           NEW credit \in Credit, NEW told \in BOOLEAN, StartCall(c, d, i, j, credit, told)
    PROVE  PeersAreKnown' /\ PeerMoves
  <1>1. slot' = slot /\ peer[c].phase # "new"
    BY DEF StartCall, MayCall, PeersAreKnown
  <1>2. CASE told
    <2>1. \A x \in Conn : Stays(x)
      BY <1>2, DoneStays DEF StartCall
    <2> QED BY <1>1, <2>1, StaysMoves
  <1>3. CASE ~told
    <2> DEFINE y == [peer[c] EXCEPT !.phase = "Closed", !.shut = TRUE, !.handler = "left"]
    <2>1. peer' = [peer EXCEPT ![c] = y]
      BY <1>3 DEF StartCall, TypeOK
    <2>2. y.phase = "Closed" /\ y.attached = peer[c].attached /\ y.handler = "left"
      <3>1. peer[c] \in PeerRecord
        BY Zenon DEF TypeOK
      <3> QED BY <3>1 DEF PeerRecord
    <2> HIDE DEF y
    <2>3. peer'[c] = y /\ \A x \in Conn : x # c => peer'[x] = peer[x]
      BY <2>1 DEF TypeOK
    <2>4. PeersAreKnown'
      BY <2>2, <2>3 DEF PeersAreKnown
    <2> QED BY <1>1, <2>2, <2>3, <2>4 DEF PeerMoves
  <1> QED BY <1>2, <1>3

\* Nor does a request of another kind.
LEMMA RequestMoves ==
    ASSUME TypeOK, PeersAreKnown, NEW c \in Conn, Request(c)
    PROVE  PeersAreKnown' /\ PeerMoves
  <1> USE BindingAssumption
  <1>0. \A x \in Conn : peer[x] \in PeerRecord
    BY Zenon DEF TypeOK
  <1>1. CASE Read(c)
    <2>1. peer[c].phase # "new" /\ slot' = slot
      BY <1>1 DEF Read
    <2>2. ASSUME NEW x \in Conn
          PROVE  peer'[x].phase = peer[x].phase /\ peer'[x].attached = peer[x].attached
                 /\ (x # c => peer'[x] = peer[x])
      <3>1. PICK h : peer' = [peer EXCEPT ![c].handler = h]
        BY <1>1 DEF Read
      <3> QED BY <1>0, <3>1 DEF TypeOK, PeerRecord
    <2>3. \A x \in Conn : Stays(x)
      BY <2>1, <2>2 DEF Stays
    <2> QED BY <2>1, <2>3, StaysMoves
  <1>2. CASE Refuse(c)
    BY <1>2, DoneStays, StaysMoves DEF Refuse
  <1>3. CASE Declare(c)
    <2>1. \A n \in Name : slot'[n].conn = slot[n].conn
      BY <1>3 DEF Declare, TypeOK, SlotRecord
    <2> QED BY <1>3, <2>1, DoneStays, StaysMoves DEF Declare
  <1>4. ASSUME NEW d \in Conn, NEW i, NEW j \in Id, DispatchFails(c, d, i, j)
        PROVE  PeersAreKnown' /\ PeerMoves
    <2>1. peer[c].phase # "new" /\ peer[d].phase # "new" /\ slot' = slot
      BY <1>4 DEF DispatchFails, MayCall, Available, PeersAreKnown
    <2>2. ASSUME NEW x \in Conn PROVE Stays(x)
      <3>1. CASE x = d
        <4> DEFINE z == [peer[x] EXCEPT !.phase = "Closed", !.shut = TRUE]
        <4>1. z \in PeerRecord /\ z.phase = "Closed" /\ z.attached = peer[x].attached
          BY <1>0 DEF PeerRecord
        <4>2. peer'[x] = [z EXCEPT !.handler = IF x = c THEN "reading" ELSE @]
          BY <1>4, <3>1 DEF DispatchFails
        <4> HIDE DEF z
        <4>3. peer'[x].phase = "Closed" /\ peer'[x].attached = peer[x].attached
          BY <4>1, <4>2 DEF PeerRecord
        <4> QED BY <2>1, <3>1, <4>3 DEF Stays
      <3>2. CASE x # d
        <4>1. peer'[x] = [peer[x] EXCEPT !.handler = IF x = c THEN "reading" ELSE @]
          BY <1>4, <3>2 DEF DispatchFails
        <4> QED BY <1>0, <4>1 DEF PeerRecord, Stays
      <3> QED BY <3>1, <3>2
    <2> QED BY <2>1, <2>2, StaysMoves
  <1>5. CASE \E i \in Id : \/ Answer(c, i) \/ Stream(c, i) \/ CancelCall(c, i)
                           \/ \E more \in Credit \ {0} : CreditCall(c, i, more)
    <2>1. slot' = slot /\ Done(c)
      BY <1>5 DEF Answer, Stream, CancelCall, CreditCall
    <2> QED BY <2>1, DoneStays, StaysMoves
  <1> QED BY <1>1, <1>2, <1>3, <1>4, <1>5, StartCallMoves DEF Request

\* No step moves a peer the wrong way.
LEMMA PeerStep ==
    ASSUME TypeOK, PeersAreKnown, [Next]_vars
    PROVE  PeersAreKnown' /\ PeerMoves
  <1>1. CASE \E r \in Call : Deadline(r)
    <2>1. UNCHANGED <<peer, slot>>
      BY <1>1 DEF Deadline, TimerFires, ExpireTake, ExpireCancel, ExpireReport
    <2> QED BY <2>1 DEF PeersAreKnown, PeerMoves
  <1>2. CASE UNCHANGED vars
    BY <1>2 DEF vars, PeersAreKnown, PeerMoves
  <1> QED BY <1>1, <1>2, LifeMoves, RequestMoves DEF Next

\* The ways a step changes the ledger of a route from x to y.
SameStream(x, y) == y.streamed = x.streamed /\ y.credit = x.credit /\ y.granted = x.granted
SameTold(x, y) == y.ends = x.ends /\ y.cancels = x.cancels /\ y.answered = x.answered

\* Nobody is told anything: a frame of the stream, credit, or the timer.
Unended(x, y) ==
    /\ y.live = x.live /\ SameTold(x, y)
    /\ \/ y.timer = x.timer
       \/ x.timer = "armed" /\ y.timer = "fired"
       \/ x.timer = "fired" /\ ~x.live /\ y.timer = "done"
    /\ Balanced(x) => y.streamed + y.credit = y.granted /\ y.credit \in Credit
    /\ x.live \/ y.streamed = x.streamed

\* removeRouteLocked, by one of its callers: answer, cancellation, termination
\* for the caller or for the callee, or the deadline.
Over(x, y) == x.live /\ ~y.live /\ SameStream(x, y) /\ (Balanced(x) => y.timer \in {"stopped", "fired"})

Answered(x, y) == Over(x, y) /\ y.ends = x.ends + 1 /\ y.cancels = x.cancels /\ y.answered
CancelledBoth(x, y) ==
    Over(x, y) /\ y.ends = x.ends + 1 /\ y.cancels = x.cancels + 1 /\ y.answered = x.answered
CallerLost(x, y) ==
    /\ Over(x, y) /\ y.ends = x.ends /\ y.cancels = x.cancels + 1 /\ y.answered = x.answered
    /\ GoneAfter(x.caller)
CalleeLost(x, y) ==
    /\ Over(x, y) /\ y.ends = x.ends + 1 /\ y.cancels = x.cancels /\ y.answered = x.answered
    /\ GoneAfter(x.callee)
Taken(x, y) ==
    x.live /\ ~y.live /\ SameStream(x, y) /\ SameTold(x, y) /\ y.timer = "cancelling"

\* The deadline's callback after the lock.
CalleeTold(x, y) ==
    /\ x.timer = "cancelling" /\ y.timer = "reporting" /\ y.live = x.live /\ SameStream(x, y)
    /\ y.ends = x.ends /\ y.cancels = x.cancels + 1 /\ y.answered = x.answered
CallerTold(x, y) ==
    /\ x.timer = "reporting" /\ y.timer = "done" /\ y.live = x.live /\ SameStream(x, y)
    /\ y.ends = x.ends + 1 /\ y.cancels = x.cancels /\ y.answered = x.answered

LedgerStep(x, y) ==
    \/ Unended(x, y) \/ Answered(x, y) \/ CancelledBoth(x, y) \/ CallerLost(x, y)
    \/ CalleeLost(x, y) \/ Taken(x, y) \/ CalleeTold(x, y) \/ CallerTold(x, y)

\* A route that does not change is such a step.
LEMMA SameLedger == \A x : LedgerStep(x, x)
  BY DEF LedgerStep, Unended, SameTold, Balanced

\* Such a step keeps a route balanced.
LEMMA BalancedStep ==
    ASSUME NEW x \in Route, NEW y \in Route, Balanced(x), LedgerStep(x, y)
    PROVE  Balanced(y)
  <1>1. CASE Unended(x, y)
    BY <1>1 DEF Balanced, Unended, SameTold, Route
  <1>2. CASE Answered(x, y) \/ CancelledBoth(x, y) \/ CallerLost(x, y) \/ CalleeLost(x, y)
    <2>1. ~y.live /\ SameStream(x, y) /\ y.timer \in {"stopped", "fired"}
      BY <1>2 DEF Answered, CancelledBoth, CallerLost, CalleeLost, Over
    <2> QED BY <2>1 DEF Balanced, SameStream
  <1>3. CASE Taken(x, y)
    BY <1>3 DEF Balanced, Taken, SameStream, SameTold
  <1>4. CASE CalleeTold(x, y)
    BY <1>4 DEF Balanced, CalleeTold, SameStream
  <1>5. CASE CallerTold(x, y)
    BY <1>5 DEF Balanced, CallerTold, SameStream
  <1> QED BY <1>1, <1>2, <1>3, <1>4, <1>5 DEF LedgerStep

\* Once an end has been sent, no such step sends another, or an element.
LEMMA LedgerCloses ==
    ASSUME NEW x \in Route, NEW y \in Route, Balanced(x), LedgerStep(x, y)
    PROVE  /\ x.ends > 0 => y.ends = x.ends /\ y.streamed = x.streamed
           /\ x.answered \/ x.cancels > 0 =>
                y.cancels = x.cancels /\ y.answered = x.answered
  <1>1. CASE Unended(x, y)
    BY <1>1 DEF Balanced, Unended, SameTold, Route
  <1>2. CASE x.live
    BY <1>2 DEF Balanced, LedgerStep, Unended, SameTold, CalleeTold, CallerTold
  <1>3. CASE CalleeTold(x, y)
    BY <1>3 DEF Balanced, CalleeTold, SameStream
  <1>4. CASE CallerTold(x, y)
    BY <1>4 DEF Balanced, CallerTold, SameStream
  <1> QED BY <1>1, <1>2, <1>3, <1>4 DEF LedgerStep, Answered, CancelledBoth, CallerLost,
                                       CalleeLost, Over, Taken

\* Removing a route tells nobody and stops an armed timer.
LEMMA RemovedLedger ==
    ASSUME TypeOK, NEW r \in Call, route[r].live
    PROVE  /\ Removed(r) \in Route /\ Over(route[r], Removed(r))
           /\ SameTold(route[r], Removed(r))
  <1>1. route[r] \in Route
    BY DEF TypeOK
  <1>2. CASE route[r].timer = "armed"
    BY <1>1, <1>2, RemovedType DEF Removed, Route, Over, SameTold, SameStream, Balanced
  <1>3. CASE route[r].timer # "armed"
    BY <1>1, <1>3, RemovedType DEF Removed, Route, Over, SameTold, SameStream, Balanced
  <1> QED BY <1>2, <1>3

\* Telling an end counts the frame and nothing else.
LEMMA ToldLedger ==
    ASSUME NEW x \in Route
    PROVE  /\ Cancelled(x) \in Route /\ Reported(x) \in Route
           /\ LET y == Cancelled(x) IN
              /\ y.ends = x.ends /\ y.cancels = x.cancels + 1 /\ y.answered = x.answered
              /\ y.live = x.live /\ y.timer = x.timer /\ SameStream(x, y)
           /\ LET y == Reported(x) IN
              /\ y.ends = x.ends + 1 /\ y.cancels = x.cancels /\ y.answered = x.answered
              /\ y.live = x.live /\ y.timer = x.timer /\ SameStream(x, y)
  <1>1. Cancelled(x) \in Route /\ Reported(x) \in Route
    BY ToldType
  <1>2. LET y == Cancelled(x) IN
        /\ y.ends = x.ends /\ y.cancels = x.cancels + 1 /\ y.answered = x.answered
        /\ y.live = x.live /\ y.timer = x.timer /\ SameStream(x, y)
    BY DEF Cancelled, Route, SameStream
  <1>3. LET y == Reported(x) IN
        /\ y.ends = x.ends + 1 /\ y.cancels = x.cancels /\ y.answered = x.answered
        /\ y.live = x.live /\ y.timer = x.timer /\ SameStream(x, y)
    BY DEF Reported, Route, SameStream
  <1> QED BY <1>1, <1>2, <1>3

\* A step that ends a route and tells what it says.
LEMMA OverTold ==
    ASSUME NEW x \in Route, NEW w \in Route, NEW y \in Route, Over(x, w), SameTold(x, w),
           y.live = w.live, y.timer = w.timer, SameStream(w, y)
    PROVE  Over(x, y)
  BY DEF Over, SameStream

\* Terminating a connection's calls tells the other end of each; the end it
\* does not tell is the connection that goes.
LEMMA TerminateLedger ==
    ASSUME TypeOK, RoutesAreIndexed, NEW c \in Conn, TerminateCalls(c), GoneAfter(c),
           NEW r \in Call
    PROVE  LedgerStep(route[r], route'[r]) /\ SameEnds(r)
  <1>1. SameEnds(r)
    BY TerminateEffect
  <1>2. CASE r \notin CallsOf(c)
    <2>1. route'[r] = route[r]
      BY <1>2 DEF TerminateCalls, Terminated
    <2> QED BY <1>1, <2>1, SameLedger
  <1>3. CASE r \in CallsOf(c)
    <2> DEFINE w == Removed(r)
    <2>1. route[r].live /\ (route[r].caller = c \/ route[r].callee = c)
      BY <1>3, CallsOfAreLive
    <2>2. w \in Route /\ Over(route[r], w) /\ SameTold(route[r], w) /\ route[r] \in Route
      BY <2>1, RemovedLedger DEF TypeOK
    <2>3. route'[r] = IF route[r].caller = c THEN Cancelled(w) ELSE Reported(w)
      BY <1>3 DEF TerminateCalls, Terminated
    <2> HIDE DEF w
    <2>4. CASE route[r].caller = c
      <3>1. CallerLost(route[r], Cancelled(w))
        <4>1. Over(route[r], Cancelled(w))
          BY <2>2, ToldLedger, OverTold
        <4> QED BY <2>2, <2>4, <4>1, ToldLedger DEF CallerLost, SameTold
      <3> QED BY <1>1, <2>3, <2>4, <3>1 DEF LedgerStep
    <2>5. CASE route[r].caller # c
      <3>1. CalleeLost(route[r], Reported(w))
        <4>1. Over(route[r], Reported(w))
          BY <2>2, ToldLedger, OverTold
        <4> QED BY <2>1, <2>2, <2>5, <4>1, ToldLedger DEF CalleeLost, SameTold
      <3> QED BY <1>1, <2>3, <2>5, <3>1 DEF LedgerStep
    <2> QED BY <2>4, <2>5
  <1> QED BY <1>2, <1>3

\* A handler of a call that exists changes its ledger as it should.
LEMMA ControlLedger ==
    ASSUME TypeOK, NEW c \in Conn, NEW i \in Id, NEW more \in Credit,
           Answer(c, i) \/ Stream(c, i) \/ CancelCall(c, i) \/ CreditCall(c, i, more)
    PROVE  LedgerStep(route[calls[c][i]], route'[calls[c][i]])
  <1> USE LimitAssumption
  <1> DEFINE r == calls[c][i]
  <1> DEFINE w == Removed(r)
  <1>1. r \in Call /\ route[r] \in Route /\ route[r].live
    BY ControlEffect DEF TypeOK
  <1>2. w \in Route /\ Over(route[r], w) /\ SameTold(route[r], w)
    BY <1>1, RemovedLedger
  <1>3. Answer(c, i) => route' = [route EXCEPT ![r] = [Reported(w) EXCEPT !.answered = TRUE]]
    BY DEF Answer
  <1>4. CancelCall(c, i) => route' = [route EXCEPT ![r] = Reported(Cancelled(w))]
    BY DEF CancelCall
  <1>5. Stream(c, i) =>
          /\ route[r].credit > 0
          /\ route' = [route EXCEPT ![r] = [route[r] EXCEPT !.credit = @ - 1,
                                                            !.streamed = @ + 1]]
    BY <1>1 DEF Stream, TypeOK
  <1>6. CreditCall(c, i, more) =>
          /\ route[r].credit + more <= MaxCredit
          /\ route' = [route EXCEPT ![r] = [route[r] EXCEPT !.credit = @ + more,
                                                            !.granted = @ + more]]
    BY <1>1 DEF CreditCall, TypeOK
  <1>w. more \in Nat
    BY DEF Credit
  <1> HIDE DEF r, w
  <1>7. CASE Answer(c, i)
    <2> DEFINE v == Reported(w)
    <2>1. /\ v \in Route /\ v.ends = w.ends + 1 /\ v.cancels = w.cancels
          /\ v.live = w.live /\ v.timer = w.timer /\ SameStream(w, v)
      BY <1>2, ToldLedger
    <2>2. route'[r] = [v EXCEPT !.answered = TRUE]
      BY <1>1, <1>3, <1>7 DEF TypeOK
    <2> HIDE DEF v
    <2> DEFINE y == [v EXCEPT !.answered = TRUE]
    <2>3. /\ y \in Route /\ y.ends = v.ends /\ y.cancels = v.cancels /\ y.answered
          /\ y.live = v.live /\ y.timer = v.timer /\ SameStream(v, y)
      BY <2>1 DEF Route, SameStream
    <2>4. route'[r] = y
      BY <2>2
    <2> HIDE DEF y
    <2>5. Over(route[r], y)
      BY <1>1, <1>2, <2>1, <2>3, OverTold DEF SameStream
    <2>6. Answered(route[r], y)
      BY <1>2, <2>1, <2>3, <2>5 DEF Answered, SameTold
    <2> QED BY <2>4, <2>6 DEF LedgerStep, r
  <1>8. CASE CancelCall(c, i)
    <2> DEFINE v == Cancelled(w)
    <2>1. /\ v \in Route /\ v.ends = w.ends /\ v.cancels = w.cancels + 1
          /\ v.answered = w.answered
          /\ v.live = w.live /\ v.timer = w.timer /\ SameStream(w, v)
      BY <1>2, ToldLedger
    <2>2. route'[r] = Reported(v)
      BY <1>1, <1>4, <1>8 DEF TypeOK
    <2> HIDE DEF v
    <2> DEFINE y == Reported(v)
    <2>3. /\ y \in Route /\ y.ends = v.ends + 1 /\ y.cancels = v.cancels
          /\ y.answered = v.answered
          /\ y.live = v.live /\ y.timer = v.timer /\ SameStream(v, y)
      BY <2>1, ToldLedger
    <2>4. route'[r] = y
      BY <2>2
    <2> HIDE DEF y
    <2>5. Over(route[r], y)
      BY <1>1, <1>2, <2>1, <2>3, OverTold DEF SameStream
    <2>6. CancelledBoth(route[r], y)
      BY <1>2, <2>1, <2>3, <2>5 DEF CancelledBoth, SameTold
    <2> QED BY <2>4, <2>6 DEF LedgerStep, r
  <1>9. CASE Stream(c, i)
    <2> DEFINE x == route[r]
    <2> DEFINE y == [x EXCEPT !.credit = @ - 1, !.streamed = @ + 1]
    <2>1. route'[r] = y
      BY <1>1, <1>5, <1>9 DEF TypeOK
    <2>2. /\ y.live = x.live /\ SameTold(x, y) /\ y.timer = x.timer /\ y.granted = x.granted
          /\ y.credit = x.credit - 1 /\ y.streamed = x.streamed + 1
      BY <1>1 DEF Route, SameTold
    <2>3. x.credit > 0 /\ x \in Route /\ x.live
      BY <1>1, <1>5, <1>9
    <2> HIDE DEF x, y
    <2>4. Balanced(x) => y.streamed + y.credit = y.granted /\ y.credit \in Credit
      <3>1. x.credit \in Nat /\ x.streamed \in Nat /\ x.granted \in Nat
        BY <2>3 DEF Route
      <3>2. Balanced(x) => x.streamed + x.credit = x.granted /\ x.credit \in 0 .. MaxCredit
        BY DEF Balanced, Credit
      <3>3. x.streamed + x.credit = x.granted => y.streamed + y.credit = y.granted
        BY <2>2, <3>1
      <3>4. x.credit \in 0 .. MaxCredit => y.credit \in 0 .. MaxCredit
        BY <2>2, <2>3, <3>1
      <3> QED BY <3>2, <3>3, <3>4 DEF Credit
    <2>5. Unended(x, y)
      BY <2>2, <2>3, <2>4 DEF Unended
    <2> QED BY <2>1, <2>5 DEF LedgerStep, x, r
  <1>10. CASE CreditCall(c, i, more)
    <2> DEFINE x == route[r]
    <2> DEFINE y == [x EXCEPT !.credit = @ + more, !.granted = @ + more]
    <2>1. route'[r] = y
      BY <1>1, <1>6, <1>10 DEF TypeOK
    <2>2. /\ y.live = x.live /\ SameTold(x, y) /\ y.timer = x.timer
          /\ y.streamed = x.streamed
          /\ y.credit = x.credit + more /\ y.granted = x.granted + more
      BY <1>1 DEF Route, SameTold
    <2>3. x.credit + more <= MaxCredit /\ x \in Route /\ x.live
      BY <1>1, <1>6, <1>10
    <2> HIDE DEF x, y
    <2>4. Balanced(x) => y.streamed + y.credit = y.granted /\ y.credit \in Credit
      <3>1. x.credit \in Nat /\ x.streamed \in Nat /\ x.granted \in Nat
        BY <2>3 DEF Route
      <3>2. Balanced(x) => x.streamed + x.credit = x.granted
        BY DEF Balanced
      <3>3. x.streamed + x.credit = x.granted => y.streamed + y.credit = y.granted
        BY <1>w, <2>2, <3>1
      <3>4. y.credit \in 0 .. MaxCredit
        BY <1>w, <2>2, <2>3, <3>1
      <3> QED BY <3>2, <3>3, <3>4 DEF Credit
    <2>5. Unended(x, y)
      BY <2>2, <2>3, <2>4 DEF Unended
    <2> QED BY <2>1, <2>5 DEF LedgerStep, x, r
  <1> QED BY <1>7, <1>8, <1>9, <1>10

\* So does the deadline's callback.
LEMMA DeadlineLedger ==
    ASSUME TypeOK, NEW r \in Call, Deadline(r)
    PROVE  LedgerStep(route[r], route'[r])
  <1>1. route[r] \in Route
    BY DEF TypeOK
  <1>2. CASE TimerFires(r)
    <2>1. route'[r] = [route[r] EXCEPT !.timer = "fired"] /\ route[r].timer = "armed"
      BY <1>2 DEF TimerFires, TypeOK
    <2> QED BY <1>1, <2>1 DEF LedgerStep, Unended, SameTold, Balanced, Route
  <1>3. CASE ExpireTake(r)
    <2>1. CASE route[r].live
      <3> DEFINE w == Removed(r)
      <3>1. w \in Route /\ Over(route[r], w) /\ SameTold(route[r], w)
        BY <2>1, RemovedLedger
      <3>2. route'[r] = [w EXCEPT !.timer = "cancelling"]
        BY <1>3, <2>1 DEF ExpireTake, TypeOK
      <3> HIDE DEF w
      <3>3. /\ route'[r].live = w.live /\ SameTold(w, route'[r]) /\ SameStream(w, route'[r])
            /\ route'[r].timer = "cancelling"
        BY <3>1, <3>2 DEF Route, SameTold, SameStream
      <3>4. Taken(route[r], route'[r])
        BY <3>1, <3>3 DEF Taken, Over, SameTold, SameStream
      <3> QED BY <3>4 DEF LedgerStep
    <2>2. CASE ~route[r].live
      <3>1. route'[r] = [route[r] EXCEPT !.timer = "done"] /\ route[r].timer = "fired"
        BY <1>3, <2>2 DEF ExpireTake, TypeOK
      <3> QED BY <1>1, <2>2, <3>1 DEF LedgerStep, Unended, SameTold, Balanced, Route
    <2> QED BY <2>1, <2>2
  <1>4. CASE ExpireCancel(r)
    <2> DEFINE w == Cancelled(route[r])
    <2>1. /\ w \in Route /\ w.ends = route[r].ends /\ w.cancels = route[r].cancels + 1
          /\ w.answered = route[r].answered /\ w.live = route[r].live
          /\ SameStream(route[r], w)
      BY <1>1, ToldLedger
    <2>2. route'[r] = [w EXCEPT !.timer = "reporting"] /\ route[r].timer = "cancelling"
      BY <1>4 DEF ExpireCancel, TypeOK
    <2> HIDE DEF w
    <2>3. /\ route'[r].live = w.live /\ SameTold(w, route'[r]) /\ SameStream(w, route'[r])
          /\ route'[r].timer = "reporting"
      BY <2>1, <2>2 DEF Route, SameTold, SameStream
    <2>4. CalleeTold(route[r], route'[r])
      BY <2>1, <2>2, <2>3 DEF CalleeTold, SameTold, SameStream
    <2> QED BY <2>4 DEF LedgerStep
  <1>5. CASE ExpireReport(r)
    <2> DEFINE w == Reported(route[r])
    <2>1. /\ w \in Route /\ w.ends = route[r].ends + 1 /\ w.cancels = route[r].cancels
          /\ w.answered = route[r].answered /\ w.live = route[r].live
          /\ SameStream(route[r], w)
      BY <1>1, ToldLedger
    <2>2. route'[r] = [w EXCEPT !.timer = "done"] /\ route[r].timer = "reporting"
      BY <1>5 DEF ExpireReport, TypeOK
    <2> HIDE DEF w
    <2>3. /\ route'[r].live = w.live /\ SameTold(w, route'[r]) /\ SameStream(w, route'[r])
          /\ route'[r].timer = "done"
      BY <2>1, <2>2 DEF Route, SameTold, SameStream
    <2>4. CallerTold(route[r], route'[r])
      BY <2>1, <2>2, <2>3 DEF CallerTold, SameTold, SameStream
    <2> QED BY <2>4 DEF LedgerStep
  <1> QED BY <1>2, <1>3, <1>4, <1>5 DEF Deadline

\* The step begins no call, and changes the ledgers as it should.
LedgerOf(r) == LedgerStep(route[r], route'[r]) /\ SameEnds(r)
OldRoutes == made' = made /\ \A r \in 1 .. made : LedgerOf(r)

\* An attach ends the calls of the generation it replaces, whose connection is
\* not the one that attaches.
LEMMA AttachLedger ==
    ASSUME TypeOK, RoutesAreIndexed, SessionInv, LedgerInv, NEW c \in Conn, Attach(c)
    PROVE  OldRoutes
  <1> USE BindingAssumption, LimitAssumption
  <1>0. 1 .. made \subseteq Call
    BY DEF TypeOK, Call
  <1>1. ASSUME UNCHANGED <<route, made>> PROVE OldRoutes
    BY <1>1, SameLedger DEF OldRoutes, LedgerOf, SameEnds
  <1>2. CASE IsCoordinator(c) /\ slot[NameOf[c]].conn # None
    <2> DEFINE old == slot[NameOf[c]].conn
    <2>1. old \in Conn /\ TerminateCalls(old) /\ made' = made
      BY <1>2 DEF Attach, TypeOK, SlotRecord
    <2>2. peer[c].phase = "new" /\ slot'[NameOf[c]].conn = c
      <3>1. /\ peer[c].phase = "new"
            /\ slot' = [slot EXCEPT ![NameOf[c]] = [conn |-> c, ready |-> FALSE]]
        BY <1>2 DEF Attach
      <3>2. slot'[NameOf[c]] = [conn |-> c, ready |-> FALSE]
        BY <3>1 DEF TypeOK
      <3> QED BY <3>1, <3>2
    <2>3. IsCoordinator(old) /\ NameOf[old] = NameOf[c]
      BY <1>2 DEF SessionInv, SlotsAreAttached
    <2> HIDE DEF old
    <2>4. CASE old = c
      <3>1. ASSUME NEW r \in CallsOf(old) PROVE FALSE
        <4>1. r \in Call /\ route[r].live /\ (route[r].caller = c \/ route[r].callee = c)
          BY <2>1, <2>4, CallsOfAreLive
        <4>2. r <= made
          BY <4>1 DEF RoutesAreIndexed, Live
        <4>3. r \in 1 .. made
          BY <4>1, <4>2 DEF TypeOK, Call
        <4> QED BY <2>2, <4>1, <4>3 DEF LedgerInv, EndsAttached
      <3>2. route' = route
        BY <2>1, <3>1 DEF TerminateCalls, Terminated, TypeOK
      <3> QED BY <1>1, <2>1, <3>2
    <2>5. CASE old # c
      <3>1. GoneAfter(old)
        BY <2>2, <2>3, <2>5 DEF GoneAfter
      <3> QED BY <1>0, <2>1, <3>1, TerminateLedger DEF OldRoutes, LedgerOf
    <2> QED BY <2>4, <2>5
  <1>3. CASE ~(IsCoordinator(c) /\ slot[NameOf[c]].conn # None)
    BY <1>1, <1>3 DEF Attach
  <1> QED BY <1>2, <1>3

\* Every step that begins no call changes the ledgers as it should.
LEMMA OldLedgers ==
    ASSUME TypeOK, RoutesAreIndexed, SessionInv, LedgerInv, [Next]_vars
    PROVE  \/ OldRoutes
           \/ \E c, d \in Conn, i \in CallerIds, j \in Id, credit \in Credit,
                 told \in BOOLEAN : StartCall(c, d, i, j, credit, told)
  <1> USE BindingAssumption, LimitAssumption
  <1>0. 1 .. made \subseteq Call
    BY DEF TypeOK, Call
  <1>1. ASSUME UNCHANGED <<route, made>> PROVE OldRoutes
    BY <1>1, SameLedger DEF OldRoutes, LedgerOf, SameEnds
  <1>2. ASSUME NEW r \in Call, LedgerStep(route[r], route'[r]), SameEnds(r), made' = made,
               \A s \in Call : s # r => route'[s] = route[s]
        PROVE  OldRoutes
    <2>1. \A s \in 1 .. made : s = r \/ route'[s] = route[s]
      BY <1>0, <1>2
    <2> QED BY <1>2, <2>1, SameLedger DEF OldRoutes, LedgerOf, SameEnds
  <1>3. ASSUME NEW c \in Conn, Life(c) PROVE OldRoutes
    <2>1. CASE Detach(c)
      <3>1. GoneAfter(c) /\ TerminateCalls(c) /\ made' = made
        BY <2>1 DEF Detach, GoneAfter, TypeOK, PeerRecord
      <3> QED BY <1>0, <3>1, TerminateLedger DEF OldRoutes, LedgerOf
    <2>2. CASE Fail(c) \/ ShutQueue(c) \/ Leave(c) \/ StopLeft(c) \/ StartDraining(c)
      BY <1>1, <2>2 DEF Fail, ShutQueue, Leave, StopLeft, StartDraining
    <2> QED BY <1>3, <2>1, <2>2, AttachLedger DEF Life
  <1>4. ASSUME NEW c \in Conn, Read(c) \/ Refuse(c) \/ Declare(c) PROVE OldRoutes
    BY <1>1, <1>4 DEF Read, Refuse, Declare
  <1>5. ASSUME NEW c \in Conn, NEW d, NEW i, NEW j, DispatchFails(c, d, i, j)
        PROVE  OldRoutes
    BY <1>1, <1>5 DEF DispatchFails
  <1>6. ASSUME NEW c \in Conn, NEW i \in Id, NEW more \in Credit,
               Answer(c, i) \/ Stream(c, i) \/ CancelCall(c, i) \/ CreditCall(c, i, more)
        PROVE  OldRoutes
    <2>1. /\ calls[c][i] \in Call /\ made' = made /\ SameEnds(calls[c][i])
          /\ \A s \in Call : s # calls[c][i] => route'[s] = route[s]
      BY <1>6, ControlEffect
    <2>2. LedgerStep(route[calls[c][i]], route'[calls[c][i]])
      BY <1>6, ControlLedger
    <2> QED BY <1>2, <2>1, <2>2
  <1>7. ASSUME NEW r \in Call, Deadline(r) PROVE OldRoutes
    BY <1>2, <1>7, DeadlineEffect, DeadlineLedger
  <1>8. CASE UNCHANGED vars
    BY <1>1, <1>8 DEF vars
  <1>9. ASSUME NEW c \in Conn, Request(c)
         PROVE  \/ OldRoutes
                \/ \E d \in Conn, i \in CallerIds, j \in Id, credit \in Credit,
                      told \in BOOLEAN : StartCall(c, d, i, j, credit, told)
    <2>1. 0 \in Credit
      BY DEF Credit
    <2> QED BY <1>4, <1>5, <1>6, <1>9, <2>1 DEF Request
  <1> QED BY <1>3, <1>7, <1>8, <1>9 DEF Next

\* A call that is over stays told: what was sent stays sent, and who is gone
\* stays gone.
LEMMA ToldStep ==
    ASSUME TypeOK, TypeOK', PeerMoves, NEW r \in Call, Balanced(route[r]), EndsAttached(r),
           Told(r), LedgerOf(r)
    PROVE  Balanced(route'[r]) /\ EndsAttached(r)' /\ Told(r)'
  <1> DEFINE x == route[r]
             y == route'[r]
  <1>1. x \in Route /\ y \in Route /\ LedgerStep(x, y) /\ Balanced(x)
        /\ y.caller = x.caller /\ y.callee = x.callee
    BY DEF TypeOK, LedgerOf, SameEnds
  <1>2. /\ x.caller \in Conn /\ peer[x.caller].phase # "new"
        /\ x.callee \in Conn /\ peer[x.callee].phase # "new"
    BY DEF EndsAttached
  <1>3. /\ Gone(x.caller) => GoneAfter(x.caller)
        /\ Gone(x.callee) => GoneAfter(x.callee)
    BY <1>2, GoneForGood
  <1>4. ~x.live =>
          /\ x.ends = 1 \/ Gone(x.caller) \/ x.timer \in {"cancelling", "reporting"}
          /\ x.answered \/ x.cancels = 1 \/ Gone(x.callee) \/ x.timer = "cancelling"
    BY DEF Told, Live
  <1>5. Told(r)' <=> (~y.live =>
          /\ y.ends = 1 \/ GoneAfter(y.caller) \/ y.timer \in {"cancelling", "reporting"}
          /\ y.answered \/ y.cancels = 1 \/ GoneAfter(y.callee) \/ y.timer = "cancelling")
    BY DEF Told, Live, Gone, GoneAfter, IsCoordinator
  <1>6. EndsAttached(r)'
    BY <1>1, <1>2 DEF EndsAttached, PeerMoves
  <1> HIDE DEF x, y
  <1>7. Balanced(y)
    BY <1>1, BalancedStep
  <1>8. ASSUME ~y.live
        PROVE  /\ y.ends = 1 \/ GoneAfter(x.caller) \/ y.timer \in {"cancelling", "reporting"}
               /\ y.answered \/ y.cancels = 1 \/ GoneAfter(x.callee) \/ y.timer = "cancelling"
    <2>0. x.live => x.ends = 0 /\ x.cancels = 0
      BY <1>1 DEF Balanced
    <2>1. CASE Unended(x, y)
      BY <1>3, <1>4, <1>8, <2>1 DEF Unended, SameTold
    <2>2. CASE Answered(x, y)
      BY <2>0, <2>2 DEF Answered, Over
    <2>3. CASE CancelledBoth(x, y)
      BY <2>0, <2>3 DEF CancelledBoth, Over
    <2>4. CASE CallerLost(x, y)
      BY <2>0, <2>4 DEF CallerLost, Over
    <2>5. CASE CalleeLost(x, y)
      BY <2>0, <2>5 DEF CalleeLost, Over
    <2>6. CASE Taken(x, y)
      BY <2>6 DEF Taken
    <2>7. CASE CalleeTold(x, y)
      BY <1>1, <2>7 DEF CalleeTold, Balanced
    <2>8. CASE CallerTold(x, y)
      <3>1. y.ends = 1 /\ y.cancels = 1
        BY <1>1, <2>8 DEF CallerTold, Balanced
      <3> QED BY <3>1
    <2> QED BY <1>1, <2>1, <2>2, <2>3, <2>4, <2>5, <2>6, <2>7, <2>8 DEF LedgerStep
  <1> QED BY <1>1, <1>5, <1>6, <1>7, <1>8 DEF y

\* A new call owes both its ends everything.
LEMMA StartCallLedger ==
    ASSUME TypeOK, TypeOK', LedgerInv, PeersAreKnown', PeerMoves,
           NEW c \in Conn, NEW d \in Conn, NEW i, NEW j \in Id,
           NEW credit \in Credit, NEW told \in BOOLEAN, StartCall(c, d, i, j, credit, told)
    PROVE  LedgerInv'
  <1> USE LimitAssumption
  <1> DEFINE new == made + 1
  <1>1. new \in Call /\ made' = new /\ 1 .. new = (1 .. made) \cup {new}
        /\ 1 .. made \subseteq Call /\ new \notin 1 .. made
    BY DEF StartCall, TypeOK, Call
  <1>2. route' = [route EXCEPT ![new] = NewRoute(c, d, i, j, credit)]
    BY DEF StartCall
  <1>3. peer[c].phase # "new" /\ peer[d].phase # "new"
    BY DEF StartCall, MayCall, Available, LedgerInv, PeersAreKnown
  <1> HIDE DEF new
  <1>4. route'[new] = NewRoute(c, d, i, j, credit)
        /\ \A r \in Call : r # new => route'[r] = route[r]
    BY <1>1, <1>2 DEF TypeOK
  <1>5. ASSUME NEW r \in Call, r = new
        PROVE  Balanced(route'[r]) /\ EndsAttached(r)' /\ Told(r)'
    <2>1. Balanced(NewRoute(c, d, i, j, credit))
      BY DEF Balanced, NewRoute, Credit
    <2>2. /\ route'[r].caller = c /\ route'[r].callee = d /\ route'[r].live
      BY <1>4, <1>5 DEF NewRoute
    <2>3. EndsAttached(r)'
      BY <1>3, <2>2 DEF EndsAttached, PeerMoves
    <2>4. Told(r)'
      BY <2>2 DEF Told, Live
    <2> QED BY <1>4, <1>5, <2>1, <2>3, <2>4
  <1>6. ASSUME NEW r \in 1 .. made
        PROVE  Balanced(route'[r]) /\ EndsAttached(r)' /\ Told(r)'
    <2>1. LedgerOf(r) /\ r \in Call
      BY <1>1, <1>4, SameLedger DEF LedgerOf, SameEnds
    <2>2. Balanced(route[r]) /\ EndsAttached(r) /\ Told(r)
      BY DEF LedgerInv
    <2> QED BY <2>1, <2>2, ToldStep
  <1>7. ASSUME NEW r \in 1 .. made'
        PROVE  Balanced(route'[r]) /\ EndsAttached(r)' /\ Told(r)'
    BY <1>1, <1>5, <1>6
  <1> QED BY <1>7 DEF LedgerInv

\* Every step keeps the ledgers, and what it does to a route is a ledger step.
LEMMA LedgerKept ==
    TypeOK /\ TypeOK' /\ RoutesAreIndexed /\ SessionInv /\ LedgerInv /\ [Next]_vars
      => LedgerInv' /\ \A r \in 1 .. made : LedgerOf(r)
  <1> SUFFICES ASSUME TypeOK, TypeOK', RoutesAreIndexed, SessionInv, LedgerInv, [Next]_vars
               PROVE  LedgerInv' /\ \A r \in 1 .. made : LedgerOf(r)
    OBVIOUS
  <1> USE LimitAssumption
  <1>0. 1 .. made \subseteq Call
    BY DEF TypeOK, Call
  <1>1. PeersAreKnown' /\ PeerMoves
    BY PeerStep DEF LedgerInv
  <1>2. CASE OldRoutes
    <2>1. ASSUME NEW r \in 1 .. made
          PROVE  Balanced(route'[r]) /\ EndsAttached(r)' /\ Told(r)'
      BY <1>0, <1>1, <1>2, ToldStep DEF OldRoutes, LedgerInv
    <2> QED BY <1>1, <1>2, <2>1 DEF OldRoutes, LedgerInv
  <1>3. ASSUME NEW c \in Conn, NEW d \in Conn, NEW i \in CallerIds, NEW j \in Id,
               NEW credit \in Credit, NEW told \in BOOLEAN,
               StartCall(c, d, i, j, credit, told)
        PROVE  LedgerInv' /\ \A r \in 1 .. made : LedgerOf(r)
    <2>1. LedgerInv'
      BY <1>1, <1>3, StartCallLedger
    <2>2. \A r \in 1 .. made : route'[r] = route[r]
      <3>1. route' = [route EXCEPT ![made + 1] = NewRoute(c, d, i, j, credit)]
        BY <1>3 DEF StartCall
      <3>2. made + 1 \notin 1 .. made
        BY DEF TypeOK, Call
      <3> QED BY <1>0, <3>1, <3>2 DEF TypeOK
    <2> QED BY <2>1, <2>2, SameLedger DEF LedgerOf, SameEnds
  <1> QED BY <1>2, <1>3, OldLedgers DEF OldRoutes

\* Nobody has called at the start.
LEMMA InitLedger == Init => LedgerInv
  BY DEF Init, LedgerInv, PeersAreKnown, NewPeer

\* The inductive invariant behind the three theorems below.
RoutingInv == TypeOK /\ RoutesAreIndexed /\ SessionInv /\ LedgerInv

LEMMA RoutingInvariant == Spec => []RoutingInv
  <1>1. Init => RoutingInv
    BY InitType, InitIndex, InitSessions, InitLedger DEF RoutingInv
  <1>2. RoutingInv /\ [Next]_vars => RoutingInv'
    BY TypeStep, IndexStep, SessionStep, LedgerKept DEF RoutingInv
  <1> QED BY <1>1, <1>2, PTL DEF Spec

\* Whichever of an answer, a cancellation, the deadline, a lost peer and a
\* replacement ends a call, each end of it is told by removeRouteLocked's
\* caller or is gone, or the deadline's callback is about to tell it.
THEOREM EndsAreTold == Spec => []BothEndsAreTold
  <1>1. RoutingInv => BothEndsAreTold
    BY DEF RoutingInv, LedgerInv, BothEndsAreTold, Told
  <1> QED BY <1>1, RoutingInvariant, PTL

\* No caller's grants and no order of stream frames and credit frames makes the
\* relay forward more than was granted, or hold more than MaxStreamCredit.
THEOREM CreditIsKept == Spec => []StreamsStayWithinCredit
  <1>1. RoutingInv => StreamsStayWithinCredit
    BY DEF RoutingInv, LedgerInv, Balanced, StreamsStayWithinCredit
  <1> QED BY <1>1, RoutingInvariant, PTL

\* The race of everything that can end a call has one winner: the others find
\* the call gone and send nothing.
THEOREM OneEndOnly == Spec => NothingFollowsTheEnd
  <1>1. RoutingInv /\ RoutingInv' /\ [Next]_vars =>
          [\A r \in 1 .. made :
             /\ route[r].ends > 0 =>
                  route'[r].ends = route[r].ends /\ route'[r].streamed = route[r].streamed
             /\ route[r].answered \/ route[r].cancels > 0 =>
                  route'[r].cancels = route[r].cancels
                  /\ route'[r].answered = route[r].answered]_vars
    <2> SUFFICES ASSUME RoutingInv, RoutingInv', [Next]_vars, NEW r \in 1 .. made
                 PROVE  /\ route[r].ends > 0 =>
                             /\ route'[r].ends = route[r].ends
                             /\ route'[r].streamed = route[r].streamed
                        /\ route[r].answered \/ route[r].cancels > 0 =>
                             /\ route'[r].cancels = route[r].cancels
                             /\ route'[r].answered = route[r].answered
      OBVIOUS
    <2>1. r \in Call
      BY LimitAssumption DEF RoutingInv, TypeOK, Call
    <2>2. LedgerOf(r)
      BY LedgerKept DEF RoutingInv
    <2>3. Balanced(route[r]) /\ route[r] \in Route /\ route'[r] \in Route
      BY <2>1 DEF RoutingInv, LedgerInv, TypeOK
    <2> QED BY <2>2, <2>3, LedgerCloses DEF LedgerOf
  <1> QED BY <1>1, RoutingInvariant, PTL DEF Spec, NothingFollowsTheEnd

==============================================================================
