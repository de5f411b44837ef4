----------------------------- MODULE CallRouting -----------------------------
(***************************************************************************)
(* Function calls routed between the peers of one home: the caller's and   *)
(* the callee's call indexes, connection-local call numbers, stream        *)
(* credit, cancellation, deadlines, and what replacement, loss and         *)
(* draining of a peer do to the calls in flight.                           *)
(*                                                                         *)
(* Sources: internal/relay/calls.go, with the parts of connection.go and   *)
(* home.go that decide who may call and when calls are terminated.         *)
(*                                                                         *)
(* A handler first tests the connection's phase (Read) and only then takes *)
(* home.mu; what it does under the lock is one action.  A route's timer    *)
(* callback removes the route under the lock and writes to the two peers   *)
(* after releasing it.  The history fields ends, cancels and answered      *)
(* count the frames addressed to a peer: terminal frames to the caller,    *)
(* CALL_CANCEL to the callee, and whether the callee ended the call.       *)
(* `accepted` is set before startCall releases the lock, so no other       *)
(* section sees it false and the branches on !accepted are unreachable.    *)
(***************************************************************************)
EXTENDS Integers, FiniteSets

CONSTANTS
    Conn,          \* the connections of the home, each used once
    RoleOf,        \* [Conn -> Role], the authenticated role
    NameOf,        \* [Conn -> Name], a coordinator's slot name
    Name,
    None,          \* no connection
    MaxCalls,      \* calls ever routed (bound of the model)
    MaxCallId,     \* largest call identifier; the code has 2^53 - 1
    MaxGranted,    \* credit a caller ever grants a call (bound of the model)
    CallerIds,     \* the identifiers callers pick (bound of the model)
    MaxInflight,   \* protocol.MaxInflightCalls
    MaxCredit,     \* protocol.MaxStreamCredit
    Drains         \* whether the server announces a drain window

Role == {"user", "coordinator", "cli"}
Id == 1 .. MaxCallId
Call == 1 .. MaxCalls
NoCall == 0
Credit == 0 .. MaxCredit

ASSUME ConnAssumption == IsFiniteSet(Conn) /\ None \notin Conn
ASSUME BindingAssumption == RoleOf \in [Conn -> Role] /\ NameOf \in [Conn -> Name]
ASSUME LimitAssumption ==
    /\ MaxCalls \in Nat /\ MaxCallId \in Nat /\ MaxInflight \in Nat
    /\ MaxCredit \in Nat /\ MaxGranted \in Nat
    /\ CallerIds \subseteq Id /\ Drains \in BOOLEAN

VARIABLES
    peer,    \* [Conn -> PeerRecord], struct connection
    slot,    \* [Name -> SlotRecord], home.coordinators
    calls,   \* [Conn -> [Id -> Call or NoCall]], connection.calls
    nextID,  \* [Conn -> 0..MaxCallId], connection.nextCallID
    route,   \* [Call -> Route], the callRoute objects in order of creation
    made     \* callRoute objects created so far

vars == <<peer, slot, calls, nextID, route, made>>

----------------------------------------------------------------------------
\* State shapes

\* shut is queueClosed or closeQueued; attached is membership of
\* home.connections; handler is where the read loop is: between frames, past
\* the phase test with any request or with answers only, or gone.
PeerRecord ==
    [phase : {"new", "Active", "Draining", "Closed"}, shut : BOOLEAN, attached : BOOLEAN,
     handler : {"reading", "serving", "answering", "left"}]

SlotRecord == [conn : Conn \cup {None}, ready : BOOLEAN]

\* live is the negation of terminal; a fired timer waits for the lock, then
\* cancels at the callee and reports to the caller.
Route ==
    [caller : Conn \cup {None}, callee : Conn \cup {None}, callerID : Nat, calleeID : Nat,
     credit : Nat, live : BOOLEAN,
     timer : {"none", "armed", "stopped", "fired", "cancelling", "reporting", "done"},
     granted : Nat, streamed : Nat, ends : Nat, cancels : Nat, answered : BOOLEAN]

NewPeer == [phase |-> "new", shut |-> FALSE, attached |-> FALSE, handler |-> "reading"]
NoRoute ==
    [caller |-> None, callee |-> None, callerID |-> 0, calleeID |-> 0, credit |-> 0,
     live |-> FALSE, timer |-> "none", granted |-> 0, streamed |-> 0, ends |-> 0,
     cancels |-> 0, answered |-> FALSE]

\* The shape of the state: connection, coordinatorSlot and callRoute.
TypeOK ==
    /\ peer \in [Conn -> PeerRecord]
    /\ slot \in [Name -> SlotRecord]
    /\ calls \in [Conn -> [Id -> Call \cup {NoCall}]]
    /\ nextID \in [Conn -> Id \cup {0}]
    /\ route \in [Call -> Route]
    /\ made \in Call \cup {0}

Init ==
    /\ peer = [c \in Conn |-> NewPeer]
    /\ slot = [n \in Name |-> [conn |-> None, ready |-> FALSE]]
    /\ calls = [c \in Conn |-> [i \in Id |-> NoCall]]
    /\ nextID = [c \in Conn |-> 0]
    /\ route = [r \in Call |-> NoRoute]
    /\ made = 0

----------------------------------------------------------------------------
\* The predicates the code tests

IsCoordinator(c) == RoleOf[c] = "coordinator"
Available(c) == peer[c].phase = "Active"
Used(c) == {i \in Id : calls[c][i] # NoCall}

\* A coordinator's frame takes effect only from the slot's current, ready
\* generation; other roles pass.
Fenced(c) == IsCoordinator(c) => slot[NameOf[c]] = [conn |-> c, ready |-> TRUE]

\* Who a call of c may reach: the owner of the function through its slot, and
\* for the owner itself any session of a user.
Target(c, d) ==
    \/ /\ IsCoordinator(d)
       /\ slot[NameOf[d]] = [conn |-> d, ready |-> TRUE]
    \/ /\ IsCoordinator(c)
       /\ RoleOf[d] = "user" /\ peer[d].attached

\* The identifier the relay gives a call at its callee: the next one after
\* nextCallID, from 1 again past the largest, that the callee does not use.
NextCallID(c, i) ==
    LET free == Id \ Used(c)
        later == {j \in free : j > nextID[c]}
    IN  IF later # {} THEN i \in later /\ \A j \in later : i <= j
        ELSE i \in free /\ \A j \in free : i <= j

\* removeRouteLocked of a set of routes: both index entries are deleted by
\* identifier, and the timers stopped unless they have fired.
Unindexed(R) ==
    [c \in Conn |-> [i \in Id |->
        IF \E r \in R : \/ route[r].caller = c /\ route[r].callerID = i
                        \/ route[r].callee = c /\ route[r].calleeID = i
        THEN NoCall ELSE calls[c][i]]]

Removed(r) ==
    [route[r] EXCEPT !.live = FALSE, !.timer = IF @ = "armed" THEN "stopped" ELSE @]

\* A route whose two ends are told: the callee CALL_CANCEL, the caller an end.
Cancelled(x) == [x EXCEPT !.cancels = @ + 1]
Reported(x) == [x EXCEPT !.ends = @ + 1]

CallsOf(c) == {r \in Call : \E i \in Id : calls[c][i] = r}

\* Mutant: a callee is not told that its caller is gone.
TerminatedQuietly(c) ==
    [r \in Call |->
        IF r \notin CallsOf(c) THEN route[r]
        ELSE IF route[r].caller = c THEN Removed(r) ELSE Reported(Removed(r))]

\* terminateCallsForConnectionLocked: the other end of every call of c is told.
Terminated(c) ==
    [r \in Call |->
        IF r \notin CallsOf(c) THEN route[r]
        ELSE IF route[r].caller = c THEN Cancelled(Removed(r)) ELSE Reported(Removed(r))]

TerminateCalls(c) ==
    /\ route' = Terminated(c)
    /\ calls' = Unindexed(CallsOf(c))

----------------------------------------------------------------------------
\* Connections

\* Mutant: a replacement leaves the calls of the connection it replaces.
AttachKeepsCalls(c) ==
    /\ peer[c].phase = "new"
    /\ peer' = [peer EXCEPT ![c].phase = "Active", ![c].attached = TRUE]
    /\ IF IsCoordinator(c)
       THEN slot' = [slot EXCEPT ![NameOf[c]] = [conn |-> c, ready |-> FALSE]]
       ELSE UNCHANGED slot
    /\ UNCHANGED <<calls, route, nextID, made>>

\* home.attach: a coordinator replaces its slot's connection and ends that
\* connection's calls; the replaced peer is failed after the lock (Fail).
Attach(c) ==
    /\ peer[c].phase = "new"
    /\ peer' = [peer EXCEPT ![c].phase = "Active", ![c].attached = TRUE]
    /\ IF IsCoordinator(c)
       THEN /\ slot' = [slot EXCEPT ![NameOf[c]] = [conn |-> c, ready |-> FALSE]]
            /\ IF slot[NameOf[c]].conn # None
               THEN TerminateCalls(slot[NameOf[c]].conn)
               ELSE UNCHANGED <<calls, route>>
       ELSE UNCHANGED <<slot, calls, route>>
    /\ UNCHANGED <<nextID, made>>

\* The phase of a connection becomes Closed, without home.mu: its lease
\* expired, a queue overflowed, its generation was replaced, or it was stopped.
Fail(c) ==
    /\ peer[c].phase \in {"Active", "Draining"}
    /\ peer' = [peer EXCEPT ![c].phase = "Closed"]
    /\ UNCHANGED <<slot, calls, nextID, route, made>>

\* The second half of fail and stop: nothing enters the queue any more.
ShutQueue(c) ==
    /\ peer[c].phase = "Closed" /\ ~peer[c].shut
    /\ peer' = [peer EXCEPT ![c].shut = TRUE]
    /\ UNCHANGED <<slot, calls, nextID, route, made>>

\* The peer closes its socket, or sends what only a fatal error can answer.
Leave(c) ==
    /\ peer[c].phase # "new" /\ peer[c].handler = "reading"
    /\ peer' = [peer EXCEPT ![c].handler = "left"]
    /\ UNCHANGED <<slot, calls, nextID, route, made>>

\* home.detach, from fail's goroutine or at the end of the read loop.
Detach(c) ==
    /\ peer[c].attached
    /\ peer[c].phase = "Closed" \/ peer[c].handler = "left"
    /\ peer' = [peer EXCEPT ![c].attached = FALSE]
    /\ TerminateCalls(c)
    /\ slot' = [n \in Name |->
                  IF slot[n].conn = c THEN [conn |-> None, ready |-> FALSE] ELSE slot[n]]
    /\ UNCHANGED <<nextID, made>>

\* After detach the read loop stops the connection.
StopLeft(c) ==
    /\ peer[c].handler = "left" /\ ~peer[c].attached
    /\ ~peer[c].shut \/ peer[c].phase # "Closed"
    /\ peer' = [peer EXCEPT ![c].phase = "Closed", ![c].shut = TRUE]
    /\ UNCHANGED <<slot, calls, nextID, route, made>>

\* startDraining: only a compare-and-swap from Active.
StartDraining(c) ==
    /\ Drains /\ peer[c].phase = "Active"
    /\ peer' = [peer EXCEPT ![c].phase = "Draining"]
    /\ UNCHANGED <<slot, calls, nextID, route, made>>

\* connection.handle tests the phase before any handler takes home.mu.
Read(c) ==
    /\ peer[c].handler = "reading" /\ peer[c].phase # "new"
    /\ peer' = [peer EXCEPT ![c].handler =
                  CASE peer[c].phase = "Closed" -> "left"
                    [] peer[c].phase = "Draining" -> "answering"
                    [] OTHER -> "serving"]
    /\ UNCHANGED <<slot, calls, nextID, route, made>>

Done(c) == peer' = [peer EXCEPT ![c].handler = "reading"]

\* A frame that touches no route: refused, or about something else.
Refuse(c) ==
    /\ peer[c].handler \in {"serving", "answering"}
    /\ Done(c)
    /\ UNCHANGED <<slot, calls, nextID, route, made>>

\* FUNCTION_SYNC completes a coordinator's declarations.
Declare(c) ==
    /\ peer[c].handler = "serving" /\ IsCoordinator(c)
    /\ slot[NameOf[c]].conn = c
    /\ slot' = [slot EXCEPT ![NameOf[c]].ready = TRUE]
    /\ Done(c)
    /\ UNCHANGED <<calls, nextID, route, made>>

----------------------------------------------------------------------------
\* Calls

\* Mutant: the deadline is stored but no timer armed.
NewRouteUntimed(c, d, i, j, credit) ==
    [caller |-> c, callee |-> d, callerID |-> i, calleeID |-> j, credit |-> credit,
     live |-> TRUE, timer |-> "none", granted |-> credit, streamed |-> 0, ends |-> 0,
     cancels |-> 0, answered |-> FALSE]

NewRoute(c, d, i, j, credit) ==
    [caller |-> c, callee |-> d, callerID |-> i, calleeID |-> j, credit |-> credit,
     live |-> TRUE, timer |-> "armed", granted |-> credit, streamed |-> 0, ends |-> 0,
     cancels |-> 0, answered |-> FALSE]

\* What startCall checks before it allocates the callee's identifier.
MayCall(c, d, i) ==
    /\ peer[c].handler = "serving" /\ Fenced(c)
    /\ i \notin Used(c)
    /\ Cardinality(Used(c)) < MaxInflight
    /\ Target(c, d) /\ Available(d)
    /\ Cardinality(Used(d)) < MaxInflight

\* startCall: the route enters both indexes and the dispatch is queued.  The
\* caller is told ACCEPTED, or its full or closed queue ends its read loop.
StartCall(c, d, i, j, credit, told) ==
    /\ made < MaxCalls
    /\ MayCall(c, d, i) /\ NextCallID(d, j)
    /\ ~peer[d].shut
    /\ made' = made + 1
    /\ nextID' = [nextID EXCEPT ![d] = j]
    /\ calls' = [x \in Conn |-> [k \in Id |->
                   IF (x = c /\ k = i) \/ (x = d /\ k = j) THEN made + 1 ELSE calls[x][k]]]
    /\ route' = [route EXCEPT ![made + 1] = NewRoute(c, d, i, j, credit)]
    /\ IF told
       THEN ~peer[c].shut /\ Done(c)
       ELSE peer' = [peer EXCEPT ![c].phase = "Closed", ![c].shut = TRUE,
                                 ![c].handler = "left"]
    /\ UNCHANGED slot

\* The dispatch does not fit or finds the queue closed: the callee fails, the
\* route is taken out again and the caller told that it is unavailable.
DispatchFails(c, d, i, j) ==
    /\ MayCall(c, d, i) /\ NextCallID(d, j)
    /\ nextID' = [nextID EXCEPT ![d] = j]
    /\ peer' = [x \in Conn |->
                  [(IF x = d THEN [peer[x] EXCEPT !.phase = "Closed", !.shut = TRUE]
                    ELSE peer[x])
                   EXCEPT !.handler = IF x = c THEN "reading" ELSE @]]
    /\ UNCHANGED <<slot, calls, route, made>>

\* A route answered by its callee c under the callee's identifier.
MayAnswer(c, i) ==
    /\ peer[c].handler \in {"serving", "answering"} /\ Fenced(c)
    /\ calls[c][i] # NoCall
    /\ LET x == route[calls[c][i]] IN x.callee = c /\ x.calleeID = i /\ x.live

\* forwardCallResult with final, and forwardCallError.
Answer(c, i) ==
    /\ MayAnswer(c, i)
    /\ LET r == calls[c][i] IN
       /\ route' = [route EXCEPT ![r] = [Reported(Removed(r)) EXCEPT !.answered = TRUE]]
       /\ calls' = Unindexed({r})
    /\ Done(c)
    /\ UNCHANGED <<slot, nextID, made>>

\* forwardCallResult of a stream element: one credit is spent.
Stream(c, i) ==
    /\ MayAnswer(c, i)
    /\ LET r == calls[c][i] IN
       /\ route[r].credit > 0
       /\ route' = [route EXCEPT ![r].credit = @ - 1, ![r].streamed = @ + 1]
    /\ Done(c)
    /\ UNCHANGED <<slot, calls, nextID, made>>

\* A route its caller c refers to by its own identifier.
MayControl(c, i) ==
    /\ peer[c].handler = "serving" /\ Fenced(c)
    /\ calls[c][i] # NoCall
    /\ LET x == route[calls[c][i]] IN x.caller = c /\ x.callerID = i /\ x.live

\* cancelCall: the callee is told, the caller learns OUTCOME_UNKNOWN.
CancelCall(c, i) ==
    /\ MayControl(c, i)
    /\ LET r == calls[c][i] IN
       /\ route' = [route EXCEPT ![r] = Reported(Cancelled(Removed(r)))]
       /\ calls' = Unindexed({r})
    /\ Done(c)
    /\ UNCHANGED <<slot, nextID, made>>

\* Mutant: only the increment is compared with the limit.
CreditCallUnsummed(c, i, more) ==
    /\ MayControl(c, i)
    /\ LET r == calls[c][i] IN
       /\ more <= MaxCredit /\ route[r].granted + more <= MaxGranted
       /\ route' = [route EXCEPT ![r].credit = @ + more, ![r].granted = @ + more]
    /\ Done(c)
    /\ UNCHANGED <<slot, calls, nextID, made>>

\* creditCall: the credit is kept even when the callee's queue refuses the frame.
CreditCall(c, i, more) ==
    /\ MayControl(c, i)
    /\ LET r == calls[c][i] IN
       /\ route[r].credit + more <= MaxCredit /\ route[r].granted + more <= MaxGranted
       /\ route' = [route EXCEPT ![r].credit = @ + more, ![r].granted = @ + more]
    /\ Done(c)
    /\ UNCHANGED <<slot, calls, nextID, made>>

----------------------------------------------------------------------------
\* Deadlines

TimerFires(r) ==
    /\ route[r].timer = "armed"
    /\ route' = [route EXCEPT ![r].timer = "fired"]
    /\ UNCHANGED <<peer, slot, calls, nextID, made>>

\* Mutant: the callback trusts that a stopped timer never calls it.
ExpireTakeAlways(r) ==
    /\ route[r].timer = "fired"
    /\ route' = [route EXCEPT ![r] = [Removed(r) EXCEPT !.timer = "cancelling"]]
    /\ calls' = Unindexed({r})
    /\ UNCHANGED <<peer, slot, nextID, made>>

\* expireCall under the lock: a call that has ended is left alone.
ExpireTake(r) ==
    /\ route[r].timer = "fired"
    /\ IF route[r].live
       THEN /\ route' = [route EXCEPT ![r] = [Removed(r) EXCEPT !.timer = "cancelling"]]
            /\ calls' = Unindexed({r})
       ELSE /\ route' = [route EXCEPT ![r].timer = "done"]
            /\ UNCHANGED calls
    /\ UNCHANGED <<peer, slot, nextID, made>>

\* expireCall after the lock: first the callee, then the caller.
ExpireCancel(r) ==
    /\ route[r].timer = "cancelling"
    /\ route' = [route EXCEPT ![r] = [Cancelled(route[r]) EXCEPT !.timer = "reporting"]]
    /\ UNCHANGED <<peer, slot, calls, nextID, made>>

ExpireReport(r) ==
    /\ route[r].timer = "reporting"
    /\ route' = [route EXCEPT ![r] = [Reported(route[r]) EXCEPT !.timer = "done"]]
    /\ UNCHANGED <<peer, slot, calls, nextID, made>>

----------------------------------------------------------------------------

Life(c) == \/ Attach(c) \/ Fail(c) \/ ShutQueue(c) \/ Leave(c) \/ Detach(c)
           \/ StopLeft(c) \/ StartDraining(c)

Request(c) ==
    \/ Read(c) \/ Refuse(c) \/ Declare(c)
    \/ \E d \in Conn, i \in CallerIds, j \in Id :
         \/ \E credit \in Credit, told \in BOOLEAN : StartCall(c, d, i, j, credit, told)
         \/ DispatchFails(c, d, i, j)
    \/ \E i \in Id : \/ Answer(c, i) \/ Stream(c, i) \/ CancelCall(c, i)
                     \/ \E more \in Credit \ {0} : CreditCall(c, i, more)

Deadline(r) == TimerFires(r) \/ ExpireTake(r) \/ ExpireCancel(r) \/ ExpireReport(r)

Next == \/ \E c \in Conn : Life(c) \/ Request(c)
        \/ \E r \in Call : Deadline(r)

Spec == Init /\ [][Next]_vars

\* Timers fire, their callbacks get home.mu and finish, and the detach that
\* fail starts runs; peers owe the relay nothing.
Fairness ==
    /\ \A r \in Call : WF_vars(Deadline(r))
    /\ \A c \in Conn : WF_vars(Detach(c))

FairSpec == Spec /\ Fairness

----------------------------------------------------------------------------
\* Properties

Live(r) == route[r].live

\* The two call indexes of every connection and the callRoute objects agree: an
\* identifier in use leads to a call in flight of which the connection is the
\* caller under that identifier, or the callee under it, and a call in flight
\* is found from both ends.  removeRouteLocked and startCall keep both sides.
RoutesAreIndexed ==
    /\ \A c \in Conn, i \in Id : calls[c][i] # NoCall =>
         LET x == route[calls[c][i]] IN
         x.live /\ ((x.caller = c /\ x.callerID = i) \/ (x.callee = c /\ x.calleeID = i))
    /\ \A r \in Call : Live(r) =>
         /\ r <= made
         /\ route[r].caller \in Conn /\ route[r].callerID \in Id
         /\ route[r].callee \in Conn /\ route[r].calleeID \in Id
         /\ calls[route[r].caller][route[r].callerID] = r
         /\ calls[route[r].callee][route[r].calleeID] = r

\* Is c out of the home, or replaced as the connection of its slot?
Gone(c) == ~peer[c].attached \/ (IsCoordinator(c) /\ slot[NameOf[c]].conn # c)

\* A slot holds an attached coordinator of its own name.
SlotsAreAttached ==
    \A n \in Name : slot[n].conn # None =>
        LET c == slot[n].conn IN IsCoordinator(c) /\ NameOf[c] = n /\ peer[c].attached

\* A call never outlives the session it was dispatched to, nor the coordinator
\* generation that made it: attach and detach end such calls before the slot
\* has another connection.  (A user's or a CLI's call may: see the run
\* call_after_detach.)
CallsEndWithTheirPeers ==
    \A r \in Call : Live(r) =>
        ~Gone(route[r].callee) /\ (IsCoordinator(route[r].caller) => ~Gone(route[r].caller))

\* Every end of a call reaches both peers: unless its peer is gone or the
\* deadline's callback has yet to write, a caller of a call that is over has
\* been sent an end, and a callee has answered it or been sent CALL_CANCEL.
\* removeRouteLocked leaves the telling to each of its five callers.
BothEndsAreTold ==
    \A r \in 1 .. made : ~Live(r) =>
        /\ \/ route[r].ends = 1 \/ Gone(route[r].caller)
           \/ route[r].timer \in {"cancelling", "reporting"}
        /\ \/ route[r].answered \/ route[r].cancels = 1 \/ Gone(route[r].callee)
           \/ route[r].timer = "cancelling"

\* A stream never exceeds what the caller granted, and the credit the relay
\* holds for a call never exceeds the protocol's limit.
StreamsStayWithinCredit ==
    \A r \in 1 .. made :
        /\ route[r].streamed + route[r].credit = route[r].granted
        /\ route[r].credit \in Credit

\* Nothing about a call is addressed to its caller after the frame that ended
\* it, nor is a callee told of the end twice or after its own answer: the race
\* of an answer, a cancellation, the deadline and a lost peer has one winner.
NothingFollowsTheEnd ==
    [][\A r \in 1 .. made :
         /\ route[r].ends > 0 =>
              route'[r].ends = route[r].ends /\ route'[r].streamed = route[r].streamed
         /\ route[r].answered \/ route[r].cancels > 0 =>
              route'[r].cancels = route[r].cancels /\ route'[r].answered = route[r].answered]_vars

\* Every call that was dispatched comes to an end, and its caller hears of it
\* or is gone: the deadline owes that even if both peers stay silent.
EveryCallEnds ==
    \A r \in Call :
        (made >= r) ~> (made >= r /\ (route[r].ends = 1 \/ Gone(route[r].caller)))

\* "Routing stops immediately via phase" (connection.go:625-626): a peer that
\* failed and has been detached holds no call.
DetachedPeersHoldNoCall ==
    \A r \in Call : Live(r) => peer[route[r].caller].attached
==============================================================================
