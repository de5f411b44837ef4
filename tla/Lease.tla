-------------------------------- MODULE Lease ---------------------------------
(***************************************************************************)
(* The authorization lease of one connection, whose verifications share    *)
(* the key cache with others: the first lease, its expiry timer,           *)
(* reauthentication that races it, and stop.                               *)
(*                                                                         *)
(* Source: internal/relay/connection.go (authenticate, reauthenticate and  *)
(* the functions of leaseMu).                                              *)
(*                                                                         *)
(* An action is one critical section of leaseMu or keyCache.mu, which read *)
(* the clock inside.  A timer that has fired waits for leaseMu for as long *)
(* as it takes.                                                            *)
(***************************************************************************)
EXTENDS KeyCache

CONSTANTS
    Peer,       \* the caller that is the connection's reading goroutine
    MaxLease,   \* bound of the model: the lifetime of tokens
    MaxLeases   \* bound of the model: leases of the connection

ASSUME LeaseAssumption == Peer \in Caller /\ MaxLease \in Nat /\ MaxLeases \in Nat

VARIABLES
    place,       \* where the reading goroutine is
    phase,       \* connection.phase
    deadline,    \* connection.leaseDeadline, 0 for the zero time
    generation,  \* connection.leaseGeneration
    expired,     \* connection.leaseExpired
    timer,       \* the generation leaseTimer was started for, or 0
    firing,      \* generations whose callback waits for leaseMu
    previous,    \* previousDeadline of reauthenticate, 0 outside of it
    identity     \* ExpiresAt of an identity whose lease is not installed yet, or 0

leaseVars == <<place, phase, deadline, generation, expired, timer, firing, previous, identity>>
vars == <<keyVars, leaseVars>>

\* hello: HELLO is verified; bound: it was, and attach is on its way; serving:
\* frames are handled; renewing: REAUTH is verified; renewed: it was.
Place == {"start", "hello", "bound", "serving", "renewing", "renewed", "gone"}

LeaseTypeOK ==
    /\ place \in Place /\ phase \in {"open", "failed", "stopped"}
    /\ deadline \in Nat /\ previous \in Nat /\ identity \in Nat
    /\ generation \in Nat /\ timer \in Nat /\ firing \subseteq Nat
    /\ expired \in BOOLEAN

\* The shape of the state: struct keyCache, and the lease of struct connection.
TypeOK == KeyTypeOK /\ LeaseTypeOK

Init ==
    /\ KeyInit
    /\ place = "start" /\ phase = "open"
    /\ deadline = 0 /\ generation = 0 /\ expired = FALSE
    /\ timer = 0 /\ firing = {} /\ previous = 0 /\ identity = 0

----------------------------------------------------------------------------
\* The lease

\* Mutant: the timer is not started again for a renewed lease.
InstallUntimed(until) ==
    /\ generation' = generation + 1 /\ expired' = FALSE /\ deadline' = until
    /\ timer' = IF deadline = 0 THEN generation + 1 ELSE 0

\* installLeaseLocked: the old timer is stopped, unless it has fired already.
Install(until) ==
    /\ generation' = generation + 1 /\ expired' = FALSE /\ deadline' = until
    /\ timer' = generation + 1

\* fail: what it does to the lease comes with stop.  The connection may fail for
\* other reasons, which is then all there is to see of it.
Failed == phase' = IF phase = "open" THEN "failed" ELSE phase

\* The timer fires: its callback starts, and waits for leaseMu.
Fire ==
    /\ timer # 0 /\ now >= deadline
    /\ timer' = 0 /\ firing' = firing \cup {timer}
    /\ UNCHANGED <<keyVars, place, phase, deadline, generation, expired, previous, identity>>

\* expireLease
Expire(g) ==
    /\ g \in firing /\ firing' = firing \ {g}
    /\ IF g = generation /\ ~expired THEN expired' = TRUE /\ Failed ELSE UNCHANGED <<expired, phase>>
    /\ UNCHANGED <<keyVars, place, deadline, generation, timer, previous, identity>>

\* stop with stopLease; a callback that has started is no longer current.
Stop ==
    /\ phase # "stopped" /\ phase' = "stopped"
    /\ generation' = generation + 1 /\ timer' = 0
    /\ UNCHANGED <<keyVars, place, deadline, expired, firing, previous, identity>>

----------------------------------------------------------------------------
\* The reading goroutine.  It does not notice that the connection fails or
\* stops before its next frame.

\* HELLO arrives, and its token is verified.
Hello ==
    /\ place = "start" /\ place' = "hello"
    /\ Begin(Peer)
    /\ UNCHANGED <<phase, deadline, generation, expired, timer, firing, previous, identity>>

\* Verify and ValidateBinding: the token has some time to live.
Verified(from, to) ==
    /\ place = from /\ At(Peer, "accepted")
    /\ identity' \in (now + 1)..(now + MaxLease)
    /\ Return(Peer) /\ place' = to
    /\ UNCHANGED <<phase, deadline, generation, expired, timer, firing, previous>>

\* Verification fails, or the token binds to something else: always fatal.
Refused ==
    /\ place \in {"hello", "renewing"} /\ place' = "gone"
    /\ Return(Peer) /\ Failed /\ previous' = 0
    /\ UNCHANGED <<deadline, generation, expired, timer, firing, identity>>

\* activateInitialLease, from attach
Activate ==
    /\ place = "bound"
    /\ IF identity > now
       THEN Install(identity) /\ place' = "serving" /\ UNCHANGED phase
       ELSE expired' = TRUE /\ place' = "gone" /\ Failed
            /\ UNCHANGED <<deadline, generation, timer>>
    /\ identity' = 0
    /\ UNCHANGED <<keyVars, firing, previous>>

\* REAUTH, refused by handle or reauthenticate if the lease has run out.
Reauthenticate ==
    /\ place = "serving" /\ generation < MaxLeases
    /\ IF ~expired /\ deadline > now
       THEN place' = "renewing" /\ previous' = deadline /\ Begin(Peer) /\ UNCHANGED phase
       ELSE place' = "gone" /\ Failed /\ UNCHANGED <<keyVars, previous>>
    /\ UNCHANGED <<deadline, generation, expired, timer, firing, identity>>

\* Mutant: a lease is replaced although it has run out.
RenewableLate == ~expired /\ deadline = previous /\ identity > now

\* replaceLease
Renewable == ~expired /\ deadline = previous /\ deadline > now /\ identity > now

Replace ==
    /\ place = "renewed"
    /\ IF Renewable
       THEN Install(identity) /\ place' = "serving" /\ UNCHANGED phase
       ELSE place' = "gone" /\ Failed /\ UNCHANGED <<deadline, generation, expired, timer>>
    /\ previous' = 0 /\ identity' = 0
    /\ UNCHANGED <<keyVars, firing>>

\* A renewal is verified under a context that ends with the previous lease.
LeaseTick ==
    /\ Tick
    /\ At(Peer, "fetching") /\ place = "renewing" => now < previous
    /\ UNCHANGED leaseVars

\* Verifications, for this connection and for others.
Verify(c) ==
    /\ Proceed(c) \/ Abandon(c) \/ (c # Peer /\ (Begin(c) \/ Return(c)))
    /\ UNCHANGED leaseVars

Next ==
    \/ LeaseTick \/ \E c \in Caller : Verify(c)
    \/ Hello \/ Verified("hello", "bound") \/ Activate
    \/ Reauthenticate \/ Verified("renewing", "renewed") \/ Replace \/ Refused
    \/ Fire \/ (\E g \in firing : Expire(g)) \/ Stop

\* Goroutines run, requests end by their deadline, and timers fire.
Fairness ==
    /\ \A c \in Caller : WF_vars(Proceed(c) /\ UNCHANGED leaseVars)
    /\ WF_vars(Fire) /\ WF_vars(\E g \in firing : Expire(g))

Spec == Init /\ [][Next]_vars
FairSpec == Spec /\ Fairness

----------------------------------------------------------------------------
\* Properties

\* A lease that has run out stays so: no renewal that was under way revives it
\* (replaceLease, activateInitialLease).
RunOutIsFinal ==
    [][expired \/ (deadline # 0 /\ deadline <= now) =>
          deadline' = deadline /\ (expired => expired')]_vars

\* A connection whose lease has run out fails, also in the middle of a renewal
\* (expireLease).
LeasesAreEnforced == deadline # 0 /\ deadline <= now ~> phase # "open"
==============================================================================
