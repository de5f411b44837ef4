------------------------- MODULE AuthenticationProofs --------------------------
(***************************************************************************)
(* Proofs about KeyCache and Lease, for any callers, ages, delays and      *)
(* lifetimes.                                                              *)
(***************************************************************************)
EXTENDS Lease, TLAPS

\* What a fetch under way says about the clock, and what is known of the age of
\* the cached keys.
KeysAgeWithTheClock ==
    /\ keys # NoKeys => expiresAt <= keys + TTL + FetchTime
    /\ refreshing => Started <= now /\ now <= Started + FetchTime

\* The inductive invariant of the cache.
KeyInv == KeyTypeOK /\ OneFetchAtATime /\ KeysAgeWithTheClock

----------------------------------------------------------------------------
\* Callers

\* A caller that moves keeps its record's shape, and nobody else moves.
LEMMA MovedFields ==
    ASSUME KeyTypeOK, NEW c \in Caller, NEW to \in CallerPlace, Moved(c, to)
    PROVE  /\ caller' \in [Caller -> CallerRecord]
           /\ caller'[c].at = to
           /\ \A d \in Caller : d # c => caller'[d] = caller[d]
BY DEF KeyTypeOK, Moved, Placed, CallerRecord, CallerPlace, Over

\* After a fetch nobody waits or fetches: its caller goes on, and who waited
\* loads again.
LEMMA WokenFields ==
    ASSUME KeyTypeOK, NEW c \in Caller, NEW to \in CallerPlace, AllWoken(c, to)
    PROVE  /\ caller' \in [Caller -> CallerRecord]
           /\ caller'[c].at = to
           /\ \A d \in Caller : d # c =>
                /\ caller'[d].at # "waiting"
                /\ caller'[d].at = IF caller[d].at = "waiting" THEN "loading" ELSE caller[d].at
<1>1. caller \in [Caller -> CallerRecord]
  BY DEF KeyTypeOK
<1>2. ASSUME NEW d \in Caller
      PROVE  /\ caller'[d] \in CallerRecord
             /\ d = c => caller'[d].at = to
             /\ d # c => /\ caller'[d].at # "waiting"
                         /\ caller'[d].at = IF caller[d].at = "waiting" THEN "loading"
                                            ELSE caller[d].at
  BY <1>1, <1>2 DEF AllWoken, Placed, At, CallerRecord, CallerPlace, Over
<1>3. caller' = [d \in Caller |-> caller'[d]]
  BY DEF AllWoken
<1> QED
  BY <1>2, <1>3

----------------------------------------------------------------------------
\* Steps of the cache

\* A step that leaves the cache alone and moves a caller between places where
\* it neither waits nor fetches, or to wait for the fetch under way.
LEMMA CallerStep ==
    ASSUME KeyInv, NEW c \in Caller, NEW to \in CallerPlace, Moved(c, to),
           UNCHANGED <<now, cacheVars>>,
           caller[c].at # "fetching", to # "fetching", to = "waiting" => refreshing
    PROVE  KeyInv'
<1>1. /\ caller' \in [Caller -> CallerRecord] /\ caller'[c].at = to
      /\ \A d \in Caller : d # c => caller'[d] = caller[d]
  BY MovedFields DEF KeyInv
<1>2. KeyTypeOK' /\ KeysAgeWithTheClock'
  BY <1>1 DEF KeyInv, KeyTypeOK, KeysAgeWithTheClock, Started, cacheVars
<1>3. \A d \in Caller : At(d, "fetching")' <=> At(d, "fetching")
  BY <1>1 DEF At
<1>4. (\E d \in Caller : At(d, "waiting")') => refreshing
  BY <1>1 DEF At, KeyInv, OneFetchAtATime
<1>5. OneFetchAtATime'
  BY <1>3, <1>4 DEF KeyInv, OneFetchAtATime, cacheVars
<1> QED
  BY <1>2, <1>5 DEF KeyInv

\* A fetch begins: there is none, so it is the only one.
LEMMA FetchKeeps ==
    ASSUME KeyInv, NEW c \in Caller, Fetch(c)
    PROVE  KeyInv'
<1>1. /\ caller' \in [Caller -> CallerRecord] /\ caller'[c].at = "fetching"
      /\ \A d \in Caller : d # c => caller'[d] = caller[d]
  BY MovedFields DEF KeyInv, Fetch, CallerPlace
<1>2. now \in Nat /\ RetryDelay \in Nat /\ UnknownDelay \in Nat /\ FetchTime \in Nat
  BY TimeAssumption DEF KeyInv, KeyTypeOK
<1>3. KeyTypeOK'
  BY <1>1, <1>2 DEF KeyInv, KeyTypeOK, Fetch
<1>4. KeysAgeWithTheClock'
  BY <1>2 DEF KeyInv, KeyTypeOK, KeysAgeWithTheClock, Fetch, Started
<1>5. \A d \in Caller : ~At(d, "fetching")
  BY DEF Fetch, Shares, KeyInv, OneFetchAtATime
<1>6. \A d \in Caller : At(d, "fetching")' <=> d = c
  BY <1>1, <1>5 DEF At
<1>7. OneFetchAtATime'
  BY <1>6 DEF OneFetchAtATime, Fetch
<1> QED
  BY <1>3, <1>4, <1>7 DEF KeyInv

\* A fetch ends, well or not.
LEMMA FetchEnds ==
    ASSUME KeyInv, NEW c \in Caller, NEW to \in CallerPlace \ {"waiting", "fetching"},
           At(c, "fetching"), AllWoken(c, to), refreshing' = FALSE,
           KeyTypeOK', KeysAgeWithTheClock', now' < nextFetch' => lastFailure' = "some"
    PROVE  KeyInv'
<1>1. /\ caller'[c].at = to
      /\ \A d \in Caller : d # c =>
           /\ caller'[d].at # "waiting"
           /\ caller'[d].at = IF caller[d].at = "waiting" THEN "loading" ELSE caller[d].at
  BY WokenFields DEF KeyInv
<1>2. \A d \in Caller : d # c => ~At(d, "fetching")
  BY DEF KeyInv, OneFetchAtATime
<1>3. \A d \in Caller : ~At(d, "fetching")' /\ ~At(d, "waiting")'
  BY <1>1, <1>2 DEF At
<1>4. OneFetchAtATime'
  BY <1>3 DEF OneFetchAtATime
<1> QED
  BY <1>4 DEF KeyInv

\* Keys that were just fetched are used, if at all, within max-age of the time
\* the control plane had them.
LEMMA FetchedAges ==
    ASSUME KeyInv, NEW c \in Caller, Fetched(c)
    PROVE  /\ keys' \in Int /\ expiresAt' \in Int
           /\ expiresAt' <= keys' + TTL + FetchTime
           /\ now < keys' + TTL + FetchTime
<1>1. PICK age \in Age, sent \in Started..now :
        keys' = sent - age /\ expiresAt' = now + TTL - age
  BY DEF Fetched, Expiry
<1>2. refreshing
  BY DEF Fetched, KeyInv, OneFetchAtATime
<1>3. /\ now \in Nat /\ Started \in Int /\ now <= Started + FetchTime
      /\ TTL \in Nat /\ FetchTime \in Nat /\ age \in 0..(TTL - 1)
  BY <1>2, TimeAssumption DEF KeyInv, KeyTypeOK, KeysAgeWithTheClock, Started
<1> QED
  BY <1>1, <1>3

\* The cache and its callers through any step.
LEMMA KeyStep ==
    ASSUME KeyInv, [KeyNext]_keyVars
    PROVE  KeyInv'
<1>1. CASE UNCHANGED keyVars
  BY <1>1 DEF keyVars, KeyInv, KeyTypeOK, OneFetchAtATime, KeysAgeWithTheClock, Started, At
<1>2. CASE Tick
  <2>1. now \in Nat /\ nextFetch \in Nat /\ RetryDelay \in Nat /\ FetchTime \in Nat
    BY TimeAssumption DEF KeyInv, KeyTypeOK
  <2>2. KeyTypeOK'
    BY <1>2, <2>1 DEF Tick, cacheVars, KeyInv, KeyTypeOK
  <2>3. OneFetchAtATime'
    BY <1>2, <2>1 DEF Tick, cacheVars, KeyInv, OneFetchAtATime, At
  <2>4. KeysAgeWithTheClock'
    BY <1>2, <2>1 DEF Tick, cacheVars, KeyInv, KeysAgeWithTheClock, Started
  <2> QED
    BY <2>2, <2>3, <2>4 DEF KeyInv
<1>3. ASSUME NEW c \in Caller, Begin(c) \/ Return(c) \/ Abandon(c) \/ Use(c) \/ Limited(c)
      PROVE  KeyInv'
  <2>1. PICK to \in {"loading", "idle", "refused", "checking"} : Moved(c, to)
    BY <1>3 DEF Begin, Return, Abandon, Use, Limited
  <2>2. caller[c].at # "fetching" /\ UNCHANGED <<now, cacheVars>>
    BY <1>3 DEF Begin, Return, Abandon, Use, Limited, At
  <2> QED
    BY <2>1, <2>2, CallerStep DEF CallerPlace
<1>4. ASSUME NEW c \in Caller, Share(c)
      PROVE  KeyInv'
  <2>1. Moved(c, "waiting") /\ refreshing /\ UNCHANGED <<now, cacheVars>>
    BY <1>4 DEF Share, Shares
  <2>2. caller[c].at # "fetching"
    BY <1>4 DEF Share, At
  <2> QED
    BY <2>1, <2>2, CallerStep DEF CallerPlace
<1>5. ASSUME NEW c \in Caller, Check(c)
      PROVE  KeyInv'
  <2>1. PICK to \in {"accepted", "refused", "unknown"} : Moved(c, to)
    BY <1>5 DEF Check
  <2>2. caller[c].at # "fetching" /\ UNCHANGED <<now, cacheVars>>
    BY <1>5 DEF Check, At
  <2> QED
    BY <2>1, <2>2, CallerStep DEF CallerPlace
<1>6. ASSUME NEW c \in Caller, RefreshUnknown(c)
      PROVE  KeyInv'
  <2> DEFINE r == [at |-> IF Fresh /\ ~refreshing /\ now < nextUnknown THEN "checking"
                          ELSE "loading", mode |-> "forced"]
  <2>1. r \in CallerRecord /\ r.at \in {"checking", "loading"}
    BY DEF CallerRecord, CallerPlace
  <2>2. caller' = [caller EXCEPT ![c] = r] /\ UNCHANGED <<now, cacheVars>>
    BY <1>6 DEF RefreshUnknown
  <2>3. caller[c].at = "unknown"
    BY <1>6 DEF RefreshUnknown, At
  <2> HIDE DEF r
  <2>4. KeyTypeOK' /\ KeysAgeWithTheClock'
    BY <2>1, <2>2 DEF KeyInv, KeyTypeOK, KeysAgeWithTheClock, Started, cacheVars
  <2>5. /\ \A d \in Caller : At(d, "fetching")' <=> At(d, "fetching")
        /\ \A d \in Caller : At(d, "waiting")' <=> At(d, "waiting")
    BY <2>1, <2>2, <2>3 DEF At, KeyInv, KeyTypeOK
  <2>6. OneFetchAtATime'
    BY <2>2, <2>5 DEF KeyInv, OneFetchAtATime, cacheVars
  <2> QED
    BY <2>4, <2>6 DEF KeyInv
<1>7. ASSUME NEW c \in Caller, Fetched(c)
      PROVE  KeyInv'
  <2>1. AllWoken(c, "checking") /\ At(c, "fetching") /\ refreshing' = FALSE
    BY <1>7 DEF Fetched
  <2>2. caller' \in [Caller -> CallerRecord]
    BY <2>1, WokenFields DEF KeyInv, CallerPlace
  <2>3. /\ keys' \in Int /\ expiresAt' \in Int
        /\ expiresAt' <= keys' + TTL + FetchTime
    BY <1>7, FetchedAges
  <2>4. /\ nextFetch' = 0 /\ lastFailure' = "none" /\ now' = now
        /\ nextUnknown' = nextUnknown
    BY <1>7 DEF Fetched
  <2>5. KeyTypeOK'
    BY <2>1, <2>2, <2>3, <2>4 DEF KeyInv, KeyTypeOK
  <2>6. KeysAgeWithTheClock'
    BY <2>1, <2>3 DEF KeysAgeWithTheClock
  <2>7. ~(now' < nextFetch')
    BY <2>4 DEF KeyInv, KeyTypeOK
  <2> QED
    BY <2>1, <2>5, <2>6, <2>7, FetchEnds DEF CallerPlace
<1>8. ASSUME NEW c \in Caller, FetchFails(c)
      PROVE  KeyInv'
  <2>1. PICK to \in {"checking", "refused"} : AllWoken(c, to)
    BY <1>8 DEF FetchFails
  <2>2. /\ At(c, "fetching") /\ refreshing' = FALSE /\ lastFailure' = "some"
        /\ UNCHANGED <<now, keys, expiresAt, nextFetch, nextUnknown>>
    BY <1>8 DEF FetchFails
  <2>3. caller' \in [Caller -> CallerRecord]
    BY <2>1, WokenFields DEF KeyInv, CallerPlace
  <2>4. KeyTypeOK'
    BY <2>2, <2>3 DEF KeyInv, KeyTypeOK
  <2>5. KeysAgeWithTheClock'
    BY <2>2 DEF KeyInv, KeysAgeWithTheClock
  <2> QED
    BY <2>1, <2>2, <2>4, <2>5, FetchEnds DEF CallerPlace
<1> QED
  BY <1>1, <1>2, <1>3, <1>4, <1>5, <1>6, <1>7, <1>8, FetchKeeps DEF KeyNext, Proceed

\* An empty cache, and nobody at it.
LEMMA KeyStart == ASSUME KeyInit PROVE KeyInv
<1>1. KeyTypeOK
  <2>1. [at |-> "idle", mode |-> "current"] \in CallerRecord
    BY DEF CallerRecord, CallerPlace
  <2>2. refreshing \in BOOLEAN
    BY DEF KeyInit
  <2>3. now \in Nat /\ expiresAt \in Int /\ nextFetch \in Nat /\ nextUnknown \in Nat
    BY DEF KeyInit
  <2>4. keys \in Int \cup {NoKeys} /\ lastFailure \in {"none", "some"}
    BY DEF KeyInit
  <2>5. caller \in [Caller -> CallerRecord]
    BY <2>1 DEF KeyInit
  <2> QED
    BY <2>2, <2>3, <2>4, <2>5 DEF KeyTypeOK
<1>2. OneFetchAtATime
  BY DEF KeyInit, OneFetchAtATime, At
<1>3. KeysAgeWithTheClock
  BY DEF KeyInit, KeysAgeWithTheClock
<1> QED
  BY <1>1, <1>2, <1>3 DEF KeyInv

----------------------------------------------------------------------------
\* What the cache hands out

\* A caller only gets keys that max-age and the time of a fetch vouch for.
LEMMA HandedOut ==
    ASSUME KeyInv, KeyNext, NEW c \in Caller,
           caller'[c].at = "checking", caller[c].at # "checking"
    PROVE  keys' # NoKeys /\ now < keys' + TTL + FetchTime
<1>1. KeyTypeOK /\ KeysAgeWithTheClock /\ TTL \in Nat /\ FetchTime \in Nat /\ NoKeys \notin Int
  BY TimeAssumption DEF KeyInv
<1>2. ASSUME Fresh, UNCHANGED keys
      PROVE  keys' # NoKeys /\ now < keys' + TTL + FetchTime
  BY <1>1, <1>2 DEF Fresh, KeyTypeOK, KeysAgeWithTheClock
<1>3. ASSUME NEW d \in Caller, NEW to \in CallerPlace, Moved(d, to)
      PROVE  d = c /\ to = "checking"
  BY <1>1, <1>3, MovedFields
<1>4. ASSUME NEW d \in Caller, NEW to \in CallerPlace, AllWoken(d, to)
      PROVE  d = c /\ to = "checking"
  BY <1>1, <1>4, WokenFields
<1>5. ASSUME NEW d \in Caller,
             Begin(d) \/ Return(d) \/ Abandon(d) \/ Share(d) \/ Limited(d) \/ Fetch(d)
      PROVE  FALSE
  <2>1. PICK to \in CallerPlace \ {"checking"} : Moved(d, to)
    BY <1>5 DEF Begin, Return, Abandon, Share, Limited, Fetch, CallerPlace
  <2> QED
    BY <1>3, <2>1
<1>6. ASSUME NEW d \in Caller, Use(d)
      PROVE  keys' # NoKeys /\ now < keys' + TTL + FetchTime
  BY <1>2, <1>6 DEF Use, Uses, cacheVars
<1>7. ASSUME NEW d \in Caller, Check(d)
      PROVE  FALSE
  <2>1. PICK to \in {"accepted", "refused", "unknown"} : Moved(d, to)
    BY <1>7 DEF Check
  <2> QED
    BY <1>3, <2>1 DEF CallerPlace
<1>8. ASSUME NEW d \in Caller, RefreshUnknown(d)
      PROVE  keys' # NoKeys /\ now < keys' + TTL + FetchTime
  <2>1. CASE Fresh
    BY <1>2, <1>8, <2>1 DEF RefreshUnknown, cacheVars
  <2>2. CASE ~Fresh
    <3>1. caller' = [caller EXCEPT ![d] = [at |-> "loading", mode |-> "forced"]]
      BY <1>8, <2>2 DEF RefreshUnknown
    <3>2. caller \in [Caller -> CallerRecord]
      BY <1>1 DEF KeyTypeOK
    <3> QED
      BY <3>1, <3>2
  <2> QED
    BY <2>1, <2>2
<1>9. ASSUME NEW d \in Caller, Fetched(d)
      PROVE  keys' # NoKeys /\ now < keys' + TTL + FetchTime
  <2>1. keys' \in Int /\ now < keys' + TTL + FetchTime
    BY <1>9, FetchedAges
  <2>2. keys' # NoKeys
    BY <1>1, <2>1
  <2> QED
    BY <2>1, <2>2
<1>10. ASSUME NEW d \in Caller, FetchFails(d)
       PROVE  keys' # NoKeys /\ now < keys' + TTL + FetchTime
  <2> DEFINE to == IF caller[d].mode = "forced" /\ Fresh THEN "checking" ELSE "refused"
  <2>1. to \in CallerPlace /\ AllWoken(d, to) /\ UNCHANGED keys
    BY <1>10 DEF FetchFails, CallerPlace
  <2>2. to = "checking"
    <3> HIDE DEF to
    <3> QED
      BY <1>4, <2>1
  <2> QED
    BY <1>2, <2>1, <2>2
<1>11. CASE Tick
  BY <1>11 DEF Tick
<1> QED
  BY <1>5, <1>6, <1>7, <1>8, <1>9, <1>10, <1>11 DEF KeyNext, Proceed

\* Only a fetch that is forced sets the time of the next, and with fresh keys it
\* is forced when that time has come.
LEMMA ForcedInTime ==
    ASSUME KeyInv, KeyNext, nextUnknown' # nextUnknown, Fresh
    PROVE  now >= nextUnknown
<1>1. PICK c \in Caller : Fetch(c)
  BY DEF KeyNext, Proceed, Tick, Begin, Return, Abandon, Use, Share, Limited, Check,
         RefreshUnknown, Fetched, FetchFails, cacheVars
<1>2. caller[c].mode = "forced" /\ ~refreshing /\ ~Uses(c)
  BY <1>1 DEF Fetch, Shares
<1>3. ~(now < nextUnknown)
  BY <1>2 DEF Uses
<1> QED
  BY <1>3 DEF KeyInv, KeyTypeOK

----------------------------------------------------------------------------
\* The lease

\* Before its first lease a connection has no deadline and no timer, and no
\* lease to lose.
NoLeaseYet ==
    place \in {"start", "hello", "bound"} =>
        deadline = 0 /\ timer = 0 /\ firing = {} /\ expired = FALSE

\* The inductive invariant.
Inv == KeyInv /\ TypeOK /\ NoLeaseYet

\* Whatever a connection does with its verifications is a step of the cache.
LEMMA StepsAreKeySteps == ASSUME [Next]_vars PROVE [KeyNext]_keyVars
<1>1. CASE UNCHANGED vars
  BY <1>1 DEF vars
<1>2. CASE LeaseTick
  BY <1>2 DEF LeaseTick, KeyNext
<1>3. ASSUME NEW c \in Caller, Verify(c)
      PROVE  KeyNext
  BY <1>3 DEF Verify, KeyNext
<1>4. CASE Hello
  BY <1>4, LeaseAssumption DEF Hello, KeyNext
<1>5. CASE Verified("hello", "bound") \/ Verified("renewing", "renewed") \/ Refused
  <2>1. Return(Peer)
    BY <1>5 DEF Verified, Refused
  <2> QED
    BY <2>1, LeaseAssumption DEF KeyNext
<1>6. CASE Reauthenticate
  <2>1. Begin(Peer) \/ UNCHANGED keyVars
    BY <1>6 DEF Reauthenticate
  <2> QED
    BY <2>1, LeaseAssumption DEF KeyNext
<1>7. CASE Activate \/ Replace \/ Fire \/ (\E g \in firing : Expire(g)) \/ Stop
  BY <1>7 DEF Activate, Replace, Fire, Expire, Stop
<1> QED
  BY <1>1, <1>2, <1>3, <1>4, <1>5, <1>6, <1>7 DEF Next

\* A new lease is another generation with a timer of its own.
LEMMA InstallFields ==
    ASSUME TypeOK, NEW until \in Nat, Install(until)
    PROVE  deadline' \in Nat /\ generation' \in Nat /\ timer' \in Nat /\ expired' = FALSE
BY DEF TypeOK, LeaseTypeOK, Install

\* The connection through any step.
LEMMA LeaseStep ==
    ASSUME Inv, [Next]_vars
    PROVE  LeaseTypeOK' /\ NoLeaseYet'
<1>1. TypeOK /\ NoLeaseYet /\ now \in Nat
  BY DEF Inv, TypeOK, LeaseTypeOK, KeyTypeOK
<1>2. CASE UNCHANGED leaseVars
  BY <1>1, <1>2, Zenon DEF leaseVars, TypeOK, LeaseTypeOK, NoLeaseYet
<1>3. CASE Hello
  BY <1>1, <1>3, Zenon DEF Hello, Place, TypeOK, LeaseTypeOK, NoLeaseYet
<1>4. ASSUME NEW from, NEW to \in {"bound", "renewed"}, Verified(from, to),
             <<from, to>> \in {<<"hello", "bound">>, <<"renewing", "renewed">>}
      PROVE  LeaseTypeOK' /\ NoLeaseYet'
  <2>1. identity' \in Nat
    <3>1. (now + 1)..(now + MaxLease) \subseteq Nat
      BY <1>1, LeaseAssumption
    <3> QED
      BY <3>1, <1>4 DEF Verified
  <2>2. /\ place = from /\ place' = to
        /\ UNCHANGED <<phase, deadline, generation, expired, timer, firing, previous>>
    BY <1>4, Zenon DEF Verified
  <2>3. LeaseTypeOK'
    BY <1>1, <2>1, <2>2, Zenon DEF TypeOK, LeaseTypeOK, Place
  <2>4. to = "bound" => from = "hello"
    BY <1>4
  <2>5. NoLeaseYet'
    BY <1>1, <1>4, <2>2, <2>4 DEF NoLeaseYet
  <2> QED
    BY <2>3, <2>5
<1>5. CASE Refused
  BY <1>1, <1>5 DEF Refused, Failed, Place, TypeOK, LeaseTypeOK, NoLeaseYet
<1>6. CASE Activate
  <2>1. place' \in {"serving", "gone"} /\ identity' = 0 /\ UNCHANGED <<firing, previous>>
        /\ (phase' = phase \/ Failed)
    BY <1>6 DEF Activate
  <2>2. /\ deadline' \in Nat /\ generation' \in Nat /\ timer' \in Nat
        /\ expired' \in BOOLEAN
    <3>1. CASE identity > now
      <4>1. Install(identity) /\ identity \in Nat
        BY <1>1, <1>6, <3>1 DEF Activate, TypeOK, LeaseTypeOK
      <4> QED
        BY <1>1, <4>1, InstallFields
    <3>2. CASE ~(identity > now)
      BY <1>1, <1>6, <3>2 DEF Activate, TypeOK, LeaseTypeOK
    <3> QED
      BY <3>1, <3>2
  <2>3. phase' \in {"open", "failed", "stopped"}
    BY <1>1, <2>1 DEF Failed, TypeOK, LeaseTypeOK
  <2>4. firing' \subseteq Nat /\ previous' \in Nat
    BY <1>1, <2>1 DEF TypeOK, LeaseTypeOK
  <2> QED
    BY <2>1, <2>2, <2>3, <2>4 DEF LeaseTypeOK, NoLeaseYet, Place
<1>7. CASE Reauthenticate
  <2>1. /\ place' \in {"renewing", "gone"} /\ previous' \in {deadline, previous}
        /\ (phase' = phase \/ Failed)
        /\ UNCHANGED <<deadline, generation, expired, timer, firing, identity>>
    BY <1>7 DEF Reauthenticate
  <2>2. phase' \in {"open", "failed", "stopped"} /\ previous' \in Nat
    BY <1>1, <2>1 DEF Failed, TypeOK, LeaseTypeOK
  <2> QED
    BY <1>1, <2>1, <2>2 DEF LeaseTypeOK, TypeOK, NoLeaseYet, Place
<1>8. CASE Replace
  <2>1. place' \in {"serving", "gone"} /\ identity' = 0 /\ previous' = 0 /\ UNCHANGED firing
        /\ (phase' = phase \/ Failed)
    BY <1>8 DEF Replace
  <2>2. /\ deadline' \in Nat /\ generation' \in Nat /\ timer' \in Nat
        /\ expired' \in BOOLEAN
    <3>1. CASE Renewable
      <4>1. Install(identity) /\ identity \in Nat
        BY <1>1, <1>8, <3>1 DEF Replace, TypeOK, LeaseTypeOK
      <4> QED
        BY <1>1, <4>1, InstallFields
    <3>2. CASE ~Renewable
      BY <1>1, <1>8, <3>2 DEF Replace, TypeOK, LeaseTypeOK
    <3> QED
      BY <3>1, <3>2
  <2>3. phase' \in {"open", "failed", "stopped"}
    BY <1>1, <2>1 DEF Failed, TypeOK, LeaseTypeOK
  <2>4. firing' \subseteq Nat
    BY <1>1, <2>1 DEF TypeOK, LeaseTypeOK
  <2> QED
    BY <2>1, <2>2, <2>3, <2>4 DEF LeaseTypeOK, NoLeaseYet, Place
<1>9. CASE Fire
  <2>1. /\ timer # 0 /\ timer' = 0 /\ firing' = firing \cup {timer}
        /\ UNCHANGED <<place, phase, deadline, generation, expired, previous, identity>>
    BY <1>9 DEF Fire
  <2>2. firing' \subseteq Nat /\ timer' \in Nat
    BY <1>1, <2>1 DEF TypeOK, LeaseTypeOK
  <2> QED
    BY <1>1, <2>1, <2>2 DEF LeaseTypeOK, TypeOK, NoLeaseYet
<1>10. ASSUME NEW g \in firing, Expire(g)
       PROVE  LeaseTypeOK' /\ NoLeaseYet'
  <2>1. /\ firing' = firing \ {g} /\ (phase' = phase \/ Failed)
        /\ (expired' = TRUE \/ expired' = expired)
        /\ UNCHANGED <<place, deadline, generation, timer, previous, identity>>
    BY <1>10 DEF Expire
  <2>2. phase' \in {"open", "failed", "stopped"}
    BY <1>1, <2>1 DEF Failed, TypeOK, LeaseTypeOK
  <2>3. expired' \in BOOLEAN
    BY <1>1, <2>1 DEF TypeOK, LeaseTypeOK
  <2>4. firing' \subseteq Nat
    BY <1>1, <2>1 DEF TypeOK, LeaseTypeOK
  <2>5. place \notin {"start", "hello", "bound"}
    BY <1>1 DEF NoLeaseYet
  <2> QED
    BY <1>1, <2>1, <2>2, <2>3, <2>4, <2>5 DEF LeaseTypeOK, TypeOK, NoLeaseYet
<1>11. CASE Stop
  BY <1>1, <1>11 DEF Stop, TypeOK, LeaseTypeOK, NoLeaseYet
<1>12. LeaseTick => UNCHANGED leaseVars
  BY DEF LeaseTick
<1>13. ASSUME NEW c \in Caller, Verify(c)
       PROVE  UNCHANGED leaseVars
  BY <1>13 DEF Verify
<1>14. [Next]_vars
  OBVIOUS
<1>15. CASE UNCHANGED vars
  BY <1>2, <1>15 DEF vars
<1> QED
  BY <1>2, <1>3, <1>4, <1>5, <1>6, <1>7, <1>8, <1>9, <1>10, <1>11, <1>12, <1>13, <1>14,
     <1>15 DEF Next

\* The invariant holds at the start, and every step keeps it.
LEMMA Start == ASSUME Init PROVE Inv
<1>1. KeyInv
  BY KeyStart DEF Init
<1>2. place = "start" /\ deadline = 0 /\ timer = 0 /\ firing = {} /\ expired = FALSE
  BY DEF Init
<1>3. phase = "open" /\ generation = 0 /\ previous = 0 /\ identity = 0
  BY DEF Init
<1>4. TypeOK
  BY <1>1, <1>2, <1>3 DEF KeyInv, TypeOK, LeaseTypeOK, Place
<1> QED
  BY <1>1, <1>2, <1>4 DEF Inv, NoLeaseYet

\* Every action of the connection and of the cache preserves Inv.
LEMMA Step == ASSUME Inv, [Next]_vars PROVE Inv'
<1>1. KeyInv'
  BY KeyStep, StepsAreKeySteps DEF Inv
<1>2. LeaseTypeOK' /\ NoLeaseYet'
  BY LeaseStep
<1> QED
  BY <1>1, <1>2 DEF Inv, KeyInv, TypeOK, LeaseTypeOK

\* Every reachable state of Lease satisfies Inv.
LEMMA Invariance == Spec => []Inv
<1>1. Init => Inv
  BY Start
<1>2. Inv /\ [Next]_vars => Inv'
  BY Step
<1> QED
  BY <1>1, <1>2, PTL DEF Spec

\* The only steps that install a lease find one that has not run out, or none.
LEMMA RunOutStep ==
    ASSUME Inv, [Next]_vars, expired \/ (deadline # 0 /\ deadline <= now)
    PROVE  deadline' = deadline /\ (expired => expired')
<1>1. TypeOK /\ NoLeaseYet /\ now \in Nat /\ deadline \in Nat
  BY DEF Inv, TypeOK, LeaseTypeOK, KeyTypeOK
<1>2. CASE Activate
  <2>1. expired = FALSE /\ deadline = 0
    BY <1>1, <1>2 DEF Activate, NoLeaseYet
  <2> QED
    BY <2>1
<1>3. CASE Replace
  <2>1. ~Renewable
    BY <1>1 DEF Renewable
  <2> QED
    BY <1>3, <2>1, Zenon DEF Replace
<1>4. ASSUME NEW g \in firing, Expire(g)
      PROVE  deadline' = deadline /\ (expired => expired')
  BY <1>4 DEF Expire
<1>5. CASE Hello \/ Refused \/ Reauthenticate \/ Fire \/ Stop
  BY <1>5 DEF Hello, Refused, Reauthenticate, Fire, Stop
<1>6. CASE Verified("hello", "bound") \/ Verified("renewing", "renewed")
  BY <1>6 DEF Verified
<1>7. CASE LeaseTick \/ (\E c \in Caller : Verify(c)) \/ UNCHANGED vars
  <2>1. UNCHANGED leaseVars
    BY <1>7 DEF LeaseTick, Verify, vars
  <2> QED
    BY <2>1 DEF leaseVars
<1> QED
  BY <1>2, <1>3, <1>4, <1>5, <1>6, <1>7 DEF Next

----------------------------------------------------------------------------
\* Theorems

\* The state of the cache and of the connection has its shape at all times.
THEOREM LeaseTypes == Spec => []TypeOK
<1>1. Inv => TypeOK
  BY DEF Inv
<1> QED
  BY <1>1, Invariance, PTL

\* Whatever a connection does, its verifications are those of the cache: what is
\* shown of the cache and its callers alone holds for connections, too.
THEOREM LeaseUsesTheCache == Spec => KeySpec
<1>1. Init => KeyInit
  BY DEF Init
<1>2. [Next]_vars => [KeyNext]_keyVars
  BY StepsAreKeySteps
<1> QED
  BY <1>1, <1>2, PTL DEF Spec, KeySpec

\* Concurrent verifications share one fetch, and none waits for nothing (load).
THEOREM FetchesAreShared == Spec => []OneFetchAtATime
<1>1. Inv => OneFetchAtATime
  BY DEF Inv, KeyInv
<1> QED
  BY <1>1, Invariance, PTL

\* No caller gets keys that are older than max-age and the time of a fetch (load).
THEOREM KeysAreRecent == Spec => StaleKeysAreRefused
<1>1. ASSUME Inv, [Next]_vars
      PROVE  [\A c \in Caller :
                caller'[c].at = "checking" /\ caller[c].at # "checking" =>
                    keys' # NoKeys /\ now < keys' + TTL + FetchTime]_keyVars
  <2>1. CASE UNCHANGED keyVars
    BY <2>1
  <2>2. CASE KeyNext
    BY <1>1, <2>2, HandedOut DEF Inv
  <2> QED
    BY <1>1, <2>1, <2>2, StepsAreKeySteps
<1>2. Inv /\ [Next]_vars =>
        [\A c \in Caller :
           caller'[c].at = "checking" /\ caller[c].at # "checking" =>
               keys' # NoKeys /\ now < keys' + TTL + FetchTime]_keyVars
  BY <1>1
<1> QED
  BY <1>2, Invariance, PTL DEF Spec, StaleKeysAreRefused

\* With fresh keys at hand, unknown ones cost one fetch per delay (load).
THEOREM RefreshesAreSpaced == Spec => UnknownRefreshesAreSpaced
<1>1. Inv /\ [Next]_vars =>
        [nextUnknown' # nextUnknown /\ Fresh => now >= nextUnknown]_keyVars
  BY StepsAreKeySteps, ForcedInTime DEF Inv, keyVars
<1> QED
  BY <1>1, Invariance, PTL DEF Spec, UnknownRefreshesAreSpaced

\* A lease that has run out is never revived (replaceLease).
THEOREM NoLeaseIsRevived == Spec => RunOutIsFinal
<1>1. Inv /\ [Next]_vars =>
        [expired \/ (deadline # 0 /\ deadline <= now) =>
            deadline' = deadline /\ (expired => expired')]_vars
  BY RunOutStep
<1> QED
  BY <1>1, Invariance, PTL DEF Spec, RunOutIsFinal
==============================================================================
