------------------------------- MODULE KeyCache -------------------------------
(***************************************************************************)
(* The cache of the control plane's public keys: concurrent verifications  *)
(* that share one fetch, freshness, refresh for unknown keys, and fetches  *)
(* that fail or are abandoned.                                             *)
(*                                                                         *)
(* Sources: internal/auth/key_cache.go (load, refreshUnknownKID) and       *)
(* platform.go (verifyAccess).                                             *)
(*                                                                         *)
(* An action is one critical section of keyCache.mu, which reads the clock *)
(* inside.  A set of keys is the time at which the control plane had it:   *)
(* only that tells how stale it is.  A 304 makes the cached keys as recent *)
(* as a 200 with the same keys would.                                      *)
(***************************************************************************)
EXTENDS Integers, FiniteSets

CONSTANTS
    Caller,        \* goroutines that verify tokens
    NoKeys,        \* nothing is cached
    TTL,           \* max-age of the key document, 60 s
    Age,           \* values of the Age header, all below max-age
    RetryDelay,    \* failedFetchRetryDelay
    UnknownDelay,  \* unknownKIDRefreshDelay
    FetchTime,     \* config.Handshake, the deadline of a verification
    MaxTime        \* bound of the model

ASSUME TimeAssumption ==
    /\ TTL \in Nat \ {0} /\ Age \subseteq 0..(TTL - 1)
    /\ RetryDelay \in Nat \ {0} /\ UnknownDelay \in Nat /\ FetchTime \in Nat
    /\ MaxTime \in Nat /\ NoKeys \notin Int

VARIABLES
    now,          \* the clock
    keys,         \* the time of the cached keys, keyCache.keys and etag
    expiresAt,    \* keyCache.expiresAt
    refreshing,   \* keyCache.refreshing
    nextFetch,    \* keyCache.nextFetch, 0 for the zero time
    nextUnknown,  \* keyCache.nextUnknownRefresh
    lastFailure,  \* keyCache.lastFailure, as "none" or "some"
    caller        \* [Caller -> CallerRecord]

cacheVars == <<keys, expiresAt, refreshing, nextFetch, nextUnknown, lastFailure>>
keyVars == <<now, keys, expiresAt, refreshing, nextFetch, nextUnknown, lastFailure, caller>>

\* mode: "current" is the first load of a verification, "forced" the one for an
\* unknown key, "joined" the same once it has waited for another's fetch.
CallerPlace ==
    {"idle", "loading", "waiting", "fetching", "checking", "unknown", "accepted", "refused"}
CallerRecord == [at : CallerPlace, mode : {"current", "forced", "joined"}]

\* The shape of the cache and of its callers.
KeyTypeOK ==
    /\ now \in Nat
    /\ keys \in Int \cup {NoKeys}
    /\ expiresAt \in Int /\ nextFetch \in Nat /\ nextUnknown \in Nat
    /\ refreshing \in BOOLEAN /\ lastFailure \in {"none", "some"}
    /\ caller \in [Caller -> CallerRecord]

KeyInit ==
    /\ now = 0
    /\ keys = NoKeys /\ expiresAt = 0 /\ refreshing = FALSE
    /\ nextFetch = 0 /\ nextUnknown = 0 /\ lastFailure = "none"
    /\ caller = [c \in Caller |-> [at |-> "idle", mode |-> "current"]]

----------------------------------------------------------------------------
\* load, a caller at a time

Fresh == keys # NoKeys /\ now < expiresAt
At(c, place) == caller[c].at = place
Over == {"idle", "accepted", "refused"}
Placed(r, place) ==
    [at |-> place, mode |-> IF place \in Over THEN "current" ELSE r.mode]
Moved(c, place) == caller' = [caller EXCEPT ![c] = Placed(@, place)]

\* Mutant: a forced load starts a fetch of its own.
SharesUnforced(c) == refreshing /\ caller[c].mode # "forced"

\* load: a fetch that is under way is waited for.
Shares(c) == refreshing

\* Mutant: an unknown key is looked up at once.
UsesUnspaced(c) == Fresh /\ caller[c].mode # "forced"

\* load: the cached keys will do, for a forced load only while it may not fetch.
Uses(c) ==
    /\ Fresh
    /\ \/ caller[c].mode # "forced"
       \/ ~refreshing /\ (now < nextUnknown \/ now < nextFetch)

\* verifyAccess
Begin(c) ==
    /\ At(c, "idle") /\ Moved(c, "loading")
    /\ UNCHANGED <<now, cacheVars>>

Use(c) ==
    /\ At(c, "loading") /\ Uses(c)
    /\ Moved(c, "checking")
    /\ UNCHANGED <<now, cacheVars>>

Share(c) ==
    /\ At(c, "loading") /\ ~Uses(c) /\ Shares(c)
    /\ Moved(c, "waiting")
    /\ UNCHANGED <<now, cacheVars>>

\* Too soon after a fetch that failed; its error is returned.
Limited(c) ==
    /\ At(c, "loading") /\ ~Uses(c) /\ ~Shares(c) /\ now < nextFetch
    /\ Moved(c, "refused")
    /\ UNCHANGED <<now, cacheVars>>

Fetch(c) ==
    /\ At(c, "loading") /\ ~Uses(c) /\ ~Shares(c) /\ now >= nextFetch
    /\ refreshing' = TRUE
    /\ nextFetch' = now + RetryDelay
    /\ nextUnknown' = IF caller[c].mode = "forced" THEN now + UnknownDelay ELSE nextUnknown
    /\ Moved(c, "fetching")
    /\ UNCHANGED <<now, keys, expiresAt, lastFailure>>

\* When the fetch under way began.
Started == nextFetch - RetryDelay

\* Mutant: who waits for a refresh for an unknown key is not woken.
WokenUnforced(c, place) ==
    caller' = [w \in Caller |->
        IF w = c THEN Placed(caller[c], place)
        ELSE IF At(w, "waiting") /\ caller[w].mode # "forced"
        THEN [caller[w] EXCEPT !.at = "loading"]
        ELSE caller[w]]

\* refreshDone is closed: who waited looks again, without force.
AllWoken(c, place) ==
    caller' = [w \in Caller |->
        IF w = c THEN Placed(caller[c], place)
        ELSE IF At(w, "waiting")
        THEN [at |-> "loading",
              mode |-> IF caller[w].mode = "forced" THEN "joined" ELSE caller[w].mode]
        ELSE caller[w]]

\* Mutant: the age of the response does not count.
ExpiryFromReceipt(age) == now + TTL

\* responseCacheTTL
Expiry(age) == now + TTL - age

\* A response that left the control plane at some time of the fetch, or age
\* earlier if it comes from a shared cache.
Fetched(c) ==
    /\ At(c, "fetching")
    /\ \E age \in Age : \E sent \in Started..now :
         /\ keys' = sent - age
         /\ expiresAt' = Expiry(age)
    /\ lastFailure' = "none" /\ nextFetch' = 0
    /\ refreshing' = FALSE
    /\ AllWoken(c, "checking")
    /\ UNCHANGED <<now, nextUnknown>>

\* No response, a bad one, or a context that ended; only a forced load goes on
\* with keys that are still fresh.
FetchFails(c) ==
    /\ At(c, "fetching")
    /\ lastFailure' = "some"
    /\ refreshing' = FALSE
    /\ AllWoken(c, IF caller[c].mode = "forced" /\ Fresh THEN "checking" ELSE "refused")
    /\ UNCHANGED <<now, keys, expiresAt, nextFetch, nextUnknown>>

\* The context of a waiting caller ends.
Abandon(c) ==
    /\ At(c, "waiting")
    /\ Moved(c, "refused")
    /\ UNCHANGED <<now, cacheVars>>

\* The signature is checked; the first time, an unknown key is looked up.
Check(c) ==
    /\ At(c, "checking")
    /\ \E place \in {"accepted", "refused", "unknown"} :
         /\ place = "unknown" => caller[c].mode = "current"
         /\ Moved(c, place)
    /\ UNCHANGED <<now, cacheVars>>

\* refreshUnknownKID, before it calls load
RefreshUnknown(c) ==
    /\ At(c, "unknown")
    /\ caller' = [caller EXCEPT ![c] =
         [at |-> IF Fresh /\ ~refreshing /\ now < nextUnknown THEN "checking" ELSE "loading",
          mode |-> "forced"]]
    /\ UNCHANGED <<now, cacheVars>>

\* The verification is over and its goroutine may begin another.
Return(c) ==
    /\ At(c, "accepted") \/ At(c, "refused")
    /\ Moved(c, "idle")
    /\ UNCHANGED <<now, cacheVars>>

\* A step of a verification that does not depend on others.
Proceed(c) ==
    \/ Use(c) \/ Share(c) \/ Limited(c) \/ Fetch(c) \/ Fetched(c) \/ FetchFails(c)
    \/ Check(c) \/ RefreshUnknown(c)

\* A fetch ends by the deadline of its caller.
Tick ==
    /\ now < MaxTime
    /\ refreshing => now < Started + FetchTime
    /\ now' = now + 1
    /\ UNCHANGED <<cacheVars, caller>>

KeyNext ==
    \/ Tick
    \/ \E c \in Caller : Begin(c) \/ Proceed(c) \/ Abandon(c) \/ Return(c)

KeySpec == KeyInit /\ [][KeyNext]_keyVars

----------------------------------------------------------------------------
\* Properties

Busy(c) == caller[c].at \notin Over

\* Concurrent verifications share one fetch, nobody waits for one that is not
\* under way, and who is told to come back later is told why (load).
OneFetchAtATime ==
    /\ \A c, d \in Caller : At(c, "fetching") /\ At(d, "fetching") => c = d
    /\ refreshing <=> \E c \in Caller : At(c, "fetching")
    /\ (\E c \in Caller : At(c, "waiting")) => refreshing
    /\ ~refreshing /\ now < nextFetch => lastFailure = "some"

\* Keys are never used longer than max-age after the control plane had them,
\* but for the time of the fetch (load, responseCacheTTL).
StaleKeysAreRefused ==
    [][\A c \in Caller :
          caller'[c].at = "checking" /\ caller[c].at # "checking" =>
              keys' # NoKeys /\ now < keys' + TTL + FetchTime]_keyVars

\* While there are fresh keys, looking for unknown ones costs one fetch per
\* delay, whoever asks (load, refreshUnknownKID).
UnknownRefreshesAreSpaced ==
    [][nextUnknown' # nextUnknown /\ Fresh => now >= nextUnknown]_keyVars

\* A verification returns, whatever its fetch or the one it waits for comes to
\* (load).
VerificationsReturn == \A c \in Caller : Busy(c) ~> ~Busy(c)
==============================================================================
