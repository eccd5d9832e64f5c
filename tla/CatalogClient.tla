---------------------------- MODULE CatalogClient ----------------------------
(***************************************************************************)
(* CatalogClientService: the HTTP client of catalog-service with its       *)
(* circuit breaker, its health state and its TTL cache of item lists, and  *)
(* the catalog it talks to.  A caller has at most one request in flight;   *)
(* between sending it and its answer every other caller may act.           *)
(*                                                                         *)
(* The items of a category at a version are a set: {v} stands for the      *)
(* items of version v, {} for the empty list, which the catalog may have   *)
(* (EmptyVersions) and the client also returns when a request failed.      *)
(***************************************************************************)
EXTENDS Naturals

CONSTANTS
    Caller,             \* concurrent users of the client
    Category,           \* category codes
    ErrorThreshold,     \* CATALOG_BREAKER_ERROR_THRESHOLD
    EmptyVersions,      \* versions at which a category has no items
    NoEntry,            \* no cache entry
    NoRequest           \* the caller waits for nothing

\* Bounds of the model.
CONSTANTS
    MaxVersion,         \* changes of a category at the catalog
    MaxFaults           \* requests and probes that fail

Version == 0 .. MaxVersion
Items == {{v} : v \in Version \ EmptyVersions} \union {{}}

ASSUME ClientAssumption ==
    /\ ErrorThreshold \in Nat \ {0}
    /\ MaxVersion \in Nat /\ MaxFaults \in Nat
    /\ EmptyVersions \subseteq Version
    /\ NoEntry \notin Items

\* A request in flight; served is the set of versions the catalog answered
\* with, empty until it did.
Request ==
    [kind : {"schema", "items"}, category : Category,
     served : {{}} \union {{v} : v \in Version}]

ASSUME RequestAssumption == NoRequest \notin Request

VARIABLES
    breakerState, consecutiveFailures,
    cooled,             \* resetTimeoutMs passed since openedAt
    healthState,
    cache,              \* cache[c]: the unexpired items entry of category c
    request,            \* request[r]: what caller r waits for
    version,            \* version[c]: the version at the catalog
    faults              \* failures so far

clientVars == <<breakerState, consecutiveFailures, cooled, healthState, cache,
                request, version, faults>>
breakerVars == <<breakerState, consecutiveFailures, cooled, healthState>>

ClientTypeOK ==
    /\ breakerState \in {"CLOSED", "OPEN", "HALF_OPEN"}
    /\ consecutiveFailures \in Nat
    /\ cooled \in BOOLEAN
    /\ healthState \in {"UNKNOWN", "UP", "DEGRADED", "DOWN"}
    /\ cache \in [Category -> Items \union {NoEntry}]
    /\ request \in [Caller -> Request \union {NoRequest}]
    /\ version \in [Category -> Version]
    /\ faults \in Nat

ClientInit ==
    /\ breakerState = "CLOSED"
    /\ consecutiveFailures = 0
    /\ cooled = FALSE
    /\ healthState = "UNKNOWN"
    /\ cache = [c \in Category |-> NoEntry]
    /\ request = [r \in Caller |-> NoRequest]
    /\ version = [c \in Category |-> 0]
    /\ faults = 0

-----------------------------------------------------------------------------
(* Breaker.                                                                *)

\* canAttempt returns false.
Refuses == breakerState = "OPEN" /\ ~cooled

\* canAttempt returns true; an open breaker that cooled down half-opens.
Admits ==
    /\ ~Refuses
    /\ breakerState' = IF breakerState = "OPEN" THEN "HALF_OPEN" ELSE breakerState
    /\ UNCHANGED <<consecutiveFailures, cooled, healthState>>

recordSuccess ==
    /\ consecutiveFailures' = 0
    /\ breakerState' = "CLOSED"
    /\ cooled' = FALSE
    /\ healthState' = "UP"

\* Mutation: the breaker only opens after one failure too many.
recordFailureLate ==
    /\ consecutiveFailures' = consecutiveFailures + 1
    /\ IF consecutiveFailures' > ErrorThreshold
       THEN breakerState' = "OPEN" /\ cooled' = FALSE /\ healthState' = "DOWN"
       ELSE /\ healthState' = IF healthState = "UP" THEN "DEGRADED" ELSE healthState
            /\ UNCHANGED <<breakerState, cooled>>

recordFailure ==
    /\ consecutiveFailures' = consecutiveFailures + 1
    /\ IF consecutiveFailures' >= ErrorThreshold
       THEN breakerState' = "OPEN" /\ cooled' = FALSE /\ healthState' = "DOWN"
       ELSE /\ healthState' = IF healthState = "UP" THEN "DEGRADED" ELSE healthState
            /\ UNCHANGED <<breakerState, cooled>>

\* Mutation: openedAt is never set, so the reset timeout never ends.
CoolsNever == FALSE /\ UNCHANGED clientVars

\* CATALOG_BREAKER_RESET_MS pass since openedAt.
CoolDown ==
    /\ breakerState = "OPEN" /\ ~cooled
    /\ cooled' = TRUE
    /\ UNCHANGED <<breakerState, consecutiveFailures, healthState, cache,
                   request, version, faults>>

-----------------------------------------------------------------------------
(* Requests.                                                               *)

\* rawFetch is started.  cache is left to the caller of this operator.
Send(r, kind, c) ==
    /\ request[r] = NoRequest
    /\ Admits
    /\ request' = [request EXCEPT ![r] =
                      [kind |-> kind, category |-> c, served |-> {}]]
    /\ UNCHANGED <<version, faults>>

\* Mutation: an empty category is taken for one that has items.
ItemsAtNeverEmpty(v) == {v}

\* The items list that a version of a category has.
ItemsAt(v) == IF v \in EmptyVersions THEN {} ELSE {v}

\* getItems found an unexpired entry.
CacheHit(c) == cache[c] # NoEntry

\* getItems writes whatever it returns to the cache.
writeCache(c, items) == cache' = [cache EXCEPT ![c] = items]

\* The catalog handles the request, at some moment before its answer arrives.
Serve(r) ==
    /\ request[r] # NoRequest
    /\ request[r].served = {}
    /\ request' = [request EXCEPT ![r].served = {version[request[r].category]}]
    /\ UNCHANGED <<breakerVars, cache, version, faults>>

\* rawFetch returns ok.
Answered(r) ==
    /\ request[r] # NoRequest
    /\ recordSuccess
    /\ \E v \in request[r].served :
          IF request[r].kind = "items"
          THEN writeCache(request[r].category, ItemsAt(v))
          ELSE UNCHANGED cache
    /\ request' = [request EXCEPT ![r] = NoRequest]
    /\ UNCHANGED <<version, faults>>

\* Timeout, network error or an HTTP error status, served or not: getSchema
\* returns null, getItems caches and returns [].
Failed(r) ==
    /\ request[r] # NoRequest
    /\ faults < MaxFaults
    /\ recordFailure
    /\ IF request[r].kind = "items"
       THEN writeCache(request[r].category, {})
       ELSE UNCHANGED cache
    /\ request' = [request EXCEPT ![r] = NoRequest]
    /\ faults' = faults + 1
    /\ UNCHANGED version

\* getItems with the breaker open: [] without a request, cached as well.
RefusedItems(c) ==
    /\ Refuses
    /\ ~CacheHit(c)
    /\ writeCache(c, {})
    /\ UNCHANGED <<breakerVars, request, version, faults>>

\* probeHealth: past the breaker, so it only sets the health state.
probeHealth ==
    /\ \/ healthState' = "UP" /\ UNCHANGED faults
       \/ healthState' = "DOWN" /\ faults < MaxFaults /\ faults' = faults + 1
    /\ UNCHANGED <<breakerState, consecutiveFailures, cooled, cache, request,
                   version>>

\* invalidateCache with the prefix of every items entry.
invalidateCache == cache' = [c \in Category |-> NoEntry]

\* CATALOG_CACHE_TTL_MS pass: readCache drops the entry.
Expire(c) ==
    /\ cache[c] # NoEntry
    /\ cache' = [cache EXCEPT ![c] = NoEntry]
    /\ UNCHANGED <<breakerVars, request, version, faults>>

\* The catalog changes a category.
ChangeCatalog(c) ==
    /\ version[c] < MaxVersion
    /\ version' = [version EXCEPT ![c] = @ + 1]
    /\ UNCHANGED <<breakerVars, cache, request, faults>>

\* A caller asks for the schema, or for items that are not cached, having
\* invalidated the cache first or not.
getSchema(r, c) ==
    Send(r, "schema", c) /\ (UNCHANGED cache \/ invalidateCache)

getItems(r, c) ==
    /\ ~CacheHit(c)
    /\ Send(r, "items", c)
    /\ UNCHANGED cache

ClientNext ==
    \/ \E r \in Caller, c \in Category : getSchema(r, c) \/ getItems(r, c)
    \/ \E r \in Caller : Serve(r) \/ Answered(r) \/ Failed(r)
    \/ \E c \in Category : RefusedItems(c) \/ Expire(c) \/ ChangeCatalog(c)
    \/ probeHealth
    \/ invalidateCache /\ UNCHANGED <<breakerVars, request, version, faults>>
    \/ CoolDown

ClientSpec == ClientInit /\ [][ClientNext]_clientVars

(***************************************************************************)
(* Fairness: requests end (each has a timeout), the catalog serves what    *)
(* reaches it, time passes, and each caller keeps asking.                  *)
(***************************************************************************)
ClientFairness ==
    /\ WF_clientVars(CoolDown)
    /\ \A r \in Caller :
          /\ WF_clientVars(Serve(r))
          /\ WF_clientVars(Answered(r) \/ Failed(r))
          /\ WF_clientVars(\E c \in Category : getSchema(r, c))

FairClientSpec == ClientSpec /\ ClientFairness

-----------------------------------------------------------------------------
(* Properties.                                                             *)

\* The three states that describe one outage agree, whatever order answers
\* of concurrent requests come in: the breaker is closed exactly while there
\* are fewer consecutive failures than the threshold, the reset timeout only
\* runs for a breaker that opened, and a service called DEGRADED has failed
\* but not often enough to open the breaker.
BreakerCoherent ==
    /\ breakerState = "CLOSED" <=> consecutiveFailures < ErrorThreshold
    /\ cooled => breakerState # "CLOSED"
    /\ breakerState = "HALF_OPEN" => cooled
    /\ healthState = "DEGRADED" =>
          consecutiveFailures \in 1 .. ErrorThreshold - 1

\* An outage that ends does not keep the breaker open: callers who keep
\* asking see it closed again.
BreakerRecovers == []<>(breakerState = "CLOSED")

=============================================================================
