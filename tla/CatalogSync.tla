----------------------------- MODULE CatalogSync -----------------------------
(***************************************************************************)
(* CatalogSyncService and CatalogKafkaConsumer on top of CatalogClient:    *)
(* the runs that copy the items of each category into the in-memory mirror *)
(* itemsByCategory and remember their result in lastByCategory.  A run is  *)
(* started at bootstrap and by the interval (syncAll), by POST             *)
(* /catalog-sync/run (either), or by a catalog event (syncCategory).       *)
(* Nothing keeps runs apart: they interleave at every await.               *)
(*                                                                         *)
(* ERROR results are not modelled: the client and persist swallow every    *)
(* failure, so nothing in the try block of syncCategory throws.            *)
(***************************************************************************)
EXTENDS CatalogClient, Sequences

CONSTANTS
    Categories,         \* CATALOG_CATEGORIES, a sequence
    DataSource,         \* a DataSource is injected and initialized
    NoResult,           \* no entry in lastByCategory
    Idle                \* the run slot is free

\* A schema hash stands for the version it is computed from; {} is undefined.
Hash == {{}} \union {{v} : v \in Version}
SyncOutcome == {"SUCCESS", "SKIPPED_UP_TO_DATE", "SKIPPED_CATALOG_DOWN"}
Result == [outcome : SyncOutcome, catalogHash : Hash]

\* A run: whether a catalog event triggered it, the categories left (the first
\* is being synced), the await it is at - the one of persist is named after the
\* outcome to be logged - and the hash of the schema it fetched.
Run ==
    [byEvent : BOOLEAN, todo : Seq(Category) \ {<<>>},
     at : {"schema", "compare", "items"} \union SyncOutcome, hash : Hash]

ASSUME SyncAssumption ==
    /\ Categories \in Seq(Category)
    /\ DataSource \in BOOLEAN
    /\ NoResult \notin Result
    /\ Idle \notin Run

VARIABLES
    lastByCategory,
    itemsByCategory,
    run,                \* run[r]: the run in slot r
    inbox,              \* inbox[c]: catalog events about c not yet handled
    syncLog,            \* the last row of catalog_sync_log_base_entity, if any
    fetched             \* fetched[c]: hashes a SUCCESS stored (history)

syncVars == <<lastByCategory, itemsByCategory, run, inbox, syncLog, fetched>>
vars == <<clientVars, syncVars>>

SyncTypeOK ==
    /\ lastByCategory \in [Category -> Result \union {NoResult}]
    /\ itemsByCategory \in [Category -> Items]
    /\ run \in [Caller -> Run \union {Idle}]
    /\ inbox \in [Category -> Nat]
    /\ syncLog \subseteq Category \X Result
    /\ fetched \in [Category -> SUBSET Version]

TypeOK == ClientTypeOK /\ SyncTypeOK

Init ==
    /\ ClientInit
    /\ lastByCategory = [c \in Category |-> NoResult]
    /\ itemsByCategory = [c \in Category |-> {}]
    /\ run = [r \in Caller |-> Idle]
    /\ inbox = [c \in Category |-> 0]
    /\ syncLog = {}
    /\ fetched = [c \in Category |-> {}]

-----------------------------------------------------------------------------
(* Steps of syncCategory.                                                  *)

Category1(r) == Head(run[r].todo)

\* The run is at await a, on its first category.
RunAt(r, a) == run[r] # Idle /\ run[r].at = a

\* lastByCategory.set, after which the run awaits persist.
Conclude(r, byEvent, todo, outcome, hash) ==
    /\ lastByCategory' = [lastByCategory EXCEPT ![Head(todo)] =
                             [outcome |-> outcome, catalogHash |-> hash]]
    /\ run' = [run EXCEPT ![r] = [byEvent |-> byEvent, todo |-> todo,
                                  at |-> outcome, hash |-> hash]]

\* Mutation: a run that finds the breaker open asks for the schema anyway.
BeginUnguarded(r, byEvent, todo) ==
    /\ request[r] = NoRequest
    /\ request' = [request EXCEPT ![r] =
                      [kind |-> "schema", category |-> Head(todo), served |-> {}]]
    /\ run' = [run EXCEPT ![r] = [byEvent |-> byEvent, todo |-> todo,
                                  at |-> "schema", hash |-> {}]]
    /\ UNCHANGED <<breakerVars, version, faults, lastByCategory>>

\* The start of syncCategory, up to its first await: skip because the client
\* calls the catalog DOWN or refuses the request, or ask for the schema.
\* What happens to the cache is left to the caller of this operator.
Begin(r, byEvent, todo) ==
    \/ /\ healthState = "DOWN" \/ Refuses
       /\ Conclude(r, byEvent, todo, "SKIPPED_CATALOG_DOWN", {})
       /\ UNCHANGED <<breakerVars, request, version, faults>>
    \/ /\ healthState # "DOWN"
       /\ Send(r, "schema", Head(todo))
       /\ run' = [run EXCEPT ![r] = [byEvent |-> byEvent, todo |-> todo,
                                     at |-> "schema", hash |-> {}]]
       /\ UNCHANGED lastByCategory

\* syncAll: at bootstrap, from the interval, or by POST /catalog-sync/run.
StartSyncAll(r) ==
    /\ run[r] = Idle
    /\ Categories # <<>>
    /\ Begin(r, FALSE, Categories)
    /\ UNCHANGED <<cache, itemsByCategory, inbox, syncLog, fetched>>

\* POST /catalog-sync/run?categoryCode=c
StartSyncCategory(r, c) ==
    /\ run[r] = Idle
    /\ Begin(r, FALSE, <<c>>)
    /\ UNCHANGED <<cache, itemsByCategory, inbox, syncLog, fetched>>

\* CatalogKafkaConsumer.handle: drop every cached list, then sync the
\* category.  The consumer handles one message at a time.
HandleCatalogEvent(r, c) ==
    /\ inbox[c] > 0
    /\ run[r] = Idle
    /\ \A s \in Caller : run[s] # Idle => ~run[s].byEvent
    /\ inbox' = [inbox EXCEPT ![c] = @ - 1]
    /\ invalidateCache
    /\ Begin(r, TRUE, <<c>>)
    /\ UNCHANGED <<itemsByCategory, syncLog, fetched>>

\* getSchema resolves with a schema.
SchemaAnswered(r) ==
    /\ RunAt(r, "schema")
    /\ Answered(r)
    /\ run' = [run EXCEPT ![r].at = "compare", ![r].hash = request[r].served]
    /\ UNCHANGED <<lastByCategory, itemsByCategory, inbox, syncLog, fetched>>

\* Mutation: a run without a schema keeps the hash of the run before it.
SchemaFailedKeepsHash(r) ==
    /\ RunAt(r, "schema")
    /\ Failed(r)
    /\ Conclude(r, run[r].byEvent, run[r].todo, "SKIPPED_CATALOG_DOWN",
                request[r].served)
    /\ UNCHANGED <<itemsByCategory, inbox, syncLog, fetched>>

\* getSchema resolves with null.
SchemaFailed(r) ==
    /\ RunAt(r, "schema")
    /\ Failed(r)
    /\ Conclude(r, run[r].byEvent, run[r].todo, "SKIPPED_CATALOG_DOWN", {})
    /\ UNCHANGED <<itemsByCategory, inbox, syncLog, fetched>>

\* The result remembered for the category has the hash of the schema.
UpToDate(r) ==
    LET last == lastByCategory[Category1(r)] IN
        last # NoResult /\ last.catalogHash = run[r].hash

\* The hash did not change: nothing to fetch.
SkipUpToDate(r) ==
    /\ RunAt(r, "compare")
    /\ UpToDate(r)
    /\ Conclude(r, run[r].byEvent, run[r].todo, "SKIPPED_UP_TO_DATE",
                run[r].hash)
    /\ UNCHANGED <<clientVars, itemsByCategory, inbox, syncLog, fetched>>

\* The mirror becomes the items, under the hash of the schema fetched before.
Store(r, items) ==
    /\ itemsByCategory' = [itemsByCategory EXCEPT ![Category1(r)] = items]
    /\ fetched' = [fetched EXCEPT ![Category1(r)] = @ \union run[r].hash]
    /\ Conclude(r, run[r].byEvent, run[r].todo, "SUCCESS", run[r].hash)
    /\ UNCHANGED <<inbox, syncLog>>

\* getItems is answered by the cache.
StoreCached(r) ==
    /\ RunAt(r, "compare")
    /\ ~UpToDate(r)
    /\ CacheHit(Category1(r))
    /\ Store(r, cache[Category1(r)])
    /\ UNCHANGED clientVars

\* getItems is refused by the breaker, which opened since the schema came.
StoreRefused(r) ==
    /\ RunAt(r, "compare")
    /\ ~UpToDate(r)
    /\ RefusedItems(Category1(r))
    /\ Store(r, {})

FetchItems(r) ==
    /\ RunAt(r, "compare")
    /\ ~UpToDate(r)
    /\ getItems(r, Category1(r))
    /\ run' = [run EXCEPT ![r].at = "items"]
    /\ UNCHANGED <<lastByCategory, itemsByCategory, inbox, syncLog, fetched>>

ItemsAnswered(r) ==
    /\ RunAt(r, "items")
    /\ Answered(r)
    /\ \E v \in request[r].served : Store(r, ItemsAt(v))

\* Mutation: the run gives up on its request without ending it.
ItemsAbandoned(r) ==
    /\ RunAt(r, "items")
    /\ Store(r, {})
    /\ UNCHANGED clientVars

\* getItems resolves with [], which syncCategory takes for the catalog's.
ItemsFailed(r) ==
    /\ RunAt(r, "items")
    /\ Failed(r)
    /\ Store(r, {})

\* Mutation: the run waits for a category that is not there.
PersistForever(r) ==
    /\ run[r] # Idle /\ run[r].at \in SyncOutcome
    /\ Tail(run[r].todo) # <<>>
    /\ Begin(r, run[r].byEvent, Tail(run[r].todo))
    /\ UNCHANGED <<cache, itemsByCategory, inbox, syncLog, fetched>>

\* The INSERT of persist settles: the row is there, or it failed without a trace.
\* Nothing limits how long that takes.  Then syncAll goes on to the next category.
Persist(r) ==
    /\ run[r] # Idle /\ run[r].at \in SyncOutcome
    /\ LET row == [outcome |-> run[r].at, catalogHash |-> run[r].hash] IN
          \/ DataSource /\ syncLog' = {<<Category1(r), row>>}
          \/ UNCHANGED syncLog
    /\ IF Tail(run[r].todo) = <<>>
       THEN /\ run' = [run EXCEPT ![r] = Idle]
            /\ UNCHANGED <<clientVars, lastByCategory>>
       ELSE /\ Begin(r, run[r].byEvent, Tail(run[r].todo))
            /\ UNCHANGED cache
    /\ UNCHANGED <<itemsByCategory, inbox, fetched>>

-----------------------------------------------------------------------------

\* The catalog changes and announces it on its topic.
CatalogChanges(c) ==
    /\ ChangeCatalog(c)
    /\ inbox' = [inbox EXCEPT ![c] = @ + 1]
    /\ UNCHANGED <<lastByCategory, itemsByCategory, run, syncLog, fetched>>

\* GET /catalog-sync/health, and the probe of the bootstrap.
Probe == probeHealth /\ UNCHANGED syncVars

\* The steps of a run, once started.
Continue(r) ==
    \/ SchemaAnswered(r) \/ SchemaFailed(r)
    \/ SkipUpToDate(r) \/ StoreCached(r) \/ StoreRefused(r) \/ FetchItems(r)
    \/ ItemsAnswered(r) \/ ItemsFailed(r)
    \/ Persist(r)

Next ==
    \/ \E r \in Caller :
          \/ StartSyncAll(r)
          \/ \E c \in Category : StartSyncCategory(r, c) \/ HandleCatalogEvent(r, c)
          \/ Continue(r)
          \/ Serve(r) /\ UNCHANGED syncVars
    \/ \E c \in Category : CatalogChanges(c) \/ (Expire(c) /\ UNCHANGED syncVars)
    \/ Probe
    \/ CoolDown /\ UNCHANGED syncVars

Spec == Init /\ [][Next]_vars

(***************************************************************************)
(* Fairness: requests end (each has a timeout) and are served, the         *)
(* database answers the INSERT of persist or refuses it (nothing in the    *)
(* code would end one that it leaves open), the consumer handles its       *)
(* messages, and time passes.                                              *)
(* The interval starts syncAll whatever other runs do; that a slot must be *)
(* free for it is a bound of the model, hence the strong fairness.  Nobody *)
(* is obliged to probe the catalog, to start a run by hand, or to change   *)
(* the catalog.                                                            *)
(***************************************************************************)
Fairness ==
    /\ \A r \in Caller :
          /\ WF_vars(Serve(r) /\ UNCHANGED syncVars)
          /\ WF_vars(Continue(r))
    /\ SF_vars(\E r \in Caller : StartSyncAll(r))
    /\ \A c \in Category :
          /\ WF_vars(\E r \in Caller : HandleCatalogEvent(r, c))
          /\ WF_vars(Expire(c) /\ UNCHANGED syncVars)
    /\ WF_vars(CoolDown /\ UNCHANGED syncVars)

FairSpec == Spec /\ Fairness

-----------------------------------------------------------------------------
(* Properties.                                                             *)

\* Whatever interleaves, fails or goes unlogged, a run only calls a category
\* up to date at a hash under which some run stored items before: a skipped
\* or failed run leaves no hash behind that would stop the next one.
UpToDateWasStored ==
    /\ \A c \in Category :
          lastByCategory[c] # NoResult => lastByCategory[c].catalogHash \subseteq fetched[c]
    /\ \A row \in syncLog :
          row[2].outcome = "SKIPPED_UP_TO_DATE" =>
              row[2].catalogHash # {} /\ row[2].catalogHash \subseteq fetched[row[1]]

\* Each request belongs to the run that awaits it, and a run awaits a request
\* only for the category and of the kind it is at.
RequestsOwned ==
    \A r \in Caller :
        request[r] # NoRequest =>
            /\ run[r] # Idle
            /\ run[r].at = IF request[r].kind = "schema" THEN "schema" ELSE "items"
            /\ request[r].category = Category1(r)

\* The runs use the client only as CatalogClient allows.
ImplementsClient == ClientSpec

\* Every run ends and gives its slot, its interval tick or the consumer back, as
\* long as the database answers.
RunsFinish == \A r \in Caller : run[r] # Idle ~> run[r] = Idle

\* Unless the client is left thinking that the catalog is down, the remembered
\* hash ends up being the catalog's, however runs interleave and requests fail.
HashConverges ==
    <>[](healthState # "DOWN") =>
        <>[](\A c \in Category :
                /\ lastByCategory[c] # NoResult
                /\ lastByCategory[c].catalogHash = {version[c]})

\* An empty list is the catalog's legitimate answer.
EmptyMirrorIsCatalogs ==
    \A c \in Category :
        fetched[c] # {} /\ itemsByCategory[c] = {} => fetched[c] \cap EmptyVersions # {}

\* A catalog event invalidates the cache and syncs the category, so that what
\* a run calls up to date mirrors the items of the hash.
UpToDateMirrors ==
    \A c \in Category :
        lastByCategory[c] # NoResult /\ lastByCategory[c].outcome = "SKIPPED_UP_TO_DATE"
            => itemsByCategory[c] = ItemsAt(CHOOSE v \in lastByCategory[c].catalogHash : TRUE)

=============================================================================
