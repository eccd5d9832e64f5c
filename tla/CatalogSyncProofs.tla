-------------------------- MODULE CatalogSyncProofs --------------------------
(***************************************************************************)
(* What holds of the catalog client and of the runs on top of it for every *)
(* number of callers, categories, versions and failures.                   *)
(***************************************************************************)
EXTENDS CatalogSync, TLAPS

(***************************************************************************)
(* The client.                                                             *)
(***************************************************************************)

\* Every step of the client either leaves the breaker, or is one of these.
BreakerStep ==
    \/ UNCHANGED breakerVars
    \/ Admits
    \/ recordSuccess
    \/ recordFailure
    \/ /\ healthState' \in {"UP", "DOWN"}
       /\ UNCHANGED <<breakerState, consecutiveFailures, cooled>>
    \/ /\ Refuses
       /\ cooled' = TRUE
       /\ UNCHANGED <<breakerState, consecutiveFailures, healthState>>

LEMMA ClientStepsBreaker == [ClientNext]_clientVars => BreakerStep
<1> SUFFICES ASSUME [ClientNext]_clientVars PROVE BreakerStep
  OBVIOUS
<1>1. ASSUME NEW r \in Caller, NEW c \in Category, getSchema(r, c) \/ getItems(r, c)
      PROVE  BreakerStep
  BY <1>1 DEF getSchema, getItems, Send, BreakerStep
<1>2. ASSUME NEW r \in Caller, Serve(r) \/ Answered(r) \/ Failed(r)
      PROVE  BreakerStep
  BY <1>2 DEF Serve, Answered, Failed, BreakerStep
<1>3. ASSUME NEW c \in Category, RefusedItems(c) \/ Expire(c) \/ ChangeCatalog(c)
      PROVE  BreakerStep
  BY <1>3 DEF RefusedItems, Expire, ChangeCatalog, BreakerStep
<1>4. CASE probeHealth
  BY <1>4 DEF probeHealth, BreakerStep
<1>5. CASE CoolDown
  BY <1>5 DEF CoolDown, Refuses, BreakerStep
<1>6. CASE UNCHANGED breakerVars
  BY <1>6 DEF BreakerStep
<1>7. QED
  BY <1>1, <1>2, <1>3, <1>4, <1>5, <1>6 DEF ClientNext, clientVars, breakerVars

\* The breaker's own types, apart from those of the requests.
BreakerTypeOK ==
    /\ breakerState \in {"CLOSED", "OPEN", "HALF_OPEN"}
    /\ consecutiveFailures \in Nat
    /\ cooled \in BOOLEAN
    /\ healthState \in {"UNKNOWN", "UP", "DEGRADED", "DOWN"}

LEMMA ThresholdPositive == ErrorThreshold \in Nat /\ 0 < ErrorThreshold
<1>1. ErrorThreshold \in Nat /\ ErrorThreshold # 0
  BY ClientAssumption
<1>2. QED
  BY <1>1

LEMMA BreakerStepCoherent ==
    BreakerTypeOK /\ BreakerCoherent /\ BreakerStep
        => BreakerTypeOK' /\ BreakerCoherent'
<1> SUFFICES ASSUME BreakerTypeOK, BreakerCoherent, BreakerStep
             PROVE  BreakerTypeOK' /\ BreakerCoherent'
  OBVIOUS
<1> USE ThresholdPositive DEF BreakerTypeOK, BreakerCoherent
<1>1. CASE UNCHANGED breakerVars
  BY <1>1 DEF breakerVars
<1>2. CASE Admits
  BY <1>2 DEF Admits, Refuses
<1>3. CASE recordSuccess
  BY <1>3 DEF recordSuccess
<1>4. CASE recordFailure
  <2>1. CASE consecutiveFailures' >= ErrorThreshold
    <3>1. consecutiveFailures' \in Nat /\ ~(consecutiveFailures' < ErrorThreshold)
      BY <1>4, <2>1 DEF recordFailure
    <3>2. breakerState' = "OPEN" /\ cooled' = FALSE /\ healthState' = "DOWN"
      BY <1>4, <2>1 DEF recordFailure
    <3>3. QED
      BY <3>1, <3>2, Zenon
  <2>2. CASE ~(consecutiveFailures' >= ErrorThreshold)
    <3>1. /\ consecutiveFailures' \in Nat
          /\ consecutiveFailures' \in 1 .. ErrorThreshold - 1
          /\ consecutiveFailures' < ErrorThreshold
          /\ consecutiveFailures < ErrorThreshold
      BY <1>4, <2>2 DEF recordFailure
    <3>2. breakerState = "CLOSED" /\ ~cooled
      BY <3>1
    <3>3. /\ UNCHANGED <<breakerState, cooled>>
          /\ healthState' \in {"UNKNOWN", "UP", "DEGRADED", "DOWN"}
      BY <1>4, <2>2 DEF recordFailure
    <3>4. QED
      BY <3>1, <3>2, <3>3, Zenon
  <2>3. QED
    BY <2>1, <2>2
<1>5. CASE /\ healthState' \in {"UP", "DOWN"}
           /\ UNCHANGED <<breakerState, consecutiveFailures, cooled>>
  BY <1>5
<1>6. CASE /\ Refuses
           /\ cooled' = TRUE
           /\ UNCHANGED <<breakerState, consecutiveFailures, healthState>>
  BY <1>6 DEF Refuses
<1>7. QED
  BY <1>1, <1>2, <1>3, <1>4, <1>5, <1>6 DEF BreakerStep

\* Breaker, failure count, reset timer and health never contradict each other.
THEOREM ClientCoherent == ClientSpec => []BreakerCoherent
<1>1. ClientInit => BreakerTypeOK /\ BreakerCoherent
  <2>1. 0 \in Nat /\ 0 < ErrorThreshold
    BY ThresholdPositive
  <2>2. QED
    BY <2>1, Zenon DEF ClientInit, BreakerTypeOK, BreakerCoherent
<1>2. BreakerTypeOK /\ BreakerCoherent /\ [ClientNext]_clientVars
          => (BreakerTypeOK /\ BreakerCoherent)'
  BY ClientStepsBreaker, BreakerStepCoherent
<1>3. QED
  BY <1>1, <1>2, PTL DEF ClientSpec

\* The client's state is well typed after each of its steps.
LEMMA ClientTypeStep ==
    ClientTypeOK /\ [ClientNext]_clientVars => ClientTypeOK'
<1> SUFFICES ASSUME ClientTypeOK, [ClientNext]_clientVars PROVE ClientTypeOK'
  OBVIOUS
<1> USE DEF ClientTypeOK
<1>1. /\ consecutiveFailures' \in Nat
      /\ breakerState' \in {"CLOSED", "OPEN", "HALF_OPEN"}
      /\ healthState' \in {"UNKNOWN", "UP", "DEGRADED", "DOWN"}
  BY ClientStepsBreaker
     DEF BreakerStep, breakerVars, Admits, recordSuccess, recordFailure
<1>2. cooled' \in BOOLEAN
  BY ClientStepsBreaker
     DEF BreakerStep, breakerVars, Admits, recordSuccess, recordFailure
<1>3. {} \in Items /\ \A v \in Version : ItemsAt(v) \in Items
  BY DEF Items, ItemsAt
<1>4. ASSUME NEW c \in Category, NEW items \in Items, writeCache(c, items)
      PROVE  cache' \in [Category -> Items \union {NoEntry}]
  BY <1>4 DEF writeCache
<1>5. ASSUME invalidateCache PROVE cache' \in [Category -> Items \union {NoEntry}]
  BY <1>5 DEF invalidateCache
<1>6. ASSUME NEW r \in Caller, NEW kind \in {"schema", "items"},
             NEW c \in Category, Send(r, kind, c)
      PROVE  /\ request' \in [Caller -> Request \union {NoRequest}]
             /\ UNCHANGED <<version, faults>>
  <2>1. [kind |-> kind, category |-> c, served |-> {}] \in Request
    BY DEF Request
  <2>2. QED
    BY <1>6, <2>1 DEF Send
<1>7. ASSUME NEW r \in Caller, NEW c \in Category, getSchema(r, c) \/ getItems(r, c)
      PROVE  ClientTypeOK'
  <2>1. cache' \in [Category -> Items \union {NoEntry}]
    BY <1>5, <1>7 DEF getSchema, getItems
  <2>2. /\ request' \in [Caller -> Request \union {NoRequest}]
        /\ UNCHANGED <<version, faults>>
    BY <1>6, <1>7 DEF getSchema, getItems
  <2>3. QED
    BY <1>1, <1>2, <2>1, <2>2
<1>8. ASSUME NEW r \in Caller, request[r] # NoRequest
      PROVE  /\ request[r] \in Request
             /\ request[r].category \in Category
             /\ request[r].served \subseteq Version
  <2>1. request[r] \in Request
    BY <1>8
  <2>2. QED
    BY <2>1 DEF Request
<1>9. ASSUME NEW r \in Caller, Serve(r) PROVE ClientTypeOK'
  <2>1. request[r] \in Request /\ version[request[r].category] \in Version
    BY <1>8, <1>9 DEF Serve
  <2>2. [request[r] EXCEPT !.served = {version[request[r].category]}] \in Request
    BY <2>1 DEF Request
  <2>3. request' = [request EXCEPT ![r] =
                       [request[r] EXCEPT !.served = {version[request[r].category]}]]
    BY <1>9 DEF Serve
  <2>4. request' \in [Caller -> Request \union {NoRequest}]
    BY <2>2, <2>3
  <2>5. QED
    BY <1>1, <1>2, <1>9, <2>4 DEF Serve
<1>10. ASSUME NEW r \in Caller, Answered(r) PROVE ClientTypeOK'
  <2>1. /\ request[r].category \in Category
        /\ request[r].served \subseteq Version
    BY <1>8, <1>10 DEF Answered
  <2>2. PICK v \in request[r].served :
            IF request[r].kind = "items"
            THEN writeCache(request[r].category, ItemsAt(v))
            ELSE UNCHANGED cache
    BY <1>10 DEF Answered
  <2>3. cache' \in [Category -> Items \union {NoEntry}]
    BY <1>3, <1>4, <2>1, <2>2
  <2>4. QED
    BY <1>1, <1>2, <1>10, <2>3 DEF Answered
<1>11. ASSUME NEW r \in Caller, Failed(r) PROVE ClientTypeOK'
  <2>1. request[r].category \in Category
    BY <1>8, <1>11 DEF Failed
  <2>2. cache' \in [Category -> Items \union {NoEntry}]
    BY <1>3, <1>4, <1>11, <2>1 DEF Failed
  <2>3. QED
    BY <1>1, <1>2, <1>11, <2>2 DEF Failed
<1>12. ASSUME NEW c \in Category, RefusedItems(c) PROVE ClientTypeOK'
  <2>1. cache' \in [Category -> Items \union {NoEntry}]
    BY <1>3, <1>4, <1>12 DEF RefusedItems
  <2>2. QED
    BY <1>1, <1>2, <1>12, <2>1 DEF RefusedItems
<1>13. ASSUME NEW c \in Category, Expire(c) PROVE ClientTypeOK'
  BY <1>1, <1>2, <1>13 DEF Expire
<1>14. ASSUME NEW c \in Category, ChangeCatalog(c) PROVE ClientTypeOK'
  <2>1. version[c] + 1 \in Version
    BY <1>14, ClientAssumption DEF ChangeCatalog, Version
  <2>2. QED
    BY <1>1, <1>2, <1>14, <2>1 DEF ChangeCatalog
<1>15. CASE probeHealth
  BY <1>1, <1>2, <1>15 DEF probeHealth
<1>16. CASE invalidateCache /\ UNCHANGED <<breakerVars, request, version, faults>>
  BY <1>1, <1>2, <1>5, <1>16
<1>17. CASE CoolDown
  BY <1>1, <1>2, <1>17 DEF CoolDown
<1>18. CASE UNCHANGED clientVars
  BY <1>1, <1>2, <1>18 DEF clientVars
<1>19. QED
  BY <1>7, <1>9, <1>10, <1>11, <1>12, <1>13, <1>14, <1>15, <1>16, <1>17, <1>18
     DEF ClientNext

\* The client alone is well typed in every reachable state.
THEOREM ClientTypeCorrect == ClientSpec => []ClientTypeOK
<1>1. ClientInit => ClientTypeOK
  <2>1. 0 \in Version /\ 0 \in Nat
    BY ClientAssumption DEF Version
  <2>2. QED
    BY <2>1, Zenon DEF ClientInit, ClientTypeOK
<1>2. QED
  BY <1>1, ClientTypeStep, PTL DEF ClientSpec

(***************************************************************************)
(* The runs: types, and that they use the client as CatalogClient allows.  *)
(***************************************************************************)

Todo == Seq(Category) \ {<<>>}

\* A run in progress has a category to work on.
LEMMA RunFields ==
    ASSUME SyncTypeOK, NEW r \in Caller, run[r] # Idle
    PROVE  /\ run[r] \in Run
           /\ run[r].byEvent \in BOOLEAN
           /\ run[r].todo \in Todo
           /\ run[r].hash \in Hash
           /\ Category1(r) \in Category
<1>1. run[r] \in Run
  BY DEF SyncTypeOK
<1>2. run[r].todo \in Todo /\ run[r].byEvent \in BOOLEAN /\ run[r].hash \in Hash
  BY <1>1 DEF Run, Todo
<1>3. Head(run[r].todo) \in Category
  BY <1>2 DEF Todo
<1>4. QED
  BY <1>1, <1>2, <1>3 DEF Category1

\* A concluded run and its remembered result are well typed.
LEMMA ConcludeType ==
    ASSUME SyncTypeOK, NEW r \in Caller, NEW e \in BOOLEAN, NEW todo \in Todo,
           NEW o \in SyncOutcome, NEW h \in Hash, Conclude(r, e, todo, o, h)
    PROVE  /\ lastByCategory' \in [Category -> Result \union {NoResult}]
           /\ run' \in [Caller -> Run \union {Idle}]
<1>1. [outcome |-> o, catalogHash |-> h] \in Result
  BY DEF Result
<1>2. [byEvent |-> e, todo |-> todo, at |-> o, hash |-> h] \in Run
  BY DEF Run, Todo
<1>3. QED
  BY <1>1, <1>2 DEF Conclude, SyncTypeOK

\* The first step on a category: what it does to the client and to the run.
LEMMA BeginStep ==
    ASSUME SyncTypeOK, NEW r \in Caller, NEW e \in BOOLEAN, NEW todo \in Todo,
           Begin(r, e, todo)
    PROVE  /\ lastByCategory' \in [Category -> Result \union {NoResult}]
           /\ run' \in [Caller -> Run \union {Idle}]
           /\ Head(todo) \in Category
           /\ \/ UNCHANGED <<breakerVars, request, version, faults>>
              \/ Send(r, "schema", Head(todo))
<1>1. {} \in Hash /\ "SKIPPED_CATALOG_DOWN" \in SyncOutcome
  BY DEF Hash, SyncOutcome
<1>2. [byEvent |-> e, todo |-> todo, at |-> "schema", hash |-> {}] \in Run
  BY <1>1 DEF Run, Todo
<1>3. Head(todo) \in Category
  BY DEF Todo
<1>4. CASE Conclude(r, e, todo, "SKIPPED_CATALOG_DOWN", {})
           /\ UNCHANGED <<breakerVars, request, version, faults>>
  BY <1>1, <1>3, <1>4, ConcludeType
<1>5. CASE /\ Send(r, "schema", Head(todo))
           /\ run' = [run EXCEPT ![r] = [byEvent |-> e, todo |-> todo,
                                         at |-> "schema", hash |-> {}]]
           /\ UNCHANGED lastByCategory
  BY <1>2, <1>3, <1>5 DEF SyncTypeOK
<1>6. QED
  BY <1>4, <1>5 DEF Begin

\* A run that moves to another await stays well typed.
LEMMA MoveType ==
    ASSUME SyncTypeOK, NEW r \in Caller, run[r] # Idle,
           NEW a \in {"compare", "items"}, NEW h \in Hash,
           run' = [run EXCEPT ![r].at = a, ![r].hash = h]
    PROVE  run' \in [Caller -> Run \union {Idle}]
<1>1. run[r] \in Run
  BY RunFields
<1>2. [[run[r] EXCEPT !.at = a] EXCEPT !.hash = h] \in Run
  BY <1>1 DEF Run
<1>3. QED
  BY <1>1, <1>2 DEF SyncTypeOK

\* Store changes the mirror, the result and the run within their types.
LEMMA StoreType ==
    ASSUME SyncTypeOK, NEW r \in Caller, run[r] # Idle, NEW items \in Items,
           Store(r, items)
    PROVE  SyncTypeOK'
<1>1. /\ run[r].byEvent \in BOOLEAN /\ run[r].todo \in Todo
      /\ run[r].hash \in Hash /\ Category1(r) \in Category
  BY RunFields
<1>2. "SUCCESS" \in SyncOutcome
  BY DEF SyncOutcome
<1>3. /\ lastByCategory' \in [Category -> Result \union {NoResult}]
      /\ run' \in [Caller -> Run \union {Idle}]
  BY <1>1, <1>2, ConcludeType DEF Store
<1>4. run[r].hash \subseteq Version
  BY <1>1 DEF Hash
<1>5. QED
  BY <1>1, <1>3, <1>4 DEF Store, SyncTypeOK

\* One step of the whole: it keeps the types of the runs and is a step of the
\* client, or none.
LEMMA SyncStep ==
    TypeOK /\ [Next]_vars => SyncTypeOK' /\ [ClientNext]_clientVars
<1> SUFFICES ASSUME TypeOK, [Next]_vars
             PROVE  SyncTypeOK' /\ [ClientNext]_clientVars
  OBVIOUS
<1>0. SyncTypeOK /\ ClientTypeOK
  BY DEF TypeOK
<1>1. ASSUME NEW r \in Caller, NEW c \in Category,
             UNCHANGED <<breakerVars, request, version, faults>>
                \/ Send(r, "schema", c),
             UNCHANGED cache \/ invalidateCache
      PROVE  [ClientNext]_clientVars
  BY <1>1 DEF ClientNext, getSchema, clientVars, breakerVars
<1>2. ASSUME NEW r \in Caller, NEW e \in BOOLEAN, NEW todo \in Todo,
             Begin(r, e, todo), UNCHANGED cache \/ invalidateCache,
             UNCHANGED <<itemsByCategory, fetched>>,
             inbox' \in [Category -> Nat],
             syncLog' \subseteq Category \X Result
      PROVE  SyncTypeOK' /\ [ClientNext]_clientVars
  <2>1. /\ lastByCategory' \in [Category -> Result \union {NoResult}]
        /\ run' \in [Caller -> Run \union {Idle}]
        /\ Head(todo) \in Category
        /\ \/ UNCHANGED <<breakerVars, request, version, faults>>
           \/ Send(r, "schema", Head(todo))
    BY <1>0, <1>2, BeginStep
  <2>2. [ClientNext]_clientVars
    BY <1>1, <1>2, <2>1
  <2>3. QED
    BY <1>0, <1>2, <2>1, <2>2 DEF SyncTypeOK
<1>3. ASSUME NEW r \in Caller, StartSyncAll(r)
      PROVE  SyncTypeOK' /\ [ClientNext]_clientVars
  <2>1. Categories \in Todo
    BY <1>3, SyncAssumption DEF StartSyncAll, Todo
  <2>2. QED
    BY <1>0, <1>2, <1>3, <2>1 DEF StartSyncAll, SyncTypeOK
<1>4. ASSUME NEW c \in Category PROVE <<c>> \in Todo
  BY DEF Todo
<1>5. ASSUME NEW r \in Caller, NEW c \in Category, StartSyncCategory(r, c)
      PROVE  SyncTypeOK' /\ [ClientNext]_clientVars
  BY <1>0, <1>2, <1>4, <1>5 DEF StartSyncCategory, SyncTypeOK
<1>6. ASSUME NEW r \in Caller, NEW c \in Category, HandleCatalogEvent(r, c)
      PROVE  SyncTypeOK' /\ [ClientNext]_clientVars
  <2>1. inbox' \in [Category -> Nat]
    BY <1>0, <1>6 DEF HandleCatalogEvent, SyncTypeOK
  <2>2. QED
    BY <1>0, <1>2, <1>4, <1>6, <2>1 DEF HandleCatalogEvent, SyncTypeOK
<1>7. ASSUME NEW r \in Caller, SchemaAnswered(r)
      PROVE  SyncTypeOK' /\ [ClientNext]_clientVars
  <2>1. Answered(r) /\ run[r] # Idle
    BY <1>7 DEF SchemaAnswered, RunAt
  <2>2. request[r] \in Request
    BY <1>0, <2>1 DEF Answered, ClientTypeOK
  <2>3. request[r].served \in Hash
    BY <2>2 DEF Request, Hash
  <2>4. PICK h \in Hash : h = request[r].served
    BY <2>3
  <2>5. run' = [run EXCEPT ![r].at = "compare", ![r].hash = h]
    BY <1>7, <2>4 DEF SchemaAnswered
  <2>6. run' \in [Caller -> Run \union {Idle}]
    BY <1>0, <2>1, <2>5, MoveType
  <2>7. QED
    BY <1>0, <1>7, <2>1, <2>6 DEF SchemaAnswered, SyncTypeOK, ClientNext
<1>8. ASSUME NEW r \in Caller, NEW o \in SyncOutcome, NEW h \in Hash,
             run[r] # Idle, Conclude(r, run[r].byEvent, run[r].todo, o, h),
             UNCHANGED <<itemsByCategory, inbox, syncLog, fetched>>
      PROVE  SyncTypeOK'
  <2>1. run[r].byEvent \in BOOLEAN /\ run[r].todo \in Todo
    BY <1>0, <1>8, RunFields
  <2>2. /\ lastByCategory' \in [Category -> Result \union {NoResult}]
        /\ run' \in [Caller -> Run \union {Idle}]
    BY <1>0, <1>8, <2>1, ConcludeType
  <2>3. QED
    BY <1>0, <1>8, <2>2 DEF SyncTypeOK
<1>9. ASSUME NEW r \in Caller, SchemaFailed(r)
      PROVE  SyncTypeOK' /\ [ClientNext]_clientVars
  <2>1. {} \in Hash /\ "SKIPPED_CATALOG_DOWN" \in SyncOutcome
    BY DEF Hash, SyncOutcome
  <2>2. QED
    BY <1>8, <1>9, <2>1 DEF SchemaFailed, RunAt, ClientNext
<1>10. ASSUME NEW r \in Caller, SkipUpToDate(r)
      PROVE  SyncTypeOK' /\ [ClientNext]_clientVars
  <2>1. run[r] # Idle
    BY <1>10 DEF SkipUpToDate, RunAt
  <2>2. PICK h \in Hash : h = run[r].hash
    BY <1>0, <2>1, RunFields
  <2>3. "SKIPPED_UP_TO_DATE" \in SyncOutcome
    BY DEF SyncOutcome
  <2>4. QED
    BY <1>8, <1>10, <2>1, <2>2, <2>3 DEF SkipUpToDate
<1>11. ASSUME NEW r \in Caller, StoreCached(r)
      PROVE  SyncTypeOK' /\ [ClientNext]_clientVars
  <2>1. run[r] # Idle /\ Category1(r) \in Category
    BY <1>0, <1>11, RunFields DEF StoreCached, RunAt
  <2>2. PICK items \in Items : items = cache[Category1(r)]
    BY <1>0, <1>11, <2>1 DEF StoreCached, CacheHit, ClientTypeOK
  <2>3. QED
    BY <1>0, <1>11, <2>1, <2>2, StoreType DEF StoreCached
<1>12. {} \in Items /\ \A v \in Version : ItemsAt(v) \in Items
  BY DEF Items, ItemsAt
<1>13. ASSUME NEW r \in Caller, StoreRefused(r)
      PROVE  SyncTypeOK' /\ [ClientNext]_clientVars
  <2>1. run[r] # Idle /\ Category1(r) \in Category
    BY <1>0, <1>13, RunFields DEF StoreRefused, RunAt
  <2>2. QED
    BY <1>0, <1>12, <1>13, <2>1, StoreType DEF StoreRefused, ClientNext
<1>14. ASSUME NEW r \in Caller, FetchItems(r)
      PROVE  SyncTypeOK' /\ [ClientNext]_clientVars
  <2>1. run[r] # Idle /\ run[r] \in Run /\ Category1(r) \in Category
    BY <1>0, <1>14, RunFields DEF FetchItems, RunAt
  <2>2. [run[r] EXCEPT !.at = "items"] \in Run
    BY <2>1 DEF Run
  <2>3. run' \in [Caller -> Run \union {Idle}]
    BY <1>0, <1>14, <2>2 DEF FetchItems, SyncTypeOK
  <2>4. QED
    BY <1>0, <1>14, <2>1, <2>3 DEF FetchItems, SyncTypeOK, ClientNext
<1>15. ASSUME NEW r \in Caller, ItemsAnswered(r)
      PROVE  SyncTypeOK' /\ [ClientNext]_clientVars
  <2>1. Answered(r) /\ run[r] # Idle
    BY <1>15 DEF ItemsAnswered, RunAt
  <2>2. request[r] \in Request
    BY <1>0, <2>1 DEF Answered, ClientTypeOK
  <2>3. request[r].served \subseteq Version
    BY <2>2 DEF Request
  <2>4. PICK v \in Version : Store(r, ItemsAt(v))
    BY <1>15, <2>3 DEF ItemsAnswered
  <2>5. PICK items \in Items : items = ItemsAt(v)
    BY <1>12
  <2>6. SyncTypeOK'
    BY <1>0, <2>1, <2>4, <2>5, StoreType
  <2>7. QED
    BY <2>1, <2>6 DEF ClientNext
<1>16. ASSUME NEW r \in Caller, ItemsFailed(r)
      PROVE  SyncTypeOK' /\ [ClientNext]_clientVars
  <2>1. Failed(r) /\ run[r] # Idle /\ Store(r, {})
    BY <1>16 DEF ItemsFailed, RunAt
  <2>2. QED
    BY <1>0, <1>12, <2>1, StoreType DEF ClientNext
<1>17. ASSUME NEW r \in Caller, Persist(r)
      PROVE  SyncTypeOK' /\ [ClientNext]_clientVars
  <2>1. run[r] # Idle /\ run[r].at \in SyncOutcome
    BY <1>17 DEF Persist
  <2>2. /\ run[r].byEvent \in BOOLEAN /\ run[r].todo \in Todo
        /\ run[r].hash \in Hash /\ Category1(r) \in Category
    BY <1>0, <2>1, RunFields
  <2>3. [outcome |-> run[r].at, catalogHash |-> run[r].hash] \in Result
    BY <2>1, <2>2 DEF Result
  <2>4. syncLog' \subseteq Category \X Result
    BY <1>0, <1>17, <2>2, <2>3 DEF Persist, SyncTypeOK
  <2>5. CASE Tail(run[r].todo) = <<>>
    BY <1>0, <1>17, <2>4, <2>5 DEF Persist, SyncTypeOK
  <2>6. CASE Tail(run[r].todo) # <<>>
    <3>0. Tail(run[r].todo) \in Todo
      <4>1. run[r].todo \in Seq(Category) /\ run[r].todo # <<>>
        BY <2>2 DEF Todo
      <4>2. Tail(run[r].todo) \in Seq(Category)
        BY <4>1
      <4>3. QED
        BY <2>6, <4>2 DEF Todo
    <3>1. PICK todo \in Todo : todo = Tail(run[r].todo)
      BY <3>0
    <3>2. PICK e \in BOOLEAN : e = run[r].byEvent
      BY <2>2
    <3>3. /\ Begin(r, e, todo)
          /\ UNCHANGED <<cache, itemsByCategory, inbox, fetched>>
      BY <1>17, <2>6, <3>1, <3>2 DEF Persist
    <3>4. inbox' \in [Category -> Nat]
      BY <1>0, <3>3 DEF SyncTypeOK
    <3>5. QED
      BY <1>2, <2>4, <3>3, <3>4
  <2>7. QED
    BY <2>5, <2>6
<1>18. ASSUME NEW c \in Category, CatalogChanges(c)
      PROVE  SyncTypeOK' /\ [ClientNext]_clientVars
  BY <1>0, <1>18 DEF CatalogChanges, SyncTypeOK, ClientNext
<1>19. ASSUME UNCHANGED syncVars, [ClientNext]_clientVars
      PROVE  SyncTypeOK' /\ [ClientNext]_clientVars
  BY <1>0, <1>19 DEF SyncTypeOK, syncVars
<1>20. ASSUME NEW r \in Caller, Serve(r) /\ UNCHANGED syncVars
      PROVE  SyncTypeOK' /\ [ClientNext]_clientVars
  BY <1>19, <1>20 DEF ClientNext
<1>21. ASSUME NEW c \in Category, Expire(c) /\ UNCHANGED syncVars
      PROVE  SyncTypeOK' /\ [ClientNext]_clientVars
  BY <1>19, <1>21 DEF ClientNext
<1>22. CASE Probe \/ (CoolDown /\ UNCHANGED syncVars)
  BY <1>19, <1>22 DEF ClientNext, Probe
<1>23. CASE UNCHANGED vars
  BY <1>19, <1>23 DEF vars
<1>24. QED
  BY <1>3, <1>5, <1>6, <1>7, <1>9, <1>10, <1>11, <1>13, <1>14, <1>15, <1>16,
     <1>17, <1>18, <1>20, <1>21, <1>22, <1>23 DEF Next, Continue

\* Client and runs are well typed in every reachable state.
THEOREM TypeCorrect == Spec => []TypeOK
<1>1. Init => TypeOK
  <2>1. Init => ClientTypeOK
    <3>1. 0 \in Version /\ 0 \in Nat
      BY ClientAssumption DEF Version
    <3>2. QED
      BY <3>1, Zenon DEF Init, ClientInit, ClientTypeOK
  <2>2. Init => SyncTypeOK
    BY DEF Init, SyncTypeOK, Items
  <2>3. QED
    BY <2>1, <2>2 DEF TypeOK
<1>2. TypeOK /\ [Next]_vars => TypeOK'
  BY SyncStep, ClientTypeStep DEF TypeOK
<1>3. QED
  BY <1>1, <1>2, PTL DEF Spec

\* However many runs interleave, they use the client as CatalogClient allows.
THEOREM RunsImplementClient == Spec => ImplementsClient
<1>1. Init => ClientInit
  BY DEF Init
<1>2. QED
  BY <1>1, SyncStep, TypeCorrect, PTL DEF Spec, ClientSpec, ImplementsClient

\* So breaker and health agree under every interleaving of runs.
THEOREM SyncCoherent == Spec => []BreakerCoherent
BY RunsImplementClient, ClientCoherent DEF ImplementsClient

(***************************************************************************)
(* A run that calls a category up to date relies on items some run stored. *)
(***************************************************************************)

LastStored ==
    \A c \in Category :
        lastByCategory[c] # NoResult => lastByCategory[c].catalogHash \subseteq fetched[c]

LogStored ==
    \A row \in syncLog :
        row[2].outcome = "SKIPPED_UP_TO_DATE" =>
            row[2].catalogHash # {} /\ row[2].catalogHash \subseteq fetched[row[1]]

\* A run past its schema has a hash, and one about to log that its category is
\* up to date has a hash that was stored.
RunStored(r) ==
    run[r] # Idle =>
        /\ run[r].at = "compare" => run[r].hash # {}
        /\ run[r].at = "SKIPPED_UP_TO_DATE" =>
              run[r].hash # {} /\ run[r].hash \subseteq fetched[Category1(r)]

StoredInv == LastStored /\ LogStored /\ \A r \in Caller : RunStored(r)

\* Rows stay justified while no row is added.
LEMMA LogStays ==
    ASSUME TypeOK, StoredInv, UNCHANGED syncLog,
           \A c \in Category : fetched[c] \subseteq fetched'[c]
    PROVE  LogStored'
<1> SUFFICES ASSUME NEW row \in syncLog', row[2].outcome = "SKIPPED_UP_TO_DATE"
             PROVE  row[2].catalogHash # {} /\ row[2].catalogHash \subseteq fetched'[row[1]]
  BY DEF LogStored
<1>1. row \in Category \X Result
  BY DEF TypeOK, SyncTypeOK
<1>2. row[1] \in Category
  BY <1>1
<1>3. row[2].catalogHash # {} /\ row[2].catalogHash \subseteq fetched[row[1]]
  BY DEF StoredInv, LogStored
<1>4. QED
  BY <1>2, <1>3

\* What is left to be shown of a step of one run.
LEMMA StoredFrame ==
    ASSUME TypeOK, TypeOK', StoredInv, NEW r \in Caller,
           \A c \in Category : fetched[c] \subseteq fetched'[c],
           \A s \in Caller \ {r} : run'[s] = run[s],
           LastStored', RunStored(r)', LogStored'
    PROVE  StoredInv'
<1>2. ASSUME NEW s \in Caller, s # r PROVE RunStored(s)'
  <2>1. run'[s] = run[s] /\ RunStored(s)
    BY <1>2 DEF StoredInv
  <2>2. ASSUME run[s] # Idle PROVE Category1(s) \in Category
    BY <2>2, RunFields DEF TypeOK
  <2>3. QED
    BY <2>1, <2>2 DEF RunStored, Category1
<1>3. QED
  BY <1>2 DEF StoredInv

\* A conclusion is fine when its hash was stored.
LEMMA ConcludeStored ==
    ASSUME TypeOK, TypeOK', StoredInv, NEW r \in Caller, NEW e \in BOOLEAN,
           NEW todo \in Todo, NEW o \in SyncOutcome, NEW h \in Hash,
           Conclude(r, e, todo, o, h), LogStored',
           \A c \in Category : fetched[c] \subseteq fetched'[c],
           h \subseteq fetched'[Head(todo)],
           o = "SKIPPED_UP_TO_DATE" => h # {}
    PROVE  StoredInv'
<1>1. Head(todo) \in Category
  BY DEF Todo
<1>2. LastStored'
  <2> SUFFICES ASSUME NEW c \in Category, lastByCategory'[c] # NoResult
               PROVE  lastByCategory'[c].catalogHash \subseteq fetched'[c]
    BY DEF LastStored
  <2>1. CASE c = Head(todo)
    BY <1>1, <2>1 DEF Conclude, TypeOK, SyncTypeOK
  <2>2. CASE c # Head(todo)
    <3>1. lastByCategory'[c] = lastByCategory[c]
      BY <2>2 DEF Conclude, TypeOK, SyncTypeOK
    <3>2. QED
      BY <3>1 DEF StoredInv, LastStored
  <2>3. QED
    BY <2>1, <2>2
<1>3. run'[r] = [byEvent |-> e, todo |-> todo, at |-> o, hash |-> h]
  BY DEF Conclude, TypeOK, SyncTypeOK
<1>4. o # "compare"
  BY DEF SyncOutcome
<1>5. RunStored(r)'
  BY <1>3, <1>4 DEF RunStored, Category1
<1>6. \A s \in Caller \ {r} : run'[s] = run[s]
  BY DEF Conclude, TypeOK, SyncTypeOK
<1>7. QED
  BY <1>2, <1>5, <1>6, StoredFrame

\* So are a run that begins and a run that moves on with a hash.
LEMMA MoveStored ==
    ASSUME TypeOK, TypeOK', StoredInv, NEW r \in Caller,
           run'[r] # Idle, run'[r].at # "SKIPPED_UP_TO_DATE",
           run'[r].at = "compare" => run'[r].hash # {},
           \A s \in Caller \ {r} : run'[s] = run[s],
           UNCHANGED <<lastByCategory, fetched>>, LogStored'
    PROVE  StoredInv'
<1>1. LastStored'
  BY DEF StoredInv, LastStored
<1>2. RunStored(r)'
  BY DEF RunStored
<1>3. QED
  BY <1>1, <1>2, StoredFrame

LEMMA BeginStored ==
    ASSUME TypeOK, TypeOK', StoredInv, NEW r \in Caller, NEW e \in BOOLEAN,
           NEW todo \in Todo, Begin(r, e, todo), UNCHANGED fetched, LogStored'
    PROVE  StoredInv'
<1>1. CASE Conclude(r, e, todo, "SKIPPED_CATALOG_DOWN", {})
  <2>1. {} \in Hash /\ "SKIPPED_CATALOG_DOWN" \in SyncOutcome
    BY DEF Hash, SyncOutcome
  <2>2. QED
    BY <1>1, <2>1, ConcludeStored
<1>2. CASE /\ run' = [run EXCEPT ![r] = [byEvent |-> e, todo |-> todo,
                                         at |-> "schema", hash |-> {}]]
           /\ UNCHANGED lastByCategory
  <2>1. run'[r] = [byEvent |-> e, todo |-> todo, at |-> "schema", hash |-> {}]
    BY <1>2 DEF TypeOK, SyncTypeOK
  <2>2. run'[r] \in Run
    <3>1. {} \in Hash
      BY DEF Hash
    <3>2. QED
      BY <2>1, <3>1 DEF Run, Todo
  <2>3. run'[r] # Idle /\ run'[r].at = "schema"
    <3>1. run'[r] # Idle
      BY <2>2, SyncAssumption
    <3>2. QED
      BY <2>1, <3>1
  <2>4. \A s \in Caller \ {r} : run'[s] = run[s]
    BY <1>2 DEF TypeOK, SyncTypeOK
  <2>5. QED
    BY <1>2, <2>3, <2>4, MoveStored
<1>3. QED
  BY <1>1, <1>2 DEF Begin

LEMMA StoreStored ==
    ASSUME TypeOK, TypeOK', StoredInv, NEW r \in Caller, run[r] # Idle,
           NEW items, Store(r, items)
    PROVE  StoredInv'
<1>1. /\ run[r].byEvent \in BOOLEAN /\ run[r].todo \in Todo
      /\ run[r].hash \in Hash /\ Category1(r) \in Category
  BY RunFields DEF TypeOK
<1>2. PICK h \in Hash, e \in BOOLEAN, todo \in Todo :
          h = run[r].hash /\ e = run[r].byEvent /\ todo = run[r].todo
  BY <1>1
<1>3. Conclude(r, e, todo, "SUCCESS", h) /\ UNCHANGED syncLog
  BY <1>2 DEF Store
<1>4. "SUCCESS" \in SyncOutcome
  BY DEF SyncOutcome
<1>5. /\ \A c \in Category : fetched[c] \subseteq fetched'[c]
      /\ h \subseteq fetched'[Head(todo)]
  BY <1>1, <1>2 DEF Store, Category1, TypeOK, SyncTypeOK
<1>6. QED
  BY <1>3, <1>4, <1>5, ConcludeStored, LogStays

LEMMA StoredStep ==
    TypeOK /\ TypeOK' /\ StoredInv /\ [Next]_vars => StoredInv'
<1> SUFFICES ASSUME TypeOK, TypeOK', StoredInv, [Next]_vars PROVE StoredInv'
  OBVIOUS
<1>1. ASSUME NEW c \in Category PROVE <<c>> \in Todo
  BY DEF Todo
<1>2. ASSUME NEW r \in Caller, StartSyncAll(r) PROVE StoredInv'
  <2>1. Categories \in Todo
    BY <1>2, SyncAssumption DEF StartSyncAll, Todo
  <2>2. QED
    BY <1>2, <2>1, BeginStored, LogStays DEF StartSyncAll
<1>3. ASSUME NEW r \in Caller, NEW c \in Category,
             StartSyncCategory(r, c) \/ HandleCatalogEvent(r, c)
      PROVE  StoredInv'
  BY <1>1, <1>3, BeginStored, LogStays DEF StartSyncCategory, HandleCatalogEvent
<1>4. ASSUME NEW r \in Caller, SchemaAnswered(r) PROVE StoredInv'
  <2>1. Answered(r) /\ run[r] # Idle /\ request[r].served # {}
    BY <1>4 DEF SchemaAnswered, RunAt, Answered
  <2>2. run[r] \in Run
    BY <2>1, RunFields DEF TypeOK
  <2>3. run'[r] = [run[r] EXCEPT !.at = "compare", !.hash = request[r].served]
    BY <1>4 DEF SchemaAnswered, TypeOK, SyncTypeOK
  <2>4. run'[r].at = "compare" /\ run'[r].hash # {}
    BY <2>1, <2>2, <2>3 DEF Run
  <2>5. run'[r] # Idle
    <3>1. request[r] \in Request
      BY <2>1 DEF Answered, TypeOK, ClientTypeOK
    <3>2. request[r].served \in Hash
      BY <3>1 DEF Request, Hash
    <3>3. run'[r] \in Run
      BY <2>2, <2>3, <3>2 DEF Run
    <3>4. QED
      BY <3>3, SyncAssumption
  <2>6. \A s \in Caller \ {r} : run'[s] = run[s]
    BY <1>4 DEF SchemaAnswered, TypeOK, SyncTypeOK
  <2>7. QED
    BY <1>4, <2>4, <2>5, <2>6, MoveStored, LogStays DEF SchemaAnswered
<1>5. ASSUME NEW r \in Caller, SchemaFailed(r) PROVE StoredInv'
  <2>1. run[r] # Idle
    BY <1>5 DEF SchemaFailed, RunAt
  <2>2. PICK e \in BOOLEAN, todo \in Todo : e = run[r].byEvent /\ todo = run[r].todo
    BY <2>1, RunFields DEF TypeOK
  <2>3. {} \in Hash /\ "SKIPPED_CATALOG_DOWN" \in SyncOutcome
    BY DEF Hash, SyncOutcome
  <2>4. Conclude(r, e, todo, "SKIPPED_CATALOG_DOWN", {})
        /\ UNCHANGED <<syncLog, fetched>>
    BY <1>5, <2>2 DEF SchemaFailed
  <2>5. QED
    BY <2>3, <2>4, ConcludeStored, LogStays
<1>6. ASSUME NEW r \in Caller, SkipUpToDate(r) PROVE StoredInv'
  <2>1. run[r] # Idle /\ run[r].at = "compare"
    BY <1>6 DEF SkipUpToDate, RunAt
  <2>2. PICK e \in BOOLEAN, todo \in Todo, h \in Hash :
            e = run[r].byEvent /\ todo = run[r].todo /\ h = run[r].hash
    BY <2>1, RunFields DEF TypeOK
  <2>3. h # {}
    BY <2>1, <2>2 DEF StoredInv, RunStored
  <2>4. Category1(r) \in Category
    BY <2>1, RunFields DEF TypeOK
  <2>5. h \subseteq fetched[Head(todo)]
    BY <1>6, <2>2, <2>4 DEF SkipUpToDate, UpToDate, StoredInv, LastStored, Category1
  <2>6. Conclude(r, e, todo, "SKIPPED_UP_TO_DATE", h)
        /\ UNCHANGED <<syncLog, fetched>>
    BY <1>6, <2>2 DEF SkipUpToDate
  <2>7. "SKIPPED_UP_TO_DATE" \in SyncOutcome
    BY DEF SyncOutcome
  <2>8. QED
    BY <2>3, <2>5, <2>6, <2>7, ConcludeStored, LogStays
<1>7. ASSUME NEW r \in Caller, NEW items, run[r] # Idle, Store(r, items)
      PROVE  StoredInv'
  BY <1>7, StoreStored
<1>8. ASSUME NEW r \in Caller, StoreCached(r) \/ StoreRefused(r)
                               \/ ItemsAnswered(r) \/ ItemsFailed(r)
      PROVE  StoredInv'
  <2>1. run[r] # Idle
    BY <1>8 DEF StoreCached, StoreRefused, ItemsAnswered, ItemsFailed, RunAt
  <2>2. \E items : Store(r, items)
    BY <1>8 DEF StoreCached, StoreRefused, ItemsAnswered, ItemsFailed
  <2>3. QED
    BY <1>7, <2>1, <2>2
<1>9. ASSUME NEW r \in Caller, FetchItems(r) PROVE StoredInv'
  <2>1. run[r] # Idle /\ run[r] \in Run
    BY <1>9, RunFields DEF FetchItems, RunAt, TypeOK
  <2>2. run'[r] = [run[r] EXCEPT !.at = "items"]
    BY <1>9 DEF FetchItems, TypeOK, SyncTypeOK
  <2>3. run'[r] \in Run /\ run'[r].at = "items"
    BY <2>1, <2>2 DEF Run
  <2>4. \A s \in Caller \ {r} : run'[s] = run[s]
    BY <1>9 DEF FetchItems, TypeOK, SyncTypeOK
  <2>5. QED
    BY <1>9, <2>3, <2>4, MoveStored, LogStays, SyncAssumption DEF FetchItems
<1>10. ASSUME NEW r \in Caller, Persist(r) PROVE StoredInv'
  <2>1. run[r] # Idle
    BY <1>10 DEF Persist
  <2>2. PICK e \in BOOLEAN : e = run[r].byEvent
    BY <2>1, RunFields DEF TypeOK
  <2>3. RunStored(r) /\ LogStored
    BY DEF StoredInv
  <2>4. LogStored' /\ fetched' = fetched
    <3>1. fetched' = fetched
      BY <1>10 DEF Persist
    <3>2. ASSUME NEW row \in syncLog', row \notin syncLog,
                 row[2].outcome = "SKIPPED_UP_TO_DATE"
          PROVE  row[2].catalogHash # {} /\ row[2].catalogHash \subseteq fetched[row[1]]
      <4>1. row = <<Category1(r), [outcome |-> run[r].at, catalogHash |-> run[r].hash]>>
        BY <1>10, <3>2 DEF Persist
      <4>2. QED
        BY <2>1, <2>3, <3>2, <4>1 DEF RunStored
    <3>3. QED
      BY <2>3, <3>1, <3>2 DEF LogStored
  <2>5. CASE Tail(run[r].todo) = <<>>
    <3>1. run' = [run EXCEPT ![r] = Idle] /\ UNCHANGED lastByCategory
      BY <1>10, <2>5 DEF Persist
    <3>2. \A s \in Caller : RunStored(s)'
      BY <2>4, <3>1 DEF StoredInv, RunStored, Category1, TypeOK, SyncTypeOK
    <3>3. LastStored'
      BY <2>4, <3>1 DEF StoredInv, LastStored
    <3>4. QED
      BY <2>4, <3>2, <3>3 DEF StoredInv
  <2>6. CASE Tail(run[r].todo) # <<>>
    <3>0. Tail(run[r].todo) \in Todo
      <4>1. run[r].todo \in Seq(Category) /\ run[r].todo # <<>>
        BY <2>1, RunFields DEF Todo, TypeOK
      <4>2. Tail(run[r].todo) \in Seq(Category)
        BY <4>1
      <4>3. QED
        BY <2>6, <4>2 DEF Todo
    <3>1. PICK todo \in Todo : todo = Tail(run[r].todo)
      BY <3>0
    <3>2. Begin(r, e, todo)
      BY <1>10, <2>2, <2>6, <3>1 DEF Persist
    <3>3. QED
      BY <2>4, <3>2, BeginStored
  <2>7. QED
    BY <2>5, <2>6
<1>11. ASSUME UNCHANGED <<lastByCategory, run, syncLog, fetched>> PROVE StoredInv'
  BY <1>11 DEF StoredInv, LastStored, LogStored, RunStored, Category1
<1>12. ASSUME NEW c \in Category, CatalogChanges(c) PROVE StoredInv'
  BY <1>11, <1>12 DEF CatalogChanges
<1>13. ASSUME UNCHANGED syncVars PROVE StoredInv'
  BY <1>11, <1>13 DEF syncVars
<1>14. QED
  BY <1>2, <1>3, <1>4, <1>5, <1>6, <1>8, <1>9, <1>10, <1>12, <1>13
     DEF Next, Continue, Probe, vars

\* A category is called up to date only at a hash under which items were
\* stored, for every number of runs, categories and failures.
THEOREM UpToDateStored == Spec => []UpToDateWasStored
<1>1. Init => StoredInv
  BY DEF Init, StoredInv, LastStored, LogStored, RunStored
<1>2. StoredInv => UpToDateWasStored
  BY DEF StoredInv, LastStored, LogStored, UpToDateWasStored
<1>3. QED
  BY <1>1, <1>2, StoredStep, TypeCorrect, PTL DEF Spec

(***************************************************************************)
(* A request belongs to the run that awaits it.                            *)
(***************************************************************************)

Owned(r) ==
    request[r] # NoRequest =>
        /\ run[r] # Idle
        /\ run[r].at = IF request[r].kind = "schema" THEN "schema" ELSE "items"
        /\ request[r].category = Category1(r)

\* A step of slot r leaves the other slots, and what they await, alone.
OthersWait(r) ==
    \A s \in Caller \ {r} : run'[s] = run[s] /\ request'[s] = request[s]

LEMMA OwnedFrame ==
    ASSUME RequestsOwned, NEW r \in Caller, OthersWait(r), Owned(r)'
    PROVE  RequestsOwned'
BY DEF RequestsOwned, Owned, OthersWait, Category1

\* A slot that awaits nothing of the client has no request.
LEMMA NothingAwaited ==
    ASSUME RequestsOwned, NEW r \in Caller,
           run[r] = Idle \/ run[r].at \notin {"schema", "items"}
    PROVE  request[r] = NoRequest
BY DEF RequestsOwned

\* A run that concludes has no request left.
LEMMA ConcludeOwned ==
    ASSUME TypeOK, TypeOK', RequestsOwned, NEW r \in Caller, NEW e, NEW todo,
           NEW o, NEW h, Conclude(r, e, todo, o, h), request'[r] = NoRequest,
           \A s \in Caller \ {r} : request'[s] = request[s]
    PROVE  RequestsOwned'
<1>1. OthersWait(r)
  BY DEF OthersWait, Conclude, TypeOK, SyncTypeOK
<1>2. QED
  BY <1>1, OwnedFrame DEF Owned

\* A run that sends a request awaits it.
LEMMA SendOwned ==
    ASSUME TypeOK, TypeOK', RequestsOwned, NEW r \in Caller,
           NEW kind \in {"schema", "items"}, NEW c \in Category, Send(r, kind, c),
           run'[r] # Idle, run'[r].at = kind, Head(run'[r].todo) = c,
           \A s \in Caller \ {r} : run'[s] = run[s]
    PROVE  RequestsOwned'
<1>1. request'[r] = [kind |-> kind, category |-> c, served |-> {}]
  BY DEF Send, TypeOK, ClientTypeOK
<1>2. Owned(r)'
  BY <1>1 DEF Owned, Category1
<1>3. OthersWait(r)
  BY DEF OthersWait, Send, TypeOK, ClientTypeOK
<1>4. QED
  BY <1>2, <1>3, OwnedFrame

LEMMA BeginOwned ==
    ASSUME TypeOK, TypeOK', RequestsOwned, NEW r \in Caller, NEW e \in BOOLEAN,
           NEW todo \in Todo, Begin(r, e, todo), request[r] = NoRequest
    PROVE  RequestsOwned'
<1>1. CASE /\ Conclude(r, e, todo, "SKIPPED_CATALOG_DOWN", {})
           /\ UNCHANGED request
  BY <1>1, ConcludeOwned
<1>2. CASE /\ Send(r, "schema", Head(todo))
           /\ run' = [run EXCEPT ![r] = [byEvent |-> e, todo |-> todo,
                                         at |-> "schema", hash |-> {}]]
  <2>1. run'[r] = [byEvent |-> e, todo |-> todo, at |-> "schema", hash |-> {}]
    BY <1>2 DEF TypeOK, SyncTypeOK
  <2>2. {} \in Hash
    BY DEF Hash
  <2>3. run'[r] \in Run
    BY <2>1, <2>2 DEF Run, Todo
  <2>4. run'[r] # Idle
    BY <2>3, SyncAssumption
  <2>5. run'[r].at = "schema" /\ run'[r].todo = todo
    BY <2>1
  <2>6. \A s \in Caller \ {r} : run'[s] = run[s]
    BY <1>2 DEF TypeOK, SyncTypeOK
  <2>7. Head(todo) \in Category
    BY DEF Todo
  <2>8. QED
    BY <1>2, <2>4, <2>5, <2>6, <2>7, SendOwned
<1>3. QED
  BY <1>1, <1>2 DEF Begin

\* A request that ends leaves its slot without one, and the others theirs.
LEMMA EndedRequest ==
    ASSUME TypeOK, NEW r \in Caller, Answered(r) \/ Failed(r)
    PROVE  /\ request'[r] = NoRequest
           /\ \A s \in Caller \ {r} : request'[s] = request[s]
BY DEF Answered, Failed, TypeOK, ClientTypeOK

LEMMA OwnedStep ==
    TypeOK /\ TypeOK' /\ RequestsOwned /\ [Next]_vars => RequestsOwned'
<1> SUFFICES ASSUME TypeOK, TypeOK', RequestsOwned, [Next]_vars
             PROVE  RequestsOwned'
  OBVIOUS
<1>1. ASSUME NEW c \in Category PROVE <<c>> \in Todo
  BY DEF Todo
<1>2. ASSUME NEW r \in Caller, StartSyncAll(r) PROVE RequestsOwned'
  <2>1. Categories \in Todo
    BY <1>2, SyncAssumption DEF StartSyncAll, Todo
  <2>2. request[r] = NoRequest
    BY <1>2, NothingAwaited DEF StartSyncAll
  <2>3. QED
    BY <1>2, <2>1, <2>2, BeginOwned DEF StartSyncAll
<1>3. ASSUME NEW r \in Caller, NEW c \in Category,
             StartSyncCategory(r, c) \/ HandleCatalogEvent(r, c)
      PROVE  RequestsOwned'
  <2>1. request[r] = NoRequest
    BY <1>3, NothingAwaited DEF StartSyncCategory, HandleCatalogEvent
  <2>2. QED
    BY <1>1, <1>3, <2>1, BeginOwned DEF StartSyncCategory, HandleCatalogEvent
<1>4. ASSUME NEW r \in Caller, SchemaAnswered(r) PROVE RequestsOwned'
  <2>1. Answered(r)
    BY <1>4 DEF SchemaAnswered
  <2>2. Owned(r)' /\ \A s \in Caller \ {r} : request'[s] = request[s]
    BY <2>1, EndedRequest DEF Owned
  <2>3. \A s \in Caller \ {r} : run'[s] = run[s]
    BY <1>4 DEF SchemaAnswered, TypeOK, SyncTypeOK
  <2>4. QED
    BY <2>2, <2>3, OwnedFrame DEF OthersWait
<1>5. ASSUME NEW r \in Caller, SchemaFailed(r) PROVE RequestsOwned'
  BY <1>5, EndedRequest, ConcludeOwned DEF SchemaFailed
<1>6. ASSUME NEW r \in Caller, RunAt(r, "compare"), UNCHANGED request,
             NEW e, NEW todo, NEW o, NEW h, Conclude(r, e, todo, o, h)
      PROVE  RequestsOwned'
  <2>1. request[r] = NoRequest
    BY <1>6, NothingAwaited DEF RunAt
  <2>2. QED
    BY <1>6, <2>1, ConcludeOwned
<1>7. ASSUME NEW r \in Caller,
             SkipUpToDate(r) \/ StoreCached(r) \/ StoreRefused(r)
      PROVE  RequestsOwned'
  BY <1>6, <1>7 DEF SkipUpToDate, StoreCached, StoreRefused, Store, RefusedItems,
                    clientVars
<1>8. ASSUME NEW r \in Caller, FetchItems(r) PROVE RequestsOwned'
  <2>1. run[r] # Idle /\ run[r] \in Run /\ Category1(r) \in Category
    BY <1>8, RunFields DEF FetchItems, RunAt, TypeOK
  <2>2. run'[r] = [run[r] EXCEPT !.at = "items"]
    BY <1>8 DEF FetchItems, TypeOK, SyncTypeOK
  <2>3. run'[r] \in Run /\ run'[r].at = "items" /\ run'[r].todo = run[r].todo
    BY <2>1, <2>2 DEF Run
  <2>4. run'[r] # Idle
    BY <2>3, SyncAssumption
  <2>5. \A s \in Caller \ {r} : run'[s] = run[s]
    BY <1>8 DEF FetchItems, TypeOK, SyncTypeOK
  <2>6. Send(r, "items", Category1(r)) /\ Head(run'[r].todo) = Category1(r)
    BY <1>8, <2>3 DEF FetchItems, getItems, Category1
  <2>7. QED
    BY <2>1, <2>3, <2>4, <2>5, <2>6, SendOwned
<1>9. ASSUME NEW r \in Caller, ItemsAnswered(r) \/ ItemsFailed(r)
      PROVE  RequestsOwned'
  BY <1>9, EndedRequest, ConcludeOwned DEF ItemsAnswered, ItemsFailed, Store
<1>10. ASSUME NEW r \in Caller, Persist(r) PROVE RequestsOwned'
  <2>1. run[r] # Idle /\ run[r].at \notin {"schema", "items"}
    BY <1>10 DEF Persist, SyncOutcome
  <2>2. request[r] = NoRequest
    BY <2>1, NothingAwaited
  <2>3. CASE Tail(run[r].todo) = <<>>
    <3>1. run' = [run EXCEPT ![r] = Idle] /\ request' = request
      BY <1>10, <2>3 DEF Persist, clientVars
    <3>2. Owned(r)' /\ OthersWait(r)
      BY <2>2, <3>1 DEF Owned, OthersWait, TypeOK, SyncTypeOK
    <3>3. QED
      BY <3>2, OwnedFrame
  <2>4. CASE Tail(run[r].todo) # <<>>
    <3>1. run[r].todo \in Todo /\ run[r].byEvent \in BOOLEAN
      BY <2>1, RunFields DEF TypeOK
    <3>2. Tail(run[r].todo) \in Seq(Category)
      BY <3>1 DEF Todo
    <3>3. Tail(run[r].todo) \in Todo
      BY <2>4, <3>2 DEF Todo
    <3>4. Begin(r, run[r].byEvent, Tail(run[r].todo))
      BY <1>10, <2>4 DEF Persist
    <3>5. QED
      BY <2>2, <3>1, <3>3, <3>4, BeginOwned
  <2>5. QED
    BY <2>3, <2>4
<1>11. ASSUME NEW r \in Caller, Serve(r), UNCHANGED syncVars
       PROVE  RequestsOwned'
  <2>1. request[r] \in Request /\ run' = run
    BY <1>11 DEF Serve, TypeOK, ClientTypeOK, syncVars
  <2>2. request'[r] = [request[r] EXCEPT !.served = {version[request[r].category]}]
    BY <1>11 DEF Serve, TypeOK, ClientTypeOK
  <2>3. /\ request'[r].kind = request[r].kind
        /\ request'[r].category = request[r].category
    BY <2>1, <2>2 DEF Request
  <2>4. Owned(r)'
    BY <1>11, <2>1, <2>3 DEF Serve, Owned, RequestsOwned, Category1
  <2>5. OthersWait(r)
    BY <1>11, <2>1 DEF Serve, OthersWait, TypeOK, ClientTypeOK
  <2>6. QED
    BY <2>4, <2>5, OwnedFrame
<1>12. CASE UNCHANGED <<run, request>>
  BY <1>12 DEF RequestsOwned, Category1
<1>13. ASSUME NEW c \in Category, CatalogChanges(c) \/ (Expire(c) /\ UNCHANGED syncVars)
       PROVE  RequestsOwned'
  BY <1>12, <1>13 DEF CatalogChanges, ChangeCatalog, Expire, syncVars
<1>14. CASE Probe \/ (CoolDown /\ UNCHANGED syncVars) \/ UNCHANGED vars
  BY <1>12, <1>14 DEF Probe, probeHealth, CoolDown, syncVars, vars, clientVars
<1>15. QED
  BY <1>2, <1>3, <1>4, <1>5, <1>7, <1>8, <1>9, <1>10, <1>11, <1>13, <1>14
     DEF Next, Continue

\* Each request in flight is awaited by the run of its slot, for the category
\* and of the kind that run is at, however many runs interleave.
THEOREM RequestsHaveOwners == Spec => []RequestsOwned
<1>1. Init => RequestsOwned
  BY DEF Init, ClientInit, RequestsOwned
<1>2. QED
  BY <1>1, OwnedStep, TypeCorrect, PTL DEF Spec

=============================================================================
