# Verification of microservicio-customer

TLA+ models of microservicio-customer: the path of a domain event through Kafka,
the client and synchronisation of the catalog, the commands and queries of the
four entity modules with their projections, caches and bulk operations, the
referral read model, the delivery of log traces, and the start of the Kafka
modules. TLC checks them on small instances; the TLA+ proof system proves the
safety properties and three refinements for every value of the constants.
Paths below are relative to the repository (`src/...`).

## 1. The system

A NestJS service. One process serves HTTP and GraphQL, keeps its entities in a
PostgreSQL database, announces every change on Kafka, consumes its own topics (and
those of the catalog), and mirrors the nomenclators of `catalog-service`. Four
entity modules (`customer`, `customer-gateway-onboarding`,
`customer-onboarding-status`, `catalog-sync-log`) are near-identical copies of one
generated shape, each with its own copy of `shared/`.

| Part | State it keeps | Operations | Talks to |
|---|---|---|---|
| Kafka event pipeline (`shared/adapters`, `shared/messaging`, `events/event-registry.ts`) | sends in flight, topics, offsets, the map of processed keys | publish, route, retry, dead-letter, skip, expire | commands (publisher), the local EventBus (subscriber) |
| Kafka module bootstrap (`modules/kafka.module.ts`, `kafka-admin.service.ts`, `kafka.service.ts`) | connections, registered handlers, subscriptions, flags that outlive a failed attempt | start, create topics, wait for them, subscribe, run, retry, shut down | the broker |
| Catalog client (`catalog-client/catalog-client.service.ts`) | breaker, failure counter, health state, TTL cache | getSchema, getItems, validateItem, probeHealth, invalidateCache | catalog-service over HTTP |
| Catalog sync (`catalog-sync.service.ts`, `catalog-kafka.consumer.ts`, `catalog-sync.controller.ts`) | last result and items per category, log rows | syncAll, syncCategory, health | the client; bootstrap, interval, HTTP and Kafka start runs |
| Entity commands (`services/*command.service.ts`, `repositories/*command.repository.ts`, controllers, resolvers, handlers, `cache.decorator.ts`) | a table each, layers of `@Cacheable` entries | create, update, delete, bulk variants, announcements of a status, `handle` with its projections | the pipeline (events out, echoes in) |
| Entity queries (`services/*query.service.ts`, `repositories/*query.repository.ts`, facade repositories) | none but cache entries | find*, count, pages | the table |
| Referral read model (`customerquery.service.ts`) | the cached internal access token | referral tree, earnings summary | security, SalesManager, payment, the table |
| Projection replay (`projection-replay.service.ts`) | a second consumer | replay | projections |
| Log traces (`log-execution-time`, `http-logger.client.ts`, `kafka-logger.client.ts`) | one producer and one HTTP client for all calls | decorate, deliver, close | broker, log service |
| Event store, sagas, guards, listeners, metrics, configuration | little or none | | |

How they interact: a command saves the row, publishes its event on the local
`EventBus` (where the same repository handles it as a projection), and hands it to
`KafkaEventPublisher`, whose send nobody awaits. The service consumes its own
topic: the echo comes back through `KafkaEventSubscriber` to the same `EventBus`
and so to the same projection a second time. The onboarding module also announces
the status it finds after an update (started, approved, rejected, expired), and
awaits that send. Catalog events arrive on another consumer, drop the client's cache and start a
sync run, while the interval and the HTTP endpoint start others; all of them share
one client, one breaker, and the maps of the sync service. Nearly every method is
decorated, so that its caller waits for the delivery of its trace.

### What is hard about it

* **Awaits.** Requests, projections and sync runs interleave at every await;
  nothing locks a row or a category. The `save` of a projection is itself two
  statements.
* **Sends nobody awaits.** A saved row and its announcement are two steps; the
  second may never happen.
* **At-least-once delivery against an in-memory memory.** Kafka redelivers from a
  committed offset, or starts at the end of a topic where its group has none; the
  keys that should stop duplicates die with the process and expire.
* **Retries**: of messages through other topics with a counter in the message; of
  the whole start, over what a failed attempt left behind.
* **Events that come back.** A projection overwrites the row with what an event
  carried, however much later; a replay brings all of them back.
* **Bulk operations** of several statements and events that stop half-way.
* **Caches**: answers of commands that repeat a success instead of executing it;
  items of another version; a token about to expire.
* **Shared objects**: the breaker, with requests in flight when it opens or closes;
  the HTTP client of the traces, which the call that is done first closes.

### What makes each part correct

* Pipeline: an announced event is eventually settled, and no path loses it without
  an outcome but the start at the end of a topic; dead letters have used up their retries; a key reaches the EventBus
  once per memory of it; only keys that were routed are skipped.
* Start: a start that says it is up has subscribed every topic, on topics that
  could be listed, within its retries.
* Client: breaker, failure counter, reset timer and health state describe the same
  outage; an outage that ends closes the breaker.
* Sync: what is called up to date was stored under that hash; runs end; hashes
  converge to the catalog's.
* Commands: a row is one that some command wrote, as a whole unless a write came
  between the two statements of a `save`, and column by column even then; an
  acknowledged write has been announced; a bulk update that stops leaves a prefix; a refused
  creation leaves nothing; without races the table holds the last write; every
  command is answered; events coming back die out.
* Queries: the pages of a walk over a quiet table add up to its rows; rows and
  count of an answer agree.
* Read model: nothing but a missing customer or user refuses a request, and no
  token is taken that is about to expire.
* Traces: the trace never changes the outcome of a method, and a lost one, or a
  call that hangs, was hit by something.

## 2. Modules

| Module | Role | Code |
|---|---|---|
| `EventDelivery` | abstract: announced events are retried, buried, dropped, settled, or missed where they may be | the promise of the next module |
| `KafkaEventPipeline` | publisher, broker topics, subscriber, idempotency, dead letters, crashes | `kafka-event-publisher.ts`, `kafka.service.ts`, `kafka-event-subscriber.ts`, `event-idempotency.service.ts`, `kafka-dead-letter.service.ts`, `event-registry.ts` |
| `CatalogClient` | breaker, health, cache, requests in flight, the catalog behind them | `catalog-client.service.ts` |
| `CatalogSync` | extends `CatalogClient` with the runs that use it | `catalog-sync.service.ts`, `catalog-kafka.consumer.ts`, `catalog-sync.controller.ts` |
| `CustomerWriteModel` | single commands over service, repository, `@Cacheable` layers and table; projections and echoes | `customercommand.service.ts`, `customercommand.repository.ts`, `cache.decorator.ts`, `customer.entity.ts` |
| `EntityCommands` | what the four modules share: single and bulk commands, announcements, projections, topics, crashes, replay | the command services and repositories of the four modules, `projection-replay.service.ts` |
| `CustomerCommands`, `OnboardingCommands`, `OnboardingStatusCommands`, `SyncLogCommands` | instantiate it, with each module's rules, routes and handlers by name | the command side of one module each |
| `EntityModules` | the four side by side: one variable tells which is at work | |
| `EntityQueries` | what the four share on the read side | the query services and repositories of the four modules |
| `CustomerQueries`, `OnboardingQueries`, `OnboardingStatusQueries`, `SyncLogQueries` | instantiate it, with each module's methods by name | the query side of one module each |
| `ReferralReadModel` | login and cached token, calls in parallel, the answer | `customerquery.service.ts` |
| `TraceDelivery` | a decorated method and the way of its trace | `LogExecutionTime`, the logger clients |
| `Startup` | abstract: a bounded series of attempts that ends up or gives up | the promise of the next module |
| `KafkaBootstrap` | attempts, topics, subscriptions, flags, shutdown | `kafka.module.ts`, `kafka-admin.service.ts`, `kafka.service.ts`, `kafka-event-subscriber.ts` |
| `ServiceParts` | commands, queries, read model, traces and start in one specification | |
| `*Proofs` (eight) | theorems of the module they extend; those about the traces are in `ServicePartsProofs` | |
| `MC*` | constants and symmetry sets for TLC | |

`CatalogSync` is the composition of client and runs: it uses the client's operators
inside its own actions, and `ImplementsClient` states that it lets the client do
nothing else than `CatalogClient` says.

`ServiceParts` puts the parts beside the catalog and the pipeline under one
specification with one part at work at a time. They meet in the tables only, and
each has the writes of the others among its own steps (`Save` and `Delete` of the
queries, `Change` of the read model, the echoes of the commands), so their product
would add states and no behaviour. The four entity modules share no table, topic or
event either; `EntityModules` picks one of them. `CustomerWriteModel` and
`EntityCommands` take of the pipeline what its users see of it; the mechanism
itself is in `KafkaEventPipeline`.

`PROJECT.json` names the lines each definition stands for. Definitions marked
"Mutation" in a comment are wrong variants of the action that follows them; they
are no part of a specification, and each shows that a property notices the bug.
In the modules that `ServiceParts` instantiates, what the constants have to be is
the operator `WellPosed`; `PartsAssumption` assumes all of them, and TLC evaluates it.

### State and actions against the code

**`KafkaEventPipeline`.** `outbox` is the set of `producer.send` promises not yet
settled. A partition is a topic (main or retry) and an aggregate id, since both
the publisher and the retry path key messages by aggregate; `log`, `position` and
`committed` are the broker's sequence and the consumer's two offsets.
`processed` is `EventIdempotencyService.processedEvents`. Because the
repositories publish events without an `eventId`, the key is
`topic:aggregateId` (`IdempotencyKey`). One consumer action is one
`eachMessage`: `IgnoreUntrusted`, `SkipDuplicate`, `RouteExternalEvent` are the
returns of `routeExternalEvent` in their order, and `SendToRetry`,
`SendToDeadLetter`, `FailureSendRejected` are `handleProcessingFailure` after a
throw. `eachMessage` swallows every error, so the offset moves on in all of
them. `Join` is the consumer that starts: `subscribe` passes `fromBeginning: false`
(`kafka.service.ts:155`), so a partition without a committed offset (`None`) is read
from its end, and the events before are booked as "missed" (`PassedOver`). Any set
of partitions may be without an offset at first (`fresh`), and events may be
announced before the consumer has joined. `Restart` empties what is in memory, and
the consumer joins again from `committed`; it also stands for the unhandled
rejection of a send, which ends a Node 20 process. `CommitOffset` may commit a
position from which nothing was read yet, which kafkajs would leave uncommitted:
the properties hold with either. With
the stock CQRS bus only exceptions thrown synchronously by `publish` reach the
retry path; the model lets any attempt throw. The other three modules have copies
of this code that differ in log texts and in group and client ids only.

**`CatalogClient`.** A request in flight is a record in `request`; the catalog
reads its version (`Serve`) at some moment between send and answer. `Answered`
and `Failed` are the two ends of `rawFetch` with `recordSuccess` /
`recordFailure` and the cache write of `getItems`, which also caches the empty
list of a failure. `RefusedItems` is a call that the open breaker refuses.
`cooled` stands for the comparison of the clock with `openedAt + resetTimeoutMs`.
A version of a category stands for its hash and items alike.

**`CatalogSync`.** A run keeps the categories still to do, the await it is at, and
the hash of its schema. `Begin` is `syncCategory` up to its first await,
including the health check before the breaker; `Store` writes mirror and result;
`Persist` inserts the log row or is refused, and then `syncAll` goes on to the next
category in the same step, as the code does. The INSERT has no timeout (the hard
timeout of the service is for the bootstrap), so that the database answers is an
assumption, made in `Fairness`. `ERROR` outcomes are not
modelled: nothing inside that try block can throw.

**`CustomerWriteModel`.** A command is executed in a slot, one step per await:
`StartCommand` or `AnswerFromCache` (the service's entry), `LoadForUpdate` /
`LoadForDelete` (`findById`), `LookUp` (the repository's entry), then `Save`,
`Overwrite` and `Reload`, or `Find` and `Remove`, and `Answer`. `Publish` is
the pair of un-awaited publications: `handle` looks its projection key up at
once, and the event is put on Kafka. `Apply` and `ApplyFails` are the
writing statement of the three projections. That of a creation is TypeORM's `save`,
which reads the row first (`LoadForSave`, kept in `found`) and then inserts, or
updates only the columns that differ from what it read (`Differing`): a command may
write in between, and `overtaken` remembers that one did. An echo arrives with a random `eventId`, so it
never hits the local projection's entry. Two fields stand for the columns (one
with a column default, one initialised by the class, which is how an update of a
missing row and an undefined field differ); `userId` is unique and the model's
customers share it, so ids are incarnations of one customer and creations compete
for it; cache keys say what was asked and leave out dates; an entry expires exactly
when a look-up misses it.

**`EntityCommands`.** One column stands for the row and no two commands ask the
same, so caches stay out of it: those are the subject of `CustomerWriteModel`. A
command goes from place to place, one step per await: `Request` or `TurnAway`
(controller, resolver or handler), `Check`, `LoadForUpdate`, `LoadForDelete` (the
service up to the repository), `SaveOne`, `SaveAll`, `Overwrite`, `Reload`,
`PublishAgain`, `Find`, `Remove`, `RemoveAll`, `FindRemoved` (the repository), and
`Announce` (`publishDslDomainEvents`, which awaits its send). `bulkCreate` is one
save and so a transaction; `bulkUpdate` calls `update` entity by entity, which
publishes, and publishes each event once more (`copy` tells the two apart);
`bulkDelete` removes the rows and then looks the entities up for their events.
`local` and `echoes` are the projections under way, from the EventBus and from the
topics. The instances fix the rules: which column is required or unique, its
default, which status is announced as which event. The onboarding rows have a unique
code and a unique pair of customer and gateway beside the column that the model
has, so any save or update of theirs may be refused (`OtherKeys`, `BreaksKey`); the
announced statuses are `started`, `approved`, `rejected` and
`expired`. In all four modules `PUT bulk` and `DELETE bulk` are routes that
`:id` shadows, GraphQL's `deleteX` and `createOrUpdateX` hand over arguments that
the services refuse, and the bulk update and deletion have callers inside the
process only: the instances say so, method by method. A crash empties memory and
lets the consumer resume at any place up to the one it had come to, or at the end of
a topic (`Resumptions`); what it reads again meets an empty `seen`. Nobody in the
code starts a replay, so the model lets one start at any time.

**`EntityQueries`.** `heap` is the table as a set, because the repositories ask for
no order: a page is any set of rows of the size that skipping leaves (`Window`), and
`findOne` any row that matches. `Select` and `Count` are the
statements of the repository (`findAndCount` may need a second one), `Answer` is
the service: nothing found is an error for `findById` and `findOne`, and an error
object that is returned like an entity for `findOneOrFail`. `Turn` is a client that
walks the pages from 1. `TurnToZero` asks for page 0, with which `PaginationArgs`
starts to count: the controllers turn it into page 1, the resolvers hand it on, and
the negative offset that the repository makes of it is refused by the database, so
its only end is `Fail`. What `@Cacheable` does to a repeated query is left out: the entry
repeats an answer, and the properties are about the answers that are computed.

**`ReferralReadModel`.** `Ask` reads the root customer; `call` holds the calls of
the step the request is at, all open at once (`Promise.all`). Each takes the cached
token or logs in (`Opened`), and several may do so at the same time, replacing each
other's token. `stated` is what the login says about the expiry: a time, nothing, or
something that is no number; only from the first two the code takes its margin of
15 s off. A tree is a sequence of users; wallets are read once, and again for the
earnings.

**`TraceDelivery`.** `Invoke` to `Return` is the wrapper of `LogExecutionTime`.
`connecting` is the promise that all callers of `KafkaLoggerClient.connect` share.
`CloseAndReturn` is `handleLogDelivery`'s `close`, which destroys the agent and
with it the sockets of other calls (`Broken`). `HttpAnswered` is the arrival of the
headers of an answer, `HttpSent` its end. A request that loses its socket before the
headers fails (`BrokenSettles`); after them only the response is told, to which
`executeRequest` does not listen, so the call hangs for ever (`AfterClose`,
`AnswerCut`). `HttpProbed` always connects: `connect` returns true whatever the probe
found.

**`KafkaBootstrap`.** `at` is where `bootstrapKafka` is, `attempt` its argument.
`connected`, `adminConnected`, `consumerRunning`, `topicHandlers`,
`subscribedTopics` and `initialized` are the fields that a failed attempt leaves
behind. `Recover` is the timer of 5 s and its limit; `SubscribeTopic` registers the
handler first; `Run` sets `consumerRunning` before `consumer.run`. `Destroy` is the
shutdown hook, which knows nothing of the attempt, and `Exit` the end of the
process.

## 3. Runs

| Run | Instance | Distinct states | What it shows |
|---|---|---|---|
| `pipeline_faults` | 2 updates of one customer, 1 of them untrusted, topics with and without an offset of the group, 1 retry, 1 crash or expired key, 1 duplicated send; fair | 428,793 | `TypeOK`, `NoSilentLoss`, `DeadLettersExhausted`, `KeyRoutedOncePerMemory`, `SkipJustified`, `ExactlyOnePlace`, refinement of `EventDelivery`, `EverySettled` |
| `pipeline_dedup` | 2 updates, no faults | stops at the violation | **violated** `SkippedWereProcessed` |
| `client_breaker` | 3 callers, threshold 2, 4 failures, versions 0 and 1 (1 without items); fair | 55,917 | `ClientTypeOK`, `BreakerCoherent`, `BreakerRecovers` |
| `sync_interleaved` | 2 symmetric runs, 1 category that the list names twice, 2 failures, 1 change | 642,314 | `TypeOK`, `UpToDateWasStored`, `RequestsOwned`, `ImplementsClient` |
| `sync_progress` | 2 runs, 1 category, threshold 1, 1 failure, 1 change, a data source; fair | 237,780 | `RunsFinish`, `HashConverges` |
| `sync_empty` | 1 run, no change, 1 failure | stops at the violation | **violated** `EmptyMirrorIsCatalogs` |
| `sync_stale` | 1 run, 1 change, no failure | stops at the violation | **violated** `UpToDateMirrors` |
| `sync_recovery` | 1 run, threshold 2, 2 failures; fair | stops at the violation | **violated** `BreakerRecovers` |
| `write_commands` | 2 clients, 2 ids, 4 DTOs, 7 scenarios of 2 or 3 commands with at most 1 fault; fair | 118,475 | `TypeOK`, `RowsAuthored`, `CachedAnswersBacked`, `UnracedRowsAreLast`, `CommandsAnswered`, `EventsDrain` |
| `write_acknowledged` | 1 client, 1 id, 4 commands, no fault | stops at the violation | **violated** `AcknowledgedHolds` |
| `parts` | 32 scenarios of up to two commands over the four modules; tables of 2 and 3 rows; one request on 2 users; 2 traces; 2 topics, 2 retries, 2 polls; fair | 100,159 | `TypeOK`; commands: `RowsGrounded`, `AcknowledgedAnnounced`, `BulkPrefix`, `RefusedCreationsLeaveNothing`, `CalmRowsAreLast`, `EventsDrain`; queries: `PagesAddUp`, `CountAgrees`; read model: `RefusalJustified`, `CachedTokenInTime`; traces: `OutcomeKept`, `LossExplained`; start: `UpIsSubscribed`, `SubscribedAreListed`, `ImplementsStartup`; all: `AnswersArrive` |
| `advance` | an onboarding that is started and then approved, one command after the other, no fault | stops at the violation | **violated** `StatusAdvances` |

### Bounds

* *Pipeline.* Two events with one key are what deduplication is about; a third
  adds no new relation. One retry gives each event two attempts, so both sides of
  the comparison with `MaxRetries` occur. One crash is enough to rewind behind a
  marked key or to join a second time, and one duplicate to see both copies. The
  group starts with or without an offset of each of the two topics.
* *Client.* Three callers with threshold 2 let a success and two failures be in
  flight at once while the breaker opens; four failures let it open, half-open
  and open again. A version without items tells the legitimate empty list from
  that of a failure.
* *Sync.* Two runs of one category meet at every await; the event-triggered run
  is one of them. `syncAll`'s continuation needs a list of two, and the category
  named twice (nothing forbids it in `CATALOG_CATEGORIES`) gives it without another
  catalog. One change gives an old and a new hash. `sync_progress` has two runs and
  a list of one: liveness is checked without symmetry, which makes it the dearer
  run. With the threshold 1 its one failure opens the breaker.
* *Customer commands.* `Scenarios` is the bound: which slot sends what, in which
  order, and how many calls may fail. They race creations, updates and deletions, and one is
  creation, change of the level, change of the reference, which is the
  shortest to mix two writes in a row. A fault falls on any database call or
  message; the second id is the second incarnation of the customer. The violated run needs four commands: create, A, B, A.
* *Entity commands.* `Scenarios` is the bound: a table, what two commands ask, and
  how many incidents (failing calls, lost messages, crashes, replays) may happen.
  `Common` has a pair for each operation that meets another one of the same row,
  for each bulk operation, and for the empty service; the modules add what is
  theirs: a missing required column, a taken unique value, a bulk update that names a
  row twice, and each status that is announced. The incident falls at every step of
  the command, so a bulk operation stops at every point of its list.
* *Queries.* Three rows with pages of one and two have a last page that is full and
  one that is not, in any order, and page 0; one write between two statements is what can set rows and count
  apart.
* *Read model.* A tree of two users, one of whom has no customer, two logins, and a
  clock that passes the margin of a short and a long token.
* *Traces.* Two calls are enough to share both clients and for one to close them
  before or after the headers of the other's answer; two failures let Kafka and HTTP
  fail for one of them.
* *Start.* One consumed topic and one that is not; two retries and two polls reach
  both limits, an attempt that finds what the last one left, and a third one.

### Fairness

* *Pipeline:* weak fairness of `SendMessage` (kafkajs bounds its retries, so a
  send settles), of `Join` (the start gets the consumer to run; `KafkaBootstrap`
  says when) and of `Consume` (the consumer loop runs while messages are there). Nobody owes a commit, a crash, an expiry, or a command.
* *Client:* time passes (`CoolDown`), requests end because each has a timeout,
  and callers keep asking; the last is an assumption about callers, which
  `CatalogSync` turns out not to meet (see the findings).
* *Sync:* requests end because each has a timeout. The database answers the INSERT
  of the log row or refuses it: nothing in the code would end one that stays open, and
  a run would hang with it. The consumer handles its messages, time
  passes, cache entries expire. The interval is strongly fair because the code
  starts it whatever other runs do, and only the model's bounded slots could
  hinder it. Nobody owes a probe, a manual run, or a change of the catalog.
* *Customer commands:* awaits, projections and the consumer go on. Clients owe
  nothing.
* *Parts:* weak fairness of `Work`, the steps that the process, the database, the
  producer and the consumers take by themselves: an event loop with work goes on.
  The calls of the read model have no timeout of their own, so that they settle is
  an assumption about the services; the requests of a trace have one, but for a
  response cut off after its headers, which is no step of `Work` any more. Clients,
  faults, replays, signals and the broker's news of a topic owe nothing.

Faults are never fair. Deadlock is checked in the client and sync runs, which
never stop; everything else may come to rest with nothing left to do, so it is off
there.

`HashConverges` is conditional on the client not being left `DOWN`: that condition
is exactly the weakness which `sync_recovery` shows. `AnswersArrive` does not count
calls that hang in the middle of the answer to their trace, and `CalmRowsAreLast`
is conditional on no restart reading an event again that the table is past: in both
the code does what the condition excludes (section 4).

## 4. What disagrees with the documentation

1. **Deduplication skips other events** (`pipeline_dedup`). Updates of one
   customer share the key `topic:aggregateId`; within the TTL the second is
   skipped although it was never processed, while the docs give each event a
   uuid of its own.
2. **A failed request empties the mirror** (`sync_empty`). `getItems` returns and
   caches `[]` on failure, and `syncCategory` takes any `[]` for the catalog's.
3. **An event can be answered "up to date" with old items** (`sync_stale`): a run
   pairs a new schema hash with cached items.
4. **An open breaker stays open** (`sync_recovery`): the sync asks the health
   state first, and with no request in flight only a probe
   (`GET /catalog-sync/health`, or a restart) changes it back, so the reset
   timeout has no effect on the sync.
5. **A success that was not executed** (`write_acknowledged`): update to A, to B
   and to A again within a cache entry's life; the third says it succeeded and
   the row keeps B.
6. **A status goes back** (`advance`). The docs let an onboarding advance from
   `NOT_STARTED` over `IN_PROGRESS` to a final status. The projection of the update
   to `IN_PROGRESS` may come to the table after the approval has, and writes the
   whole row it carries, so that an approved onboarding is in progress again.

Behaviour that the models show and that disagrees with no written statement:

* Concurrent updates of different fields lose one of them (`UnracedRowsAreLast` is
  conditional for that reason).
* The echo of a creation may bring a deleted customer back, even between an update
  of a missing row and the read that follows it, which then reports success
  (`CachedAnswersBacked` exempts it).
* `bulkDelete` finds none of the entities it has just deleted, so it throws and
  announces nothing; `AcknowledgedAnnounced` is about commands answered ok.
* An update of an onboarding that does not exist announces the status the client
  sent and only then fails; that event's projection may make up the row
  (`Unfounded`, which `RowsGrounded` and `CalmRowsAreLast` exempt).
* `bulkUpdate` announces each row twice and never a status. Of a list that names a row
  twice, the projection of the first event may come after the second write and put
  the first value back, with nothing else going on: `CalmRowsAreLast` exempts such
  lists (`NamesTwice`). An entity of it is done with when the first one that names
  the row was written, which is how `BulkPrefix` reads.
* A start whose `consumer.run` threw ends up without a consumer, because
  `consumerRunning` stays set; handlers registered in failed attempts are there
  twice. `UpIsSubscribed` is about subscriptions for that reason.
* A trace may be lost because another call finished first and closed the shared
  HTTP client. If that happens after the headers of the answer have come, or the
  network cuts the answer off there, the decorated method never returns:
  `LossExplained` and `AnswersArrive` let only calls that were hit hang.
* A consumer group that has no offset of a topic starts at its end. What was
  announced before it joined is never handled; `NoSilentLoss` and `EverySettled`
  confine that to events whose topic or retry topic is such a one.
* The projection of a creation reads the row and then updates the columns that
  differ. After a creation and an update of the level, its SELECT finds the new level;
  an update of the reference then writes both columns, and the UPDATE of the
  projection takes the level alone back: a row no command wrote. `RowsAuthored` says
  that nothing else makes one.
* After a crash between two commits the consumer may read an older update again,
  whose value comes back, and skip the newer one behind it under the same key:
  `CalmRowsAreLast` excepts such restarts.
* `PaginationArgs` and `getPaginator` count pages from 0, the repositories from 1. The
  controllers make page 1 of page 0; through the resolvers it is a negative offset and
  an error. The SELECT of a page has no order, so that a walk may meet a row twice
  and another not at all; `PagesAddUp` is about how many rows the pages have.
* A run of the synchronisation hangs with the INSERT of its log row, which has no
  timeout.

## 5. Proofs

All theorems are of the unbounded specifications: any number of events, topics,
callers, categories, clients, ids, requests and traces, any retry limit, threshold
and fault bound. Assumptions are the named `ASSUME`s on the constants, and for the
modules that `ServiceParts` instantiates the hypothesis `WellPosed`, which is part of
`PartsAssumption`.

* **Pipeline.** `TypeOK` includes `OffsetsOrdered` (committed ≤ position ≤
  length) because without it `Next1` may read outside the log; with it `TypeOK`
  is inductive (`TypeCorrect`). On top of it `DeadLettersSafe` (retry counts
  never exceed real failures, `RetriesCounted`), `SkipsJustified` (strengthened:
  every processed key was routed), `RoutedOnce`, and `NothingSilentlyLost`, whose
  argument is that a message stops being unread only in a step that settles its
  event or appends another message of it, or in `Join`, where it is booked as missed;
  and that `Join` only passes over what lies in a partition that was fresh
  (`NoneIsFresh`: a committed offset is never given up). `InOnePlace` rests on `PlaceInv`: the three places of an event exclude
  each other, its unread message is unique, and an event nobody announced has no
  outcome; a retry reads the one message and appends another in the same step, and
  every step that could make a second one counts as a fault. That the first `Join`
  reads nothing again needs `AtStart`. `Implements` is the
  refinement: with "every logged event was announced" each step is a step of
  `EventDelivery` or a stutter.
* **Client and sync.** `ClientCoherent` abstracts each step to what it does to
  breaker and counter (`BreakerStep`); `ClientTypeCorrect` is the client's type
  invariant alone. `SyncStep` shows that every step of the composition is a step of
  the client, from which `RunsImplementClient` and, by composition rather than by a
  second induction, `SyncCoherent` follow. `UpToDateStored` rests on `StoredInv`:
  the remembered hash is empty or stored, a run at "compare" holds a hash, and a run
  about to log "up to date" holds a stored one; the property about the log is not
  inductive without the last two. `RequestsHaveOwners` is inductive over typed
  states: a run that is not at a request's await has none (`NothingAwaited`), so a
  run that concludes leaves none behind, and one that sends is at its await.
* **Customer commands.** `IInv` = `TypeOK` /\ `RequestsFormed` /\ `RowsAuthored` /\
  `AbsentWasRemoved` /\ `EventsAuthored` /\ `CallsBacked` /\
  `CachedAnswersBacked`. A row is authored (`RowsAreAuthored`) only if every event on
  its way back carries an authored row (`EventsAuthored`), which in turn needs the
  row an update reloads or a deletion finds to be authored; before a `save` was
  overtaken as a whole, after it column by column (`RowAuthored`, `MixedColumns`). A service entry is
  backed (`CacheBacked`) because the repository entry it may be answered from is
  (`CallsBacked`), and that relates the candidate in a slot to its command
  (`RequestsFormed`). `UnracedRowsLast` needs an invariant of its own, on top of this
  one: while nothing raced, every event on its way agrees with the table (`AllAgree`),
  and there is at most one command, with nothing on its way until it has published
  (`OneByOne`). Rows equal to the last written ones are not inductive without both: an
  older event would take the row back, and a command between its write and its event
  would make the events of the one before disagree.
* **Entity commands.** `IInv` = `TypeOK` /\ `Placed` /\ `Grounded` /\ `AllReported` /\
  `AllUnwritten` /\ `Calm`. `Placed` says what a command has read at each of its
  places: how many rows, of which entities, and which of them may be missing.
  `GroundedRows` needs it because an event carries what was read, and `Grounded`
  because a row may come from any event that is local, sending, in a topic, replayed
  or echoed: each of them carries an authored row, or is one of `Unfounded`.
  `AcknowledgementsAnnounced` and `BulkUpdatesStopAtPrefixes` rest on `AllReported`
  (what a command has written so far, and published of it, for the place of its list
  it is at), `RefusalsLeaveNothing` on `AllUnwritten` (a creation that has not come to
  its save has written and published nothing), and `CalmRowsLast` on `Calm`: the
  events on their way, in the order in which a topic may bring them, leave the rows as
  they are, and the only command under way has none but its own. A crash keeps it,
  because a restart that reads again anything else ends the calm.
* **Queries.** `IInv` = `TypeOK` /\ `Counting(r)` /\ `NoPageZero(r)` /\ `OnTheWalk(r)`
  for every reader. `Counting`: between the two statements of an undisturbed search the
  rows selected are those that match. `NoPageZero`: page 0 is asked for and refused,
  never answered. `OnTheWalk`: while nobody wrote since page 1, the pages turned so far
  have had as many rows as were skipped, or as the table has (`HasSeen`), and the
  answer under way is one of the windows of its page. With the page that `LastPage`
  names they have had all (`LastPageEnds`, `AllPagesAddUp`).
* **Start.** `ConsumerSubscribed`: the topics an attempt has passed are subscribed,
  and all of them when it comes to run the consumer (`Ordered`); the flags that
  outlive a failed attempt are set only after that, and a consumer that was set
  running and hears nothing had a run that threw (`Remembered`); every attempt adds
  at most one handler of a topic (`HandlersCounted`). `SubscribedListed`: an attempt past its wait saw
  every topic, and the broker unlists none. `Implements` maps the place of the
  attempt to `Startup`'s status and shows each step to be one of its, or a stutter.
* **Traces.** Proved directly of the composition, in `ServicePartsProofs`
  (`TracesHold`). `OutcomeIsKept`: an invocation past its method has an outcome, which
  no later step changes before `Return` copies it. `LossIsExplained` strengthens
  the property by what an invocation that nothing hit has in each place: no arrival
  before the headers of an answer, exactly one after, and it is never in the places
  "broken" and "hung".
* **Read model.** `RefusalsJustified` follows from what the calls of a request may
  be at each of its stages (`CallsInStage`); `CachedInTime`, an action property, from the relation
  between the token's stated expiry and the moment until which it counts as fresh
  (`TokenTimed`).
* **Parts.** `ServicePartsProofs` carries the theorems of start, read model, queries and
  commands over to the composition that TLC checks: a step of `ServiceParts` is a step
  of the part at work and leaves the variables of the others alone, so a behaviour of
  the service is one of each part (`StartStep`, `ReadModelStep`), and what is proved of
  the part holds in it. For the queries and the commands this is shown for each of the
  four entity modules: every route, resolver and handler of `CustomerQueries` and the
  like takes a step of `EntityQueries` on rows of well-typed tables
  (`CustomerReadsNext`, ...), every one of `CustomerCommands` and the like a step of
  `EntityCommands` with the constants of its module (`CustomerNext`, ...). The
  invariant of the module at work is then kept (`CommandsHeld`, `QueriesHeld`). No
  invariant is proved twice. `TypeCorrect` puts the type invariants of all parts
  together.

The attempts to prove them changed the models in these places. `BulkPrefix` and
`CalmRowsAreLast` were false of bulk updates that name a row twice, which no scenario
had; the properties now say so, and a scenario has one. `WellPosed` of `EntityCommands`
needs the kinds of announced statuses to be none of the three kinds of row events;
that of `EntityQueries` needs a size of a page. `Reload` had two alternatives that
held at once for an update of a row that is gone.

**Model-checked only.** The liveness properties (`EverySettled`,
`BreakerRecovers`, `RunsFinish`, `HashConverges`, `CommandsAnswered`,
`EventsDrain`, `AnswersArrive`) are out of this prover's reach: it has no rule for
fairness or `ENABLED`. Every invariant and action property that a passing run checks,
and each refinement, is stated by a theorem.

## 6. Not modelled

* A client-supplied id in a create DTO that is taken already, which makes `save` an
  upsert.
* `validateItem` of the catalog client (nobody calls it) and the `ERROR` result of
  `syncCategory`.
* `@Cacheable` on queries, and on the commands of the modules other than customer
  (the same decorator on the same methods).
* Two modules in one consumer group: `KafkaService` of `customer` and of
  `customer-gateway-onboarding` both use `KAFKA_GROUP_ID || 'nestjs-group'`
  (`src/src/modules/customer/shared/messaging/kafka.service.ts:70`) with different
  subscriptions. What members of one group with different subscriptions are
  assigned is the broker's, and nothing in the code depends on it in a way that
  could be stated here.
* `metrics.registry.ts`: its histogram adds up buckets that are cumulative already,
  so that a bucket may exceed the count; a rendering of numbers, without a run.
* A database that never answers, and an answer that is lost after its statement took
  effect: `Fail` of both command models leaves the table as it was.
* The event store (off by default and read by nobody), sagas (they log), aggregates
  (nobody loads one from events), the alternative `KafkaEventBus` (no module
  provides it), guards and interceptors (stateless), the nomenclator listeners and
  the login-events subscriber (one start attempt, then a log line or a counter per
  message), `core/tda` (nobody imports it), the sequential start of `main.ts` and
  the data source. `PROJECT.json` gives the reason for each.

## 7. Hazards and what covers them

`PROJECT.json` lists every hazard with its line and the properties that would
catch it going wrong. By part:

* *Pipeline:* lost or duplicated sends, redelivery after a crash, a start at the end
  of a topic, expiring keys, retries and dead letters, rejected retry sends, one key for two events.
* *Start:* a retry over what the last attempt left, handlers before
  subscriptions, the flag set before `run`, topics that are not listed yet, a signal
  in the middle of an attempt.
* *Client and sync:* concurrent half-open requests, answers from before the
  breaker opened, failed requests in the cache, runs of one category interleaving,
  items older than their hash.
* *Commands:* late projections and echoes, a `save` in two statements, concurrent update and deletion, repeated
  answers, a failed re-read after a write, a crash between save and publish, bulk
  operations that stop half-way, a replay among commands, statuses announced
  without a look at what was there.
* *Queries, read model, traces:* pages counted from 0 and from 1, a token that others
  replace, five services of which any may fail, shared clients that one call closes,
  a response that is cut off.

## 8. Plan

1. The safety half of the liveness properties: that a command, a start or a run that
   has not ended always has a step that its fairness names, with `ENABLED` spelt out
   as the guard.
2. The four command modules and the four query modules as refinements of one abstract
   table that clients read and write, so that the composition states what a client may
   rely on without the events in between.
3. The caches of the queries, and those of the commands of the other modules: the
   entries of an entity that a command has changed since.
