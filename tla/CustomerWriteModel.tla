-------------------------- MODULE CustomerWriteModel --------------------------
(***************************************************************************)
(* The commands on a customer: CustomerCommandService over                 *)
(* CustomerCommandRepository over the table, with the three layers that    *)
(* @Cacheable puts in front of them, and the events of a write that come   *)
(* back to CustomerCommandRepository.handle as projections, once from the  *)
(* local EventBus and once as the echo of the service's own Kafka topic.   *)
(* A command is a request in a slot; each of its awaits on the database or *)
(* a cache is a step, and requests and projections interleave there.       *)
(*                                                                         *)
(* Every customer of the model has the same userId, which is unique in the *)
(* table, so the ids are the successive incarnations of one customer.      *)
(* Two fields stand for the columns.  Values of a @Cacheable entry are     *)
(* left out: a key tells what was asked, and an entry only ever answers.   *)
(* An entry expires when a look-up misses it, the only time it shows.      *)
(* last, authored, raced, overtaken and reply are history variables.       *)
(***************************************************************************)
EXTENDS Integers, Sequences, FiniteSets, Bags, BagsExt

CONSTANTS
    Client,             \* request slots
    Id,                 \* customer ids
    Level, Reference,   \* values of riskLevel and externalReference
    DefaultLevel, DefaultReference,     \* the default of the column, of the class
    NotGiven,           \* the field is undefined
    Dto,                \* DTOs that clients send
    Absent,             \* there is no such row
    Unread,             \* a projection has not looked for the row
    Idle, NoReply,      \* an empty slot, a slot not answered yet
    Scenarios           \* which slots send which commands, in which order, and
                        \* how many calls may fail (the bound of the model)

Row == [riskLevel : Level, externalReference : Reference]

\* A DTO, or an entity in memory.
Partial == [riskLevel : Level \union {NotGiven},
            externalReference : Reference \union {NotGiven}]

ASSUME DataAssumption ==
    /\ DefaultLevel \in Level /\ DefaultReference \in Reference
    /\ Dto \subseteq Partial
    /\ NotGiven \notin Level \union Reference
    /\ Absent \notin Row /\ Unread \notin Row /\ Unread # Absent

\* What a client asks of the service, the key of a service entry.
Command ==
    [op : {"create"}, dto : Dto]
        \union [op : {"update"}, id : Id, dto : Dto]
        \union [op : {"delete"}, id : Id]

ASSUME ScenarioAssumption ==
    \A s \in Scenarios : s.ask \in Seq(Client \X Command) /\ s.incidents \in Nat

\* What the service asks of the repository, the key of a repository entry.
Call ==
    [op : {"create"}, row : Partial]
        \union [op : {"update"}, id : Id, row : Partial]
        \union [op : {"delete"}, id : Id]

Event == [kind : {"created", "updated", "deleted"}, id : Id, row : Row]

\* A call of handle: the event and whether it came over Kafka.  Over Kafka it
\* carries a random eventId, so its projection key is that of no other event.
\* found is what the SELECT of repository.save found, for a creation.
Projection == [event : Event, echo : BOOLEAN, found : Row \union {Absent, Unread}]

\* A command being executed: where it is, and the candidate to be written or,
\* for a deletion, the row that was found.
Request ==
    [command : Command, at : {"load", "lookup", "find", "write", "reload", "answer"},
     row : Partial \union {Absent}, wrote : BOOLEAN]

\* done: when it was answered the command had written, or the row was already
\* as it asks (a history variable).
Reply == [command : Command, ok : BOOLEAN, done : BOOLEAN]

ASSUME SlotAssumption == Idle \notin Request /\ NoReply \notin Reply

VARIABLES
    rows,               \* rows[id]: the row of the table
    serviceCache, repositoryCache, projectionCache,     \* keys of entries
    request,            \* request[c]: the command slot c is executing
    projections,        \* the bag of calls of handle not yet at the table
    echoes,             \* the bag of events on Kafka the consumer has not handled
    processed,          \* keys in EventIdempotencyService.processedEvents
    reply,              \* reply[c]: the answer to the last command of slot c
    last,               \* last[id]: what the last command to write id left
    authored,           \* <<id, row>> that commands wrote
    raced,              \* a command started while something else was going on
    overtaken,          \* a row changed between a projection's SELECT and UPDATE
    ask,                \* the commands still to be sent
    incidents           \* calls that may still fail, messages that may get lost

caches == <<serviceCache, repositoryCache, projectionCache>>
delivery == <<projections, echoes, processed>>
history == <<last, authored, raced, overtaken>>
vars == <<rows, caches, request, delivery, reply, history, ask, incidents>>

TypeOK ==
    /\ rows \in [Id -> Row \union {Absent}]
    /\ serviceCache \subseteq Command
    /\ repositoryCache \subseteq Call
    /\ projectionCache \subseteq Event
    /\ request \in [Client -> Request \union {Idle}]
    /\ IsABag(projections) /\ DOMAIN projections \subseteq Projection
    /\ IsABag(echoes) /\ DOMAIN echoes \subseteq Event
    /\ processed \subseteq {"created", "updated", "deleted"} \X Id
    /\ reply \in [Client -> Reply \union {NoReply}]
    /\ last \in [Id -> Row \union {Absent}]
    /\ authored \subseteq Id \X (Row \union {Absent})
    /\ raced \in BOOLEAN /\ overtaken \in BOOLEAN
    /\ ask \in Seq(Client \X Command) /\ incidents \in Nat

Init ==
    /\ rows = [id \in Id |-> Absent]
    /\ serviceCache = {} /\ repositoryCache = {} /\ projectionCache = {}
    /\ request = [c \in Client |-> Idle]
    /\ projections = EmptyBag /\ echoes = EmptyBag
    /\ processed = {}
    /\ reply = [c \in Client |-> NoReply]
    /\ last = [id \in Id |-> Absent]
    /\ authored = {}
    /\ raced = FALSE /\ overtaken = FALSE
    /\ \E s \in Scenarios : ask = s.ask /\ incidents = s.incidents

-----------------------------------------------------------------------------
(* Helpers.                                                                *)

\* Mutation: a field that is not named is written as it is.
GivenAlways(value, otherwise) == value

Given(value, otherwise) == IF value = NotGiven THEN otherwise ELSE value

Overlay(row, dto) ==
    [riskLevel |-> Given(dto.riskLevel, row.riskLevel),
     externalReference |-> Given(dto.externalReference, row.externalReference)]

\* new Customer(): of the two only the nullable column is initialised.
NewCustomer == [riskLevel |-> NotGiven, externalReference |-> DefaultReference]

\* The row of an entity that is saved anew: undefined columns take the default.
Inserted(entity) ==
    Overlay([riskLevel |-> DefaultLevel, externalReference |-> DefaultReference], entity)

At(c, place) == request[c] # Idle /\ request[c].at = place
Op(c) == request[c].command.op
Target(c) == request[c].command.id

CallOf(c) ==
    CASE Op(c) = "create" -> [op |-> "create", row |-> request[c].row]
      [] Op(c) = "update" -> [op |-> "update", id |-> Target(c), row |-> request[c].row]
      [] Op(c) = "delete" -> [op |-> "delete", id |-> Target(c)]

\* row, as the row of id, is what cmd asks for.
Answers(cmd, id, row) ==
    CASE cmd.op = "create" -> row = Inserted(Overlay(NewCustomer, cmd.dto))
      [] cmd.op = "update" ->
            id = cmd.id /\ row # Absent /\ row = Overlay(row, cmd.dto)
      [] cmd.op = "delete" -> id = cmd.id /\ row = Absent

Holds(cmd) == \E id \in Id : Answers(cmd, id, rows[id])

\* The method threw: nothing is cached and the client gets the error.
Refuse(c) ==
    /\ reply' = [reply EXCEPT ![c] = [command |-> request[c].command, ok |-> FALSE,
                                      done |-> request[c].wrote]]
    /\ request' = [request EXCEPT ![c] = Idle]

\* No row but that of id has the userId.
UserFree(id) == \A i \in Id \ {id} : rows[i] = Absent

\* No command wrote id so far: it is a new uuid.
Fresh(id) == \A w \in authored : w[1] # id

\* The model has an id left for another creation (a bound).
IdLeft ==
    Cardinality({c \in Client : request[c] # Idle /\ Op(c) = "create"})
        < Cardinality({id \in Id : Fresh(id)})

\* A command writes the row of id.
Author(id, row) ==
    /\ rows' = [rows EXCEPT ![id] = row]
    /\ last' = [last EXCEPT ![id] = row]
    /\ authored' = authored \union {<<id, row>>}
    /\ UNCHANGED <<raced, overtaken>>

\* A call of handle that has not reached the table yet.
Incoming(e, echo) == [event |-> e, echo |-> echo, found |-> Unread]

\* eventBus.publish, where handle looks its projection key up at once, and
\* eventPublisher.publish, which nobody awaits.
Publish(e) ==
    /\ \/ /\ e \in projectionCache
          /\ UNCHANGED <<projections, projectionCache>>
       \/ /\ projections' = BagAdd(projections, Incoming(e, FALSE))
          /\ projectionCache' = projectionCache \ {e}
    /\ echoes' = BagAdd(echoes, e)
    /\ UNCHANGED processed

\* A database call rejects, or a message gets lost.
GoesWrong == incidents > 0 /\ incidents' = incidents - 1

Quiet ==
    /\ \A c \in Client : request[c] = Idle
    /\ projections = EmptyBag /\ echoes = EmptyBag

-----------------------------------------------------------------------------
(* Commands.                                                               *)

\* Slot c sends cmd, the next command of the scenario.
Sends(c, cmd) ==
    /\ request[c] = Idle
    /\ ask # <<>> /\ Head(ask) = <<c, cmd>>
    /\ ask' = Tail(ask)

\* The service method is called and its key found: the cached answer.
AnswerFromCache(c, cmd) ==
    /\ Sends(c, cmd)
    /\ cmd \in serviceCache
    /\ reply' = [reply EXCEPT ![c] = [command |-> cmd, ok |-> TRUE, done |-> Holds(cmd)]]
    /\ UNCHANGED <<rows, caches, request, delivery, history, incidents>>

\* It is called and its key not found, or expired: a creation goes on to the
\* repository, the others load the entity first.  Clients name ids they were
\* given: the id of a customer deleted since stands for the unknown ones.
StartCommand(c, cmd) ==
    /\ Sends(c, cmd)
    /\ serviceCache' = serviceCache \ {cmd}
    /\ IF cmd.op = "create" THEN IdLeft ELSE ~Fresh(cmd.id)
    /\ request' = [request EXCEPT ![c] =
          IF cmd.op = "create"
          THEN [command |-> cmd, at |-> "lookup",
                row |-> Overlay(NewCustomer, cmd.dto), wrote |-> FALSE]
          ELSE [command |-> cmd, at |-> "load", row |-> Absent, wrote |-> FALSE]]
    /\ reply' = [reply EXCEPT ![c] = NoReply]
    /\ raced' = (raced \/ ~Quiet)
    /\ UNCHANGED <<rows, repositoryCache, projectionCache, delivery, last, authored,
                   overtaken, incidents>>

\* update: queryRepository.findById, then the candidate and its rules.  A body
\* without userId for a customer that is not there breaks CUSTOMER_001.
LoadForUpdate(c) ==
    /\ At(c, "load") /\ Op(c) = "update"
    /\ LET current == rows[Target(c)]
           base == IF current = Absent THEN NewCustomer ELSE current IN
          \/ /\ request' = [request EXCEPT
                   ![c].at = "lookup",
                   ![c].row = Overlay(base, request[c].command.dto)]
             /\ UNCHANGED reply
          \/ current = Absent /\ Refuse(c)
    /\ UNCHANGED <<rows, caches, delivery, history, ask, incidents>>

\* delete: queryRepository.findById.
LoadForDelete(c) ==
    /\ At(c, "load") /\ Op(c) = "delete"
    /\ IF rows[Target(c)] = Absent
       THEN Refuse(c)
       ELSE request' = [request EXCEPT ![c].at = "lookup"] /\ UNCHANGED reply
    /\ UNCHANGED <<rows, caches, delivery, history, ask, incidents>>

\* The repository method is called: its key is found and answers for it, or
\* the method runs.
LookUp(c) ==
    /\ At(c, "lookup")
    /\ \/ /\ CallOf(c) \in repositoryCache
          /\ request' = [request EXCEPT ![c].at = "answer"]
          /\ UNCHANGED repositoryCache
       \/ /\ request' = [request EXCEPT
                 ![c].at = IF Op(c) = "delete" THEN "find" ELSE "write"]
          /\ repositoryCache' = repositoryCache \ {CallOf(c)}
    /\ UNCHANGED <<rows, serviceCache, projectionCache, delivery, reply, history,
                   ask, incidents>>

\* Mutation: a userId that is taken is waited for.
SaveWaits(c) ==
    /\ At(c, "write") /\ Op(c) = "create"
    /\ \E id \in Id :
          /\ Fresh(id) /\ UserFree(id)
          /\ Author(id, Inserted(request[c].row))
          /\ Publish([kind |-> "created", id |-> id, row |-> Inserted(request[c].row)])
    /\ repositoryCache' = repositoryCache \union {CallOf(c)}
    /\ request' = [request EXCEPT ![c].at = "answer", ![c].wrote = TRUE]
    /\ UNCHANGED <<serviceCache, reply, ask, incidents>>

\* create: save gives the row an id, or breaks the unique userId; then the
\* event is published and the entry kept.
Save(c) ==
    /\ At(c, "write") /\ Op(c) = "create"
    /\ \/ \E id \in Id :
             /\ Fresh(id) /\ UserFree(id)
             /\ Author(id, Inserted(request[c].row))
             /\ Publish([kind |-> "created", id |-> id, row |-> Inserted(request[c].row)])
             /\ repositoryCache' = repositoryCache \union {CallOf(c)}
             /\ request' = [request EXCEPT ![c].at = "answer", ![c].wrote = TRUE]
             /\ UNCHANGED reply
       \/ /\ \E id \in Id : rows[id] # Absent
          /\ Refuse(c)
          /\ UNCHANGED <<rows, repositoryCache, projectionCache, delivery, history>>
    /\ UNCHANGED <<serviceCache, ask, incidents>>

\* update: repository.update writes every column the candidate defines, if the
\* row is there.
Overwrite(c) ==
    /\ At(c, "write") /\ Op(c) = "update"
    /\ IF rows[Target(c)] = Absent
       THEN /\ request' = [request EXCEPT ![c].at = "reload"]
            /\ UNCHANGED <<rows, history>>
       ELSE /\ Author(Target(c), Overlay(rows[Target(c)], request[c].row))
            /\ request' = [request EXCEPT ![c].at = "reload", ![c].wrote = TRUE]
    /\ UNCHANGED <<caches, delivery, reply, ask, incidents>>

\* Mutation: the event carries an entity made of the DTO, not the row.
ReloadPublishesDto(c) ==
    /\ At(c, "reload")
    /\ rows[Target(c)] # Absent
    /\ Publish([kind |-> "updated", id |-> Target(c),
                row |-> Inserted(request[c].command.dto)])
    /\ repositoryCache' = repositoryCache \union {CallOf(c)}
    /\ request' = [request EXCEPT ![c].at = "answer"]
    /\ UNCHANGED <<rows, serviceCache, reply, history, ask, incidents>>

\* update: findById again; the event carries what it finds.  A row that is gone
\* makes the service throw, as the entry of a null result answers nobody.
Reload(c) ==
    /\ At(c, "reload")
    /\ LET row == rows[Target(c)] IN
          IF row = Absent
          THEN Refuse(c) /\ UNCHANGED <<repositoryCache, projectionCache, delivery>>
          ELSE /\ Publish([kind |-> "updated", id |-> Target(c), row |-> row])
               /\ repositoryCache' = repositoryCache \union {CallOf(c)}
               /\ request' = [request EXCEPT ![c].at = "answer"]
               /\ UNCHANGED reply
    /\ UNCHANGED <<rows, serviceCache, history, ask, incidents>>

\* delete: the repository looks for the entity once more.
Find(c) ==
    /\ At(c, "find")
    /\ LET row == rows[Target(c)] IN
          IF row = Absent
          THEN Refuse(c)
          ELSE /\ request' = [request EXCEPT ![c].at = "write", ![c].row = row]
               /\ UNCHANGED reply
    /\ UNCHANGED <<rows, caches, delivery, history, ask, incidents>>

\* delete: the row goes, if it is still there, and the event carries the entity.
Remove(c) ==
    /\ At(c, "write") /\ Op(c) = "delete"
    /\ Author(Target(c), Absent)
    /\ Publish([kind |-> "deleted", id |-> Target(c), row |-> request[c].row])
    /\ repositoryCache' = repositoryCache \union {CallOf(c)}
    /\ request' = [request EXCEPT ![c].at = "answer", ![c].wrote = TRUE]
    /\ UNCHANGED <<serviceCache, reply, ask, incidents>>

\* The service method returns its success, which is kept and sent.
Answer(c) ==
    /\ At(c, "answer")
    /\ serviceCache' = serviceCache \union {request[c].command}
    /\ reply' = [reply EXCEPT ![c] = [command |-> request[c].command, ok |-> TRUE,
                         done |-> request[c].wrote \/ Holds(request[c].command)]]
    /\ request' = [request EXCEPT ![c] = Idle]
    /\ UNCHANGED <<rows, repositoryCache, projectionCache, delivery, history,
                   ask, incidents>>

\* Mutation: the entry is written whether the method threw or not.
FailCached(c) ==
    /\ request[c] # Idle /\ request[c].at \in {"load", "find", "write", "reload"}
    /\ GoesWrong
    /\ serviceCache' = serviceCache \union {request[c].command}
    /\ Refuse(c)
    /\ UNCHANGED <<rows, repositoryCache, projectionCache, delivery, history, ask>>

\* A database call rejects; at "reload" the row is already written.
Fail(c) ==
    /\ request[c] # Idle /\ request[c].at \in {"load", "find", "write", "reload"}
    /\ GoesWrong
    /\ Refuse(c)
    /\ UNCHANGED <<rows, caches, delivery, history, ask>>

-----------------------------------------------------------------------------
(* Events coming back.                                                     *)

\* onCustomerCreated: repository.save first reads the row it is to save.
LoadForSave(p) ==
    /\ p.event.kind = "created" /\ p.found = Unread
    /\ projections' = BagAdd(BagRemove(projections, p),
                             [p EXCEPT !.found = rows[p.event.id]])
    /\ UNCHANGED <<rows, caches, request, echoes, processed, reply, history,
                   ask, incidents>>

\* The handler has nothing left but its write.
AtWrite(p) == p.event.kind = "created" => p.found # Unread

\* save found no row and inserts one; it breaks the primary key or the unique
\* userId if there is one by now.
Inserts(p) == p.event.kind = "created" /\ p.found = Absent
InsertRefused(p) == Inserts(p) /\ \E id \in Id : rows[id] # Absent

\* save writes the columns of its entity that differ from what it found.
Differing(entity, found) ==
    [riskLevel |->
        IF entity.riskLevel = found.riskLevel THEN NotGiven ELSE entity.riskLevel,
     externalReference |->
        IF entity.externalReference = found.externalReference
        THEN NotGiven ELSE entity.externalReference]

\* Mutation: the projection of an update only writes the risk level.
RiskLevelOnly(p) ==
    IF p.event.kind = "created" THEN Differing(p.event.row, p.found)
    ELSE [p.event.row EXCEPT !.externalReference = NotGiven]

\* The columns that the UPDATE of a creation's or an update's projection sets.
ColumnsSet(p) ==
    IF p.event.kind = "created" THEN Differing(p.event.row, p.found) ELSE p.event.row

\* The row of p's customer when handle has written.
Projected(p) ==
    LET row == rows[p.event.id] IN
    CASE p.event.kind = "deleted" -> Absent
      [] Inserts(p) -> p.event.row
      [] OTHER -> IF row = Absent THEN Absent ELSE Overlay(row, ColumnsSet(p))

\* Mutation: the projection publishes the event again.
ApplyAndPublish(p) ==
    /\ AtWrite(p) /\ ~InsertRefused(p)
    /\ rows' = [rows EXCEPT ![p.event.id] = Projected(p)]
    /\ UNCHANGED projections
    /\ UNCHANGED <<caches, request, echoes, processed, reply, history, ask, incidents>>

\* onCustomerCreated, onCustomerUpdated or onCustomerDeleted writes the table:
\* an INSERT or UPDATE, repository.update, repository.delete.
Apply(p) ==
    /\ AtWrite(p) /\ ~InsertRefused(p)
    /\ rows' = [rows EXCEPT ![p.event.id] = Projected(p)]
    /\ overtaken' = (\/ overtaken
                     \/ p.event.kind = "created" /\ rows[p.event.id] # p.found)
    /\ projections' = BagRemove(projections, p)
    /\ projectionCache' = IF p.echo THEN projectionCache
                          ELSE projectionCache \union {p.event}
    /\ UNCHANGED <<serviceCache, repositoryCache, request, echoes, processed, reply,
                   last, authored, raced, ask, incidents>>

\* The INSERT is refused, or a database call rejects: the error ends in the
\* EventBus.
ApplyFails(p) ==
    /\ \/ AtWrite(p) /\ InsertRefused(p) /\ UNCHANGED incidents
       \/ GoesWrong
    /\ projections' = BagRemove(projections, p)
    /\ UNCHANGED <<rows, caches, request, echoes, processed, reply, history, ask>>

\* routeExternalEvent publishes the echo of e locally and marks its key.
RouteEcho(e) ==
    /\ <<e.kind, e.id>> \notin processed
    /\ echoes' = BagRemove(echoes, e)
    /\ processed' = processed \union {<<e.kind, e.id>>}
    /\ projections' = BagAdd(projections, Incoming(e, TRUE))
    /\ UNCHANGED <<rows, caches, request, reply, history, ask, incidents>>

\* An event of that kind and id was processed before: the echo is skipped.
SkipEcho(e) ==
    /\ <<e.kind, e.id>> \in processed
    /\ echoes' = BagRemove(echoes, e)
    /\ UNCHANGED <<rows, caches, request, projections, processed, reply, history,
                   ask, incidents>>

\* KafkaEventPipeline settles it otherwise: ignored, dead or lost.
LoseEcho(e) ==
    /\ GoesWrong
    /\ echoes' = BagRemove(echoes, e)
    /\ UNCHANGED <<rows, caches, request, projections, processed, reply, history,
                   ask>>

-----------------------------------------------------------------------------

\* The steps of a command, once started.
Continue(c) ==
    \/ LoadForUpdate(c) \/ LoadForDelete(c) \/ LookUp(c)
    \/ Save(c) \/ Overwrite(c) \/ Reload(c) \/ Find(c) \/ Remove(c)
    \/ Answer(c) \/ Fail(c)

Next ==
    \/ \E c \in Client :
          \/ \E cmd \in Command : AnswerFromCache(c, cmd) \/ StartCommand(c, cmd)
          \/ Continue(c)
    \/ \E p \in BagToSet(projections) : LoadForSave(p) \/ Apply(p) \/ ApplyFails(p)
    \/ \E e \in BagToSet(echoes) : RouteEcho(e) \/ SkipEcho(e) \/ LoseEcho(e)

Spec == Init /\ [][Next]_vars

(***************************************************************************)
(* Fairness: what a request awaits settles, projections go on as long as   *)
(* there are any, and the consumer goes on handling messages.  Clients owe *)
(* nothing.                                                                *)
(***************************************************************************)
Fairness ==
    /\ \A c \in Client : WF_vars(Continue(c))
    /\ WF_vars(\E p \in BagToSet(projections) :
                  LoadForSave(p) \/ Apply(p) \/ ApplyFails(p))
    /\ WF_vars(\E e \in BagToSet(echoes) : RouteEcho(e) \/ SkipEcho(e) \/ LoseEcho(e))

FairSpec == Spec /\ Fairness

-----------------------------------------------------------------------------
(* Properties.                                                             *)

\* Each column of row is as a command left it in the row of id.
ColumnsAuthored(id, row, writes) ==
    /\ \E w \in writes : w[1] = id /\ w[2] # Absent /\ w[2].riskLevel = row.riskLevel
    /\ \E w \in writes :
          w[1] = id /\ w[2] # Absent /\ w[2].externalReference = row.externalReference

\* Whatever projections, echoes and concurrent updates write, a row is as a
\* whole one that a command wrote for that id.  The one exception: the save of
\* a creation's projection reads the row and then updates the columns that
\* differ, and a write in between leaves a mixture of the two, which events and
\* commands may then spread.  Even so each column holds what some command
\* wrote to it.
RowsAuthored ==
    \A id \in Id : rows[id] # Absent =>
        /\ ~overtaken => <<id, rows[id]>> \in authored
        /\ ColumnsAuthored(id, rows[id], authored)

\* A success that the service cache repeats stands for a row that was really
\* written with what the command asked for: no failure is kept as a success.
\* But for updates of a customer that was deleted: the echo of its creation may
\* bring it back between the update of no row and the read that follows it.
CachedAnswersBacked ==
    \A cmd \in serviceCache : \E w \in authored :
        \/ Answers(cmd, w[1], w[2])
        \/ cmd.op = "update" /\ w = <<cmd.id, Absent>>

\* As long as no command starts before the requests, projections and echoes of
\* the ones before are over, the table holds what the last command wrote: the
\* events coming back twice change nothing.
UnracedRowsAreLast == ~raced => rows = last

\* Every command is answered.
CommandsAnswered == \A c \in Client : request[c] # Idle ~> request[c] = Idle

\* The events coming back die out: none feeds the next for ever.
EventsDrain == <>[](projections = EmptyBag)

\* What an update that is ok says, 'Customer actualizada con éxito.', even with
\* nothing else going on: the row is as the update asks.
AcknowledgedHolds ==
    ~raced =>
        \A c \in Client :
            reply[c] # NoReply /\ reply[c].ok /\ reply[c].command.op = "update"
                => reply[c].done

=============================================================================
