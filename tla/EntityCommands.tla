---------------------------- MODULE EntityCommands ----------------------------
(***************************************************************************)
(* What the four entity modules share, for each has its own copy of it:    *)
(* the commands of one entity, single and in bulk, from the controller     *)
(* through the command service to the command repository, the events a     *)
(* write publishes on the local EventBus and on Kafka, the projections     *)
(* that come back of both, a process that stops, and a replay of the       *)
(* topics.  CustomerCommands, OnboardingCommands, OnboardingStatusCommands *)
(* and SyncLogCommands instantiate it and name their own methods.          *)
(*                                                                         *)
(* No two commands of the model ask the same, so no @Cacheable entry       *)
(* answers for another (CustomerWriteModel is about those).  One column    *)
(* stands for the row.  EventSourcing and Kafka are enabled.               *)
(* authored, wrote, lost, last and raced are history variables.            *)
(***************************************************************************)
EXTENDS Integers, Sequences, FiniteSets, Functions

CONSTANTS
    Id,             \* ids of the entity
    Value,          \* values of the column
    Default,        \* the value a row gets when none is given, or NotGiven
    Required,       \* the service refuses an entity without the column
    Unique,         \* no two rows have the same value
    OtherKeys,      \* there are unique columns beside it
    Command,        \* commands that clients send
    Scenarios,      \* tables to start with, what the commands then ask, and how
                    \* many calls fail, messages get lost, crashes and replays
                    \* happen at most: the bound of the model
    StatusKind,     \* events the service announces after an update
    KindOf(_),      \* the one that announces a value, or NoKind
    NoKind, NotGiven, Absent

Kind == {"created", "updated", "deleted"} \union StatusKind
Single == {"create", "update", "delete"}
Bulk == {"bulkCreate", "bulkUpdate", "bulkDelete"}
Item == [id : Id, value : Value \union {NotGiven}]

\* What a command asks: each item names an id and a value.
IsRequest(r) ==
    /\ r.op \in Single \union Bulk
    /\ r.items \in Seq(Item) /\ r.items # <<>>
    /\ r.op \in Single => Len(r.items) = 1

\* A command that no client sends.
Unsent == [op |-> "none", items |-> <<>>]

\* What the constants have to be.
WellPosed ==
    /\ \A s \in Scenarios :
          /\ s.rows \in [Id -> Value \union {Absent}]
          /\ DOMAIN s.ask = Command
          /\ \A c \in Command : IsRequest(s.ask[c]) \/ s.ask[c] = Unsent
          /\ s.incidents \in Nat
    /\ Required \in BOOLEAN /\ Unique \in BOOLEAN /\ OtherKeys \in BOOLEAN
    /\ Default \in Value \union {NotGiven}
    /\ Absent \notin Value /\ NotGiven \notin Value /\ Absent # NotGiven
    /\ NoKind \notin Kind
    /\ StatusKind \intersect {"created", "updated", "deleted"} = {}
    /\ \A v \in Value : KindOf(v) \in StatusKind \union {NoKind}

\* An event: whole when its payload is an entity and not just what a client
\* sent; copy tells the two events apart that bulkUpdate publishes of a row.
Event == [kind : Kind, id : Id, value : Value, whole : BOOLEAN,
          by : Command, copy : {1, 2}]

\* Where a command is; "lost" with the process that executed it.
Place == {"waiting", "service", "find", "write", "reload", "again",
          "announce", "ok", "refused", "lost"}
Over == {"ok", "refused", "lost"}

VARIABLES
    rows,           \* rows[id]: the row of the table
    ask,            \* ask[c]: what command c asks
    stage,          \* stage[c]: where command c is
    reads,          \* reads[c]: the rows c has read, in order
    item,           \* item[c]: the item of c the next step is about
    local,          \* events on the EventBus whose projection is not at the table
    sending,        \* events whose producer.send has not settled
    topic,          \* topic[k]: the events of kind k in its topic
    consumed,       \* consumed[k]: how many of them the consumer is done with
    seen,           \* keys in EventIdempotencyService.processedEvents
    echoes,         \* events of the topics whose projection is not at the table
    replayed,       \* replayed[k]: how many of them the replay consumer has read
    replaying,      \* there is a replay consumer
    authored,       \* <<id, value>> of rows that were there or a command wrote
    wrote,          \* wrote[c]: ids c has written
    lost,           \* events that a fault took
    last,           \* last[id]: what the last command to write id left
    raced,          \* a command was sent while another was going on, there was a
                    \* replay, or a restart read an event that the table is past
    incidents       \* how many may still happen

commandState == <<ask, stage, reads, item>>
busState == <<local, sending, topic, consumed, seen, echoes>>
replayState == <<replayed, replaying>>
history == <<authored, wrote, lost, last, raced>>
vars == <<rows, commandState, busState, replayState, history, incidents>>

TypeOK ==
    /\ rows \in [Id -> Value \union {Absent}]
    /\ \E s \in Scenarios : ask = s.ask
    /\ stage \in [Command -> Place]
    /\ reads \in [Command -> Seq(Value \union {Absent})]
    /\ item \in [Command -> Nat \ {0}]
    /\ local \subseteq Event /\ sending \subseteq Event /\ echoes \subseteq Event
    /\ topic \in [Kind -> Seq(Event)]
    /\ consumed \in [Kind -> Nat] /\ replayed \in [Kind -> Nat]
    /\ seen \subseteq Kind \X Id
    /\ replaying \in BOOLEAN /\ raced \in BOOLEAN
    /\ authored \subseteq Id \X Value
    /\ wrote \in [Command -> SUBSET Id]
    /\ lost \subseteq Event
    /\ last \in [Id -> Value \union {Absent}]
    /\ incidents \in Nat

Init ==
    /\ \E s \in Scenarios : rows = s.rows /\ ask = s.ask /\ incidents = s.incidents
    /\ stage = [c \in Command |-> "waiting"]
    /\ reads = [c \in Command |-> <<>>]
    /\ item = [c \in Command |-> 1]
    /\ local = {} /\ sending = {} /\ echoes = {} /\ seen = {}
    /\ topic = [k \in Kind |-> <<>>]
    /\ consumed = [k \in Kind |-> 0] /\ replayed = [k \in Kind |-> 0]
    /\ replaying = FALSE
    /\ authored = {w \in Id \X Value : rows[w[1]] = w[2]}
    /\ wrote = [c \in Command |-> {}]
    /\ lost = {}
    /\ last = rows /\ raced = FALSE

-----------------------------------------------------------------------------
(* Helpers.                                                                *)

Op(c) == ask[c].op
List(c) == ask[c].items
Items(c) == {List(c)[i] : i \in DOMAIN List(c)}
Ids(c) == {i.id : i \in Items(c)}
Now(c) == List(c)[item[c]]
HasNext(c) == item[c] < Len(List(c))

At(c, place) == stage[c] = place
Goto(c, place) == stage' = [stage EXCEPT ![c] = place]

Given(value, otherwise) == IF value = NotGiven THEN otherwise ELSE value

\* The value of the candidate: the DTO's, else that of the row it changes.
Candidate(c, current) == Given(Now(c).value, current)

\* Another row has the value that row id would get.
Taken(id, value) == Unique /\ \E other \in Id \ {id} : rows[other] = value

\* A row can be saved: the column has a value, and it is not taken.
Insertable(id, value) ==
    /\ Given(value, Default) # NotGiven
    /\ ~Taken(id, Given(value, Default))

NewEvent(c, kind, id, value, copy) ==
    [kind |-> kind, id |-> id, value |-> value, whole |-> TRUE, by |-> c, copy |-> copy]

\* eventBus.publish and eventPublisher.publish, neither of them awaited.
Publish(events) ==
    /\ local' = local \union events
    /\ sending' = sending \union events
    /\ UNCHANGED <<topic, consumed, seen, echoes>>

\* A command leaves the rows of ids as table has them.
Author(c, ids, table) ==
    /\ rows' = table
    /\ authored' = authored \union {w \in ids \X Value : table[w[1]] = w[2]}
    /\ wrote' = [wrote EXCEPT ![c] = @ \union ids]
    /\ last' = [id \in Id |-> IF id \in ids THEN table[id] ELSE last[id]]
    /\ UNCHANGED <<lost, raced>>

Quiet ==
    /\ \A c \in Command : stage[c] \in Over \union {"waiting"}
    /\ local = {} /\ sending = {} /\ echoes = {}
    /\ \A k \in Kind : consumed[k] = Len(topic[k])

-----------------------------------------------------------------------------
(* A command comes in, over HTTP or from the command bus.                  *)

Enter(c, place) ==
    /\ At(c, "waiting") /\ ask[c] # Unsent
    /\ Goto(c, place)
    /\ raced' = (raced \/ ~Quiet)
    /\ UNCHANGED <<rows, ask, reads, item, busState, replayState, authored, wrote, lost,
                   last, incidents>>

\* It gets to the service.
Request(c) == Enter(c, "service")

\* It does not, or not with what the service needs.
TurnAway(c) == Enter(c, "refused")

-----------------------------------------------------------------------------
(* Service, up to the call of the repository.                              *)

\* create: applyDslServiceRules looks at the candidate before it is written.
\* bulkCreate, bulkUpdate and bulkDelete look at no rule.
Check(c) ==
    /\ At(c, "service") /\ Op(c) \in {"create"} \union Bulk
    /\ IF Op(c) = "create" /\ Required /\ Now(c).value = NotGiven
       THEN Goto(c, "refused")
       ELSE Goto(c, "write")
    /\ UNCHANGED <<rows, ask, reads, item, busState, replayState, history, incidents>>

\* update: findById, the candidate and its rules.
LoadForUpdate(c) ==
    /\ At(c, "service") /\ Op(c) = "update"
    /\ LET current == rows[Now(c).id] IN
          /\ reads' = [reads EXCEPT ![c] = <<current>>]
          /\ IF Required /\ current = Absent /\ Now(c).value = NotGiven
             THEN Goto(c, "refused")
             ELSE Goto(c, "write")
    /\ UNCHANGED <<rows, ask, item, busState, replayState, history, incidents>>

\* delete: findById.
LoadForDelete(c) ==
    /\ At(c, "service") /\ Op(c) = "delete"
    /\ Goto(c, IF rows[Now(c).id] = Absent THEN "refused" ELSE "find")
    /\ UNCHANGED <<rows, ask, reads, item, busState, replayState, history, incidents>>

-----------------------------------------------------------------------------
(* Repository.                                                             *)

\* create: save, then the event.
SaveOne(c) ==
    /\ At(c, "write") /\ Op(c) = "create"
    /\ LET id == Now(c).id  value == Given(Now(c).value, Default) IN
          IF Insertable(id, Now(c).value)
          THEN /\ Author(c, {id}, [rows EXCEPT ![id] = value])
               /\ Publish({NewEvent(c, "created", id, value, 1)})
               /\ Goto(c, "ok")
          ELSE Goto(c, "refused") /\ UNCHANGED <<rows, busState, history>>
    /\ UNCHANGED <<ask, reads, item, replayState, incidents>>

\* Mutation: every entity is saved by itself, and those that can be are.
SaveEach(c) ==
    /\ At(c, "write") /\ Op(c) = "bulkCreate"
    /\ LET can == {i \in Items(c) : Insertable(i.id, i.value)}
           new == [id \in {i.id : i \in can} |->
                     Given((CHOOSE i \in can : i.id = id).value, Default)] IN
          /\ Author(c, DOMAIN new, [id \in Id |-> IF id \in DOMAIN new THEN new[id]
                                                  ELSE rows[id]])
          /\ IF can = Items(c)
             THEN /\ Publish({NewEvent(c, "created", id, new[id], 1) : id \in DOMAIN new})
                  /\ Goto(c, "ok")
             ELSE Goto(c, "refused") /\ UNCHANGED busState
    /\ UNCHANGED <<ask, reads, item, replayState, incidents>>

\* bulkCreate: one save of all the entities, which is a transaction.
SaveAll(c) ==
    /\ At(c, "write") /\ Op(c) = "bulkCreate"
    /\ LET new == [id \in Ids(c) |->
                     Given((CHOOSE i \in Items(c) : i.id = id).value, Default)] IN
          IF /\ \A i \in Items(c) : Insertable(i.id, i.value)
             /\ Unique => \A i, j \in Ids(c) : new[i] = new[j] => i = j
          THEN /\ Author(c, Ids(c), [id \in Id |-> IF id \in Ids(c) THEN new[id]
                                                   ELSE rows[id]])
               /\ Publish({NewEvent(c, "created", id, new[id], 1) : id \in Ids(c)})
               /\ Goto(c, "ok")
          ELSE Goto(c, "refused") /\ UNCHANGED <<rows, busState, history>>
    /\ UNCHANGED <<ask, reads, item, replayState, incidents>>

\* Mutation: bulkUpdate writes all its rows before it announces the first.
OverwriteAll(c) ==
    /\ At(c, "write") /\ Op(c) = "bulkUpdate"
    /\ LET there == {i \in Items(c) : rows[i.id] # Absent /\ i.value # NotGiven}
           new(id) == (CHOOSE i \in there : i.id = id).value
           ids == {i.id : i \in there} IN
          Author(c, ids, [id \in Id |-> IF id \in ids THEN new(id) ELSE rows[id]])
    /\ Goto(c, "reload")
    /\ UNCHANGED <<ask, reads, item, busState, replayState, incidents>>

\* update, and bulkUpdate for one entity after the other: repository.update
\* writes the columns the entity defines, if the row is there, and fails when
\* the value is taken.
Overwrite(c) ==
    /\ At(c, "write") /\ Op(c) \in {"update", "bulkUpdate"}
    /\ LET id == Now(c).id
           read == IF Op(c) = "update" THEN reads[c][1] ELSE rows[id]
           value == IF Candidate(c, read) \in Value THEN Candidate(c, read)
                    ELSE rows[id] IN
          CASE rows[id] = Absent ->
                  Goto(c, "reload") /\ UNCHANGED <<rows, history>>
            [] rows[id] # Absent /\ Taken(id, value) ->
                  Goto(c, "refused") /\ UNCHANGED <<rows, history>>
            [] OTHER ->
                  Goto(c, "reload") /\ Author(c, {id}, [rows EXCEPT ![id] = value])
    /\ UNCHANGED <<ask, reads, item, busState, replayState, incidents>>

\* Where a bulk update goes after an entity.
NextItem(c) ==
    /\ item' = [item EXCEPT ![c] = IF HasNext(c) THEN @ + 1 ELSE @]
    /\ Goto(c, IF HasNext(c) THEN "write" ELSE "ok")

\* Mutation: an update publishes nothing of its own.
ReloadSilently(c) ==
    /\ At(c, "reload") /\ Op(c) \in {"update", "bulkUpdate"}
    /\ reads' = [reads EXCEPT ![c] = Append(@, rows[Now(c).id])]
    /\ Goto(c, IF Op(c) = "update" THEN "announce" ELSE "again")
    /\ UNCHANGED <<rows, ask, item, busState, replayState, history, incidents>>

\* Mutation: an update publishes the entity it found in the first place.
ReloadTooEarly(c) ==
    /\ At(c, "reload") /\ Op(c) = "update"
    /\ LET id == Now(c).id  row == rows[id] IN
          /\ reads' = [reads EXCEPT ![c] = Append(@, row)]
          /\ IF reads[c][1] = Absent
             THEN UNCHANGED busState
             ELSE Publish({NewEvent(c, "updated", id, reads[c][1], 1)})
    /\ Goto(c, "announce")
    /\ UNCHANGED <<rows, ask, item, replayState, history, incidents>>

\* update: findById again; what it finds is published.
Reload(c) ==
    /\ At(c, "reload") /\ Op(c) \in {"update", "bulkUpdate"}
    /\ LET id == Now(c).id  row == rows[id] IN
          /\ reads' = [reads EXCEPT ![c] = Append(@, row)]
          /\ IF row = Absent
             THEN UNCHANGED busState
             ELSE Publish({NewEvent(c, "updated", id, row, 1)})
          /\ CASE Op(c) = "update" -> Goto(c, "announce") /\ UNCHANGED item
               [] Op(c) = "bulkUpdate" /\ row = Absent -> NextItem(c)
               [] OTHER -> Goto(c, "again") /\ UNCHANGED item
    /\ UNCHANGED <<rows, ask, replayState, history, incidents>>

\* bulkUpdate: what update published already is published once more; the
\* projection of the first may have been cached meanwhile.
PublishAgain(c) ==
    /\ At(c, "again")
    /\ LET id == Now(c).id
           row == reads[c][Len(reads[c])]
           first == NewEvent(c, "updated", id, row, 1)
           second == NewEvent(c, "updated", id, row, 2) IN
          /\ sending' = sending \union {second}
          /\ \/ local' = local \union {second}
             \/ first \notin local /\ UNCHANGED local
    /\ NextItem(c)
    /\ UNCHANGED <<rows, ask, reads, topic, consumed, seen, echoes, replayState, history,
                   incidents>>

\* delete: findOne once more.
Find(c) ==
    /\ At(c, "find") /\ Op(c) = "delete"
    /\ reads' = [reads EXCEPT ![c] = <<rows[Now(c).id]>>]
    /\ Goto(c, IF rows[Now(c).id] = Absent THEN "refused" ELSE "write")
    /\ UNCHANGED <<rows, ask, item, busState, replayState, history, incidents>>

\* delete: the row goes, and the event carries the entity that was found.
Remove(c) ==
    /\ At(c, "write") /\ Op(c) = "delete"
    /\ Author(c, {Now(c).id}, [rows EXCEPT ![Now(c).id] = Absent])
    /\ Publish({NewEvent(c, "deleted", Now(c).id, reads[c][1], 1)})
    /\ Goto(c, "ok")
    /\ UNCHANGED <<ask, reads, item, replayState, incidents>>

\* bulkDelete: the rows go first.
RemoveAll(c) ==
    /\ At(c, "write") /\ Op(c) = "bulkDelete"
    /\ Author(c, Ids(c), [id \in Id |-> IF id \in Ids(c) THEN Absent ELSE rows[id]])
    /\ Goto(c, "find")
    /\ UNCHANGED <<ask, reads, item, busState, replayState, incidents>>

\* Mutation: bulkDelete publishes whatever it finds.
FindRemovedOrNot(c) ==
    /\ At(c, "find") /\ Op(c) = "bulkDelete"
    /\ LET found == Append(reads[c], rows[Now(c).id]) IN
          /\ reads' = [reads EXCEPT ![c] = found]
          /\ IF HasNext(c)
             THEN item' = [item EXCEPT ![c] = @ + 1] /\ UNCHANGED <<stage, busState>>
             ELSE /\ Publish({NewEvent(c, "deleted", List(c)[i].id, found[i], 1) :
                                 i \in DOMAIN List(c)})
                  /\ Goto(c, "ok") /\ UNCHANGED item
    /\ UNCHANGED <<rows, ask, replayState, history, incidents>>

\* bulkDelete: then it looks for the entities their events should carry.
FindRemoved(c) ==
    /\ At(c, "find") /\ Op(c) = "bulkDelete"
    /\ LET row == rows[Now(c).id]
           found == Append(reads[c], row) IN
          /\ reads' = [reads EXCEPT ![c] = found]
          /\ CASE row = Absent -> Goto(c, "refused") /\ UNCHANGED <<item, busState>>
               [] row # Absent /\ HasNext(c) ->
                     /\ item' = [item EXCEPT ![c] = @ + 1]
                     /\ UNCHANGED <<stage, busState>>
               [] OTHER ->
                     /\ Publish({NewEvent(c, "deleted", List(c)[i].id, found[i], 1) :
                                    i \in DOMAIN List(c)})
                     /\ Goto(c, "ok") /\ UNCHANGED item
    /\ UNCHANGED <<rows, ask, replayState, history, incidents>>

-----------------------------------------------------------------------------
(* Service: what follows the repository call of an update.                 *)

\* dslValue: of the entity, else of the row read first, else of the DTO.
DslValue(c) ==
    CASE reads[c][2] # Absent -> reads[c][2]
      [] reads[c][2] = Absent /\ reads[c][1] # Absent -> reads[c][1]
      [] OTHER -> Now(c).value

\* publishDslDomainEvents awaits the event of the status, and only then does
\* the service look whether there was an entity.
Announce(c) ==
    /\ At(c, "announce")
    /\ LET value == DslValue(c)
           kind == IF value = NotGiven THEN NoKind ELSE KindOf(value)
           event == [NewEvent(c, kind, Now(c).id, value, 1) EXCEPT
                        !.whole = reads[c] # <<Absent, Absent>>] IN
          IF kind = NoKind THEN UNCHANGED topic
          ELSE topic' = [topic EXCEPT ![kind] = Append(@, event)]
    /\ Goto(c, IF reads[c][2] = Absent THEN "refused" ELSE "ok")
    /\ UNCHANGED <<rows, ask, reads, item, local, sending, consumed, seen, echoes,
                   replayState, history, incidents>>

\* What is saved may have a value of another unique column that a row has.
BreaksKey(c) == OtherKeys /\ At(c, "write") /\ Op(c) \notin {"delete", "bulkDelete"}

\* A call that the command awaits rejects; what was written stays written.
Fail(c) ==
    /\ stage[c] \in Place \ (Over \union {"waiting", "again"})
    /\ \/ BreaksKey(c) /\ UNCHANGED incidents
       \/ incidents > 0 /\ incidents' = incidents - 1
    /\ Goto(c, "refused")
    /\ UNCHANGED <<rows, ask, reads, item, busState, replayState, history>>

-----------------------------------------------------------------------------
(* Projections: CommandRepository.handle.                                  *)

\* Mutation: the projection of an update inserts a row that is not there with
\* the default of the column.
ProjectedDefault(e) ==
    CASE e.kind = "deleted" -> [rows EXCEPT ![e.id] = Absent]
      [] e.kind = "updated" /\ rows[e.id] = Absent -> [rows EXCEPT ![e.id] = Default]
      [] OTHER -> [rows EXCEPT ![e.id] = e.value]

\* created and the announced statuses save the entity, updated writes a row
\* that is there, deleted deletes it.
Projected(e) ==
    CASE e.kind = "updated" ->
            IF rows[e.id] = Absent THEN rows ELSE [rows EXCEPT ![e.id] = e.value]
      [] e.kind = "deleted" -> [rows EXCEPT ![e.id] = Absent]
      [] OTHER -> [rows EXCEPT ![e.id] = e.value]

\* The database takes what the projection of e writes.
Saves(e) ==
    \/ e.kind = "deleted"
    \/ e.kind = "updated" /\ rows[e.id] = Absent
    \/ ~Taken(e.id, e.value)

Apply(e) ==
    /\ e \in local \union echoes
    /\ Saves(e)
    /\ rows' = Projected(e)
    /\ \/ e \in local /\ local' = local \ {e} /\ UNCHANGED echoes
       \/ e \in echoes /\ echoes' = echoes \ {e} /\ UNCHANGED local
    /\ UNCHANGED <<commandState, sending, topic, consumed, seen, replayState, history,
                   incidents>>

\* The database refuses the projection, or the call fails: the error ends in
\* the EventBus.  What a client sent need not name all the columns of a row.
ApplyFails(e) ==
    /\ e \in local \union echoes
    /\ \/ ~Saves(e) /\ UNCHANGED incidents
       \/ OtherKeys /\ e.kind # "deleted" /\ UNCHANGED incidents
       \/ ~e.whole /\ rows[e.id] = Absent /\ UNCHANGED incidents
       \/ incidents > 0 /\ incidents' = incidents - 1
    /\ \/ e \in local /\ local' = local \ {e} /\ UNCHANGED echoes
       \/ e \in echoes /\ echoes' = echoes \ {e} /\ UNCHANGED local
    /\ UNCHANGED <<rows, commandState, sending, topic, consumed, seen, replayState,
                   history>>

-----------------------------------------------------------------------------
(* Kafka: KafkaEventPipeline tells it in detail.                           *)

Send(e) ==
    /\ e \in sending
    /\ sending' = sending \ {e}
    /\ topic' = [topic EXCEPT ![e.kind] = Append(@, e)]
    /\ UNCHANGED <<rows, commandState, local, consumed, seen, echoes, replayState,
                   history, incidents>>

\* The send that nobody awaits rejects.
SendFails(e) ==
    /\ e \in sending
    /\ incidents > 0
    /\ incidents' = incidents - 1
    /\ sending' = sending \ {e}
    /\ lost' = lost \union {e}
    /\ UNCHANGED <<rows, commandState, local, topic, consumed, seen, echoes,
                   replayState, authored, wrote, last, raced>>

Settle == \E e \in sending : Send(e) \/ SendFails(e)

Pending(k) == consumed[k] < Len(topic[k])
Upcoming(k) == topic[k][consumed[k] + 1]
Consume(k) == consumed' = [consumed EXCEPT ![k] = @ + 1]

\* Mutation: the consumer does not get past an event whose key it has seen.
RouteNew(k) ==
    /\ Pending(k) /\ Consume(k)
    /\ <<k, Upcoming(k).id>> \notin seen
    /\ seen' = seen \union {<<k, Upcoming(k).id>>}
    /\ echoes' = echoes \union {Upcoming(k)}
    /\ UNCHANGED <<rows, commandState, local, sending, topic, replayState, history,
                   incidents>>

\* routeExternalEvent publishes the event on the EventBus once per kind and id.
Route(k) ==
    /\ Pending(k) /\ Consume(k)
    /\ IF <<k, Upcoming(k).id>> \in seen
       THEN UNCHANGED <<seen, echoes>>
       ELSE /\ seen' = seen \union {<<k, Upcoming(k).id>>}
            /\ echoes' = echoes \union {Upcoming(k)}
    /\ UNCHANGED <<rows, commandState, local, sending, topic, replayState, history,
                   incidents>>

\* replayRegisteredEvents: a consumer of its own, from the beginning.
StartReplay ==
    /\ incidents > 0
    /\ incidents' = incidents - 1
    /\ replaying' = TRUE
    /\ replayed' = [k \in Kind |-> 0]
    /\ raced' = TRUE
    /\ UNCHANGED <<rows, commandState, busState, authored, wrote, lost, last>>

\* It skips no event, and goes on with the ones that come later.
Replay(k) ==
    /\ replaying /\ replayed[k] < Len(topic[k])
    /\ replayed' = [replayed EXCEPT ![k] = @ + 1]
    /\ echoes' = echoes \union {topic[k][replayed[k] + 1]}
    /\ UNCHANGED <<rows, commandState, local, sending, topic, consumed, seen,
                   replaying, incidents, history>>

\* Where the consumer may go on when the process comes back: after what it had
\* committed, which is some of what it is done with, or at the end of a topic of
\* which it had committed nothing.
Resumptions ==
    {from \in [Kind -> UNION {0 .. Len(topic[k]) : k \in Kind}] :
        \A k \in Kind : from[k] \in 0 .. consumed[k] \union {Len(topic[k])}}

\* What it is given once more.
ReadAgain(from) ==
    UNION {{topic[k][i] : i \in from[k] + 1 .. consumed[k]} : k \in Kind}

\* The process stops: what it held is gone, the keys of the events too, and the
\* consumer resumes.  Table and topics stay.
Crash ==
    /\ incidents > 0
    /\ incidents' = incidents - 1
    /\ stage' = [c \in Command |->
                    IF stage[c] \in Over \union {"waiting"} THEN stage[c] ELSE "lost"]
    /\ local' = {} /\ echoes' = {} /\ sending' = {} /\ seen' = {}
    /\ lost' = lost \union sending
    /\ replaying' = FALSE
    /\ \E from \in Resumptions :
          /\ consumed' = from
          /\ raced' = (raced \/ \E e \in ReadAgain(from) : Projected(e) # rows)
    /\ UNCHANGED <<rows, ask, reads, item, topic, replayed, authored, wrote, last>>

-----------------------------------------------------------------------------

Continue(c) ==
    \/ Check(c) \/ LoadForUpdate(c) \/ LoadForDelete(c)
    \/ SaveOne(c) \/ SaveAll(c) \/ Overwrite(c) \/ Reload(c) \/ PublishAgain(c)
    \/ Find(c) \/ Remove(c) \/ RemoveAll(c) \/ FindRemoved(c)
    \/ Announce(c)

Kafka ==
    \/ Settle
    \/ \E k \in Kind : Route(k) \/ Replay(k)
    \/ StartReplay

Next ==
    \/ \E c \in Command : Request(c) \/ TurnAway(c) \/ Continue(c) \/ Fail(c)
    \/ \E e \in local \union echoes : Apply(e) \/ ApplyFails(e)
    \/ Kafka
    \/ Crash

Spec == Init /\ [][Next]_vars

\* What the process does by itself.
Work ==
    \/ \E c \in Command : Continue(c)
    \/ \E e \in local \union echoes : Apply(e) \/ ApplyFails(e)
    \/ Settle
    \/ \E k \in Kind : Route(k) \/ Replay(k)

(***************************************************************************)
(* Fairness: the process works as long as there is anything to do, for     *)
(* what a command awaits settles, the database answers the projections,    *)
(* the producer settles its sends and the consumers go on reading.         *)
(* Clients owe nothing, and nothing has to fail.                           *)
(***************************************************************************)
Fairness == WF_vars(Work)

FairSpec == Spec /\ Fairness

-----------------------------------------------------------------------------
(* Properties.                                                             *)

InTopics == UNION {Range(topic[k]) : k \in DOMAIN topic}

\* Events that a command handed to the publisher.
Announced == sending \union InTopics \union lost

\* What a client sent for a row that was not there, announced all the same.
Unfounded == {<<e.id, e.value>> : e \in {a \in InTopics : ~a.whole}}

\* Whatever comes back, late, twice, after a crash or from a replay, a row of the
\* table is one that a command wrote or that was there.  The exception are the
\* rows that the announced status of a missing entity makes up.
RowsGrounded ==
    \A id \in Id : rows[id] # Absent => <<id, rows[id]>> \in authored \union Unfounded

\* A command that was answered ok has handed an event to the publisher for every
\* row it wrote, unless the row was gone again when it was read for the event.
AcknowledgedAnnounced ==
    \A c \in Command : stage[c] = "ok" =>
        \A i \in DOMAIN List(c) : List(c)[i].id \in wrote[c] =>
            \/ \E e \in Announced : e.by = c /\ e.id = List(c)[i].id
            \/ Op(c) = "bulkUpdate" /\ reads[c][i] = Absent

\* bulkUpdate is done with entity i of its list: both its events are published,
\* or there was none.
DoneWith(c, i) ==
    \/ i \in DOMAIN reads[c] /\ reads[c][i] = Absent
    \/ \A copy \in {1, 2} : \E e \in Announced :
          e.by = c /\ e.id = List(c)[i].id /\ e.copy = copy

\* A bulk update that fails or is lost halfway has written and announced a prefix
\* of its list: no row is written before the entities in front of the first that
\* names it are done with.
BulkPrefix ==
    \A c \in Command : Op(c) = "bulkUpdate" =>
        \A i, j \in DOMAIN List(c) :
            /\ i < j
            /\ List(c)[j].id \in wrote[c]
            /\ \A k \in 1 .. j - 1 : List(c)[k].id # List(c)[j].id
            => DoneWith(c, i)

\* A creation that is refused, by a rule, by the database or by a call that
\* fails, leaves no row and no event, also when it creates several.
RefusedCreationsLeaveNothing ==
    \A c \in Command : Op(c) \in {"create", "bulkCreate"} /\ stage[c] = "refused" =>
        wrote[c] = {} /\ \A e \in Announced \union local : e.by # c

\* A command that names a row twice.
NamesTwice(c) ==
    \E i, j \in DOMAIN List(c) : i # j /\ List(c)[i].id = List(c)[j].id

\* As long as each command is sent when everything before it is over, nothing is
\* replayed, and no restart reads an event again that the table is past, the table
\* holds what the last command wrote: the double events of bulkUpdate, the announced
\* statuses and what a restart does read again change nothing when they come back.
\* The exception is a bulk update that names a row twice: the projection of the first
\* event may come after the second write, with the value that it replaced.
CalmRowsAreLast ==
    /\ ~raced /\ Unfounded = {}
    /\ \A c \in Command : Op(c) = "bulkUpdate" => ~NamesTwice(c)
    => rows = last

\* Nothing is left to do: every command that the service received is over, and
\* nothing is on its way to the topics or back.
Settled ==
    /\ \A c \in Command : stage[c] \in Over \union {"waiting"}
    /\ local = {} /\ echoes = {} /\ sending = {}
    /\ \A k \in DOMAIN topic : consumed[k] = Len(topic[k])

\* Every command comes to an end, and what comes back of it dies out, also from a
\* replay consumer that goes on reading.
EventsDrain == <>[]Settled

=============================================================================
