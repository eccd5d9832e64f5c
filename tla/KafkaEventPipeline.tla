-------------------------- MODULE KafkaEventPipeline --------------------------
(***************************************************************************)
(* The way of a domain event from KafkaEventPublisher through the broker   *)
(* to KafkaEventSubscriber: the sends nobody awaits, the topics with their *)
(* retry and dead-letter topics, the consumer with its offsets, and the    *)
(* in-memory EventIdempotencyService.  The four entity modules hold the    *)
(* same code; the lines named in PROJECT.json are those of modules/customer.*)
(*                                                                         *)
(* A partition holds the messages of one topic and one key: the publisher  *)
(* and the retry path both use the aggregate id as the Kafka key.          *)
(* Where the consumer group has no committed offset for a partition, it    *)
(* starts at the end: subscribe is called with fromBeginning false.        *)
(* fresh, announced, failures, outcome, routes and forgets are history     *)
(* variables.                                                              *)
(***************************************************************************)
EXTENDS Integers, Sequences

CONSTANTS
    Event,          \* domain events: records with a topic and an agg(regate)
    Topic,          \* main topics of the registry
    Agg,            \* aggregate ids
    Trusted,        \* events whose source-service passes isTrustedProducer
    MaxRetries,     \* EVENT_DEFINITIONS[_].maxRetries
    None            \* no committed offset

\* Bounds of the model.
CONSTANTS
    MaxForgets,     \* crashes plus expired idempotency keys
    MaxDuplicates   \* producer retries that append a message twice

ASSUME EventAssumption ==
    /\ \A e \in Event : e.topic \in Topic /\ e.agg \in Agg
    /\ Trusted \subseteq Event

ASSUME BoundAssumption ==
    MaxRetries \in Nat /\ MaxForgets \in Nat /\ MaxDuplicates \in Nat

ASSUME NoneAssumption == None \notin Nat

VARIABLES
    outbox,         \* events whose producer.send has not settled
    log,            \* log[p]: the messages of partition p, by offset
    position,       \* position[p]: messages of p the consumer is done with
    committed,      \* committed[p]: where a restarted consumer resumes, or None
    joined,         \* the consumer runs and has resolved its positions
    fresh,          \* partitions the group had no committed offset for at first
    processed,      \* keys in EventIdempotencyService.processedEvents
    dlq,            \* messages in the dead-letter topics
    announced,      \* events handed to the publisher
    failures,       \* failures[e]: attempts to route e that threw
    outcome,        \* outcome[e]: how e was settled so far
    routes,         \* routes[k]: events of key k handed to the EventBus
    forgets,        \* crashes plus expired keys so far
    duplicates      \* messages appended twice so far

group == <<committed, joined, fresh>>
history == <<announced, failures, outcome, routes, forgets, duplicates>>
vars == <<outbox, log, position, group, processed, dlq, history>>

-----------------------------------------------------------------------------
(* Names, keys and messages.                                               *)

\* The repositories publish without an eventId, so normalizeEvent falls back
\* to topic:aggregateId; buildKey on the consumer side reads that key back.
IdempotencyKey(e) == <<e.topic, e.agg>>
Key == Topic \X Agg

Partition == [topic : Topic, agg : Agg, retry : BOOLEAN]
MainPartition(e) == [topic |-> e.topic, agg |-> e.agg, retry |-> FALSE]
RetryPartition(e) == [topic |-> e.topic, agg |-> e.agg, retry |-> TRUE]

Message == [event : Event, retryCount : 0 .. MaxRetries]
DeadLetter == [event : Event, retryCount : {MaxRetries + 1}]

Outcome == {"routed", "skipped", "ignored", "dead", "lost", "missed"}

\* A consumer has read no message that is not there, and committed none that
\* it has not read.
OffsetsOrdered ==
    \A p \in Partition :
        /\ committed[p] # None => committed[p] =< position[p]
        /\ position[p] =< Len(log[p])

TypeOK ==
    /\ outbox \subseteq announced
    /\ log \in [Partition -> Seq(Message)]
    /\ position \in [Partition -> Nat]
    /\ committed \in [Partition -> Nat \union {None}]
    /\ joined \in BOOLEAN
    /\ fresh \subseteq Partition
    /\ OffsetsOrdered
    /\ processed \subseteq Key
    /\ dlq \subseteq DeadLetter
    /\ announced \subseteq Event
    /\ failures \in [Event -> Nat]
    /\ outcome \in [Event -> SUBSET Outcome]
    /\ routes \in [Key -> Nat]
    /\ forgets \in Nat
    /\ duplicates \in Nat

Init ==
    /\ outbox = {}
    /\ log = [p \in Partition |-> <<>>]
    /\ position = [p \in Partition |-> 0]
    /\ fresh \in SUBSET Partition
    /\ committed = [p \in Partition |-> IF p \in fresh THEN None ELSE 0]
    /\ joined = FALSE
    /\ processed = {}
    /\ dlq = {}
    /\ announced = {}
    /\ failures = [e \in Event |-> 0]
    /\ outcome = [e \in Event |-> {}]
    /\ routes = [k \in Key |-> 0]
    /\ forgets = 0
    /\ duplicates = 0

-----------------------------------------------------------------------------
(* A message of e that the consumer has still to read.                     *)

InLog(e, p, i) ==
    /\ i \in position[p] + 1 .. Len(log[p])
    /\ log[p][i].event = e

InSomeLog(e) == \E p \in Partition : \E i \in 1 .. Len(log[p]) : InLog(e, p, i)

-----------------------------------------------------------------------------
(* Publisher.                                                              *)

\* eventPublisher.publish: the send is started and not awaited.
Publish(e) ==
    /\ e \notin announced
    /\ announced' = announced \union {e}
    /\ outbox' = outbox \union {e}
    /\ UNCHANGED <<log, position, group, processed, dlq,
                   failures, outcome, routes, forgets, duplicates>>

\* producer.send resolves: the broker appended the message.
SendMessage(e) ==
    /\ e \in outbox
    /\ outbox' = outbox \ {e}
    /\ log' = [log EXCEPT ![MainPartition(e)] =
                  Append(@, [event |-> e, retryCount |-> 0])]
    /\ UNCHANGED <<position, group, processed, dlq, history>>

\* The producer is not idempotent: an acknowledgement that got lost makes it
\* send again what the broker already appended.
SendRepeated(e) ==
    /\ e \in outbox
    /\ duplicates < MaxDuplicates
    /\ duplicates' = duplicates + 1
    /\ log' = [log EXCEPT ![MainPartition(e)] =
                  Append(@, [event |-> e, retryCount |-> 0])]
    /\ UNCHANGED <<outbox, position, group, processed, dlq,
                   announced, failures, outcome, routes, forgets>>

-----------------------------------------------------------------------------
(* Subscriber: routeExternalEvent on the next message of a partition.      *)

Pending(p) == joined /\ position[p] < Len(log[p])
Next1(p) == log[p][position[p] + 1]

Advance(p) == position' = [position EXCEPT ![p] = @ + 1]
Settled(e, o) == outcome' = [outcome EXCEPT ![e] = @ \union {o}]

\* isTrustedProducer is false: return without a trace.
IgnoreUntrusted(p) ==
    /\ Pending(p)
    /\ LET e == Next1(p).event IN
          /\ e \notin Trusted
          /\ Settled(e, "ignored")
    /\ Advance(p)
    /\ UNCHANGED <<outbox, log, group, processed, dlq,
                   announced, failures, routes, forgets, duplicates>>

\* hasProcessed: return without publishing.
SkipDuplicate(p) ==
    /\ Pending(p)
    /\ LET e == Next1(p).event IN
          /\ e \in Trusted
          /\ IdempotencyKey(e) \in processed
          /\ Settled(e, "skipped")
    /\ Advance(p)
    /\ UNCHANGED <<outbox, log, group, processed, dlq,
                   announced, failures, routes, forgets, duplicates>>

\* Mutation: the key is never marked.
RouteWithoutMark(p) ==
    /\ Pending(p)
    /\ LET e == Next1(p).event
           k == IdempotencyKey(e) IN
          /\ e \in Trusted
          /\ k \notin processed
          /\ Settled(e, "routed")
          /\ routes' = [routes EXCEPT ![k] = @ + 1]
    /\ Advance(p)
    /\ UNCHANGED <<outbox, log, group, processed, dlq,
                   announced, failures, forgets, duplicates>>

\* publish on the local EventBus, then markProcessed; nothing awaits between.
RouteExternalEvent(p) ==
    /\ Pending(p)
    /\ LET e == Next1(p).event
           k == IdempotencyKey(e) IN
          /\ e \in Trusted
          /\ k \notin processed
          /\ Settled(e, "routed")
          /\ routes' = [routes EXCEPT ![k] = @ + 1]
          /\ processed' = processed \union {k}
    /\ Advance(p)
    /\ UNCHANGED <<outbox, log, group, dlq,
                   announced, failures, forgets, duplicates>>

\* Mutation: markProcessed is called before publish.
ThrowsAfterMark(p) ==
    /\ Pending(p)
    /\ LET e == Next1(p).event IN
          /\ e \in Trusted
          /\ IdempotencyKey(e) \notin processed
          /\ failures' = [failures EXCEPT ![e] = @ + 1]
          /\ processed' = processed \union {IdempotencyKey(e)}
    /\ Advance(p)
    /\ UNCHANGED <<outbox, group, announced, routes, forgets, duplicates>>

\* What every throwing attempt has in common: the event passed the checks,
\* publish threw, the key was not marked.
Throws(p) ==
    /\ Pending(p)
    /\ LET e == Next1(p).event IN
          /\ e \in Trusted
          /\ IdempotencyKey(e) \notin processed
          /\ failures' = [failures EXCEPT ![e] = @ + 1]
    /\ Advance(p)
    /\ UNCHANGED <<outbox, group, processed,
                   announced, routes, forgets, duplicates>>

\* Mutation: the send to the retry topic is forgotten.
RetryForgotten(p) ==
    /\ Throws(p)
    /\ Next1(p).retryCount < MaxRetries
    /\ UNCHANGED <<log, dlq, outcome>>

\* Mutation: the retry is sent twice.
RetryTwice(p) ==
    /\ Throws(p)
    /\ LET m == Next1(p)
           again == [event |-> m.event, retryCount |-> m.retryCount + 1] IN
          /\ m.retryCount < MaxRetries
          /\ log' = [log EXCEPT ![RetryPartition(m.event)] =
                        Append(Append(@, again), again)]
    /\ UNCHANGED <<dlq, outcome>>

\* handleProcessingFailure with retries left: to the retry topic.
SendToRetry(p) ==
    /\ Throws(p)
    /\ LET m == Next1(p) IN
          /\ m.retryCount < MaxRetries
          /\ log' = [log EXCEPT ![RetryPartition(m.event)] =
                        Append(@, [event |-> m.event,
                                   retryCount |-> m.retryCount + 1])]
    /\ UNCHANGED <<dlq, outcome>>

\* Mutation: one retry too few.
DeadLetterEarly(p) ==
    /\ Throws(p)
    /\ LET m == Next1(p) IN
          /\ m.retryCount + 1 >= MaxRetries
          /\ dlq' = dlq \union {[event |-> m.event,
                                 retryCount |-> m.retryCount + 1]}
          /\ Settled(m.event, "dead")
    /\ UNCHANGED log

\* handleProcessingFailure with none left: to the dead-letter topic.
SendToDeadLetter(p) ==
    /\ Throws(p)
    /\ LET m == Next1(p) IN
          /\ m.retryCount >= MaxRetries
          /\ dlq' = dlq \union {[event |-> m.event,
                                 retryCount |-> m.retryCount + 1]}
          /\ Settled(m.event, "dead")
    /\ UNCHANGED log

\* That send rejects: eachMessage logs the error and the offset moves on.
FailureSendRejected(p) ==
    /\ Throws(p)
    /\ Settled(Next1(p).event, "lost")
    /\ UNCHANGED <<log, dlq>>

\* eachMessage resolved, whatever happened inside.
Consume(p) ==
    \/ IgnoreUntrusted(p)
    \/ SkipDuplicate(p)
    \/ RouteExternalEvent(p)
    \/ SendToRetry(p)
    \/ SendToDeadLetter(p)
    \/ FailureSendRejected(p)

\* kafkajs commits the offsets of resolved messages from time to time.
CommitOffset(p) ==
    /\ joined
    /\ committed[p] # position[p]
    /\ committed' = [committed EXCEPT ![p] = position[p]]
    /\ UNCHANGED <<outbox, log, position, joined, fresh, processed, dlq, history>>

-----------------------------------------------------------------------------
(* Joining the group: consumer.run, and the positions it starts from.      *)

\* Mutation: the consumer starts at the end everywhere.
EndOffset(p) == Len(log[p])

\* subscribe passes fromBeginning ?? false: a partition without a committed
\* offset is read from its end, and what was appended before is passed over.
StartOffset(p) == IF committed[p] = None THEN Len(log[p]) ELSE committed[p]

PassedOver(e) ==
    \E p \in Partition : \E i \in 1 .. StartOffset(p) : InLog(e, p, i)

Join ==
    /\ ~joined
    /\ joined' = TRUE
    /\ position' = [p \in Partition |-> StartOffset(p)]
    /\ outcome' = [e \in Event |->
                      IF PassedOver(e) THEN outcome[e] \union {"missed"}
                                       ELSE outcome[e]]
    /\ UNCHANGED <<outbox, log, committed, fresh, processed, dlq,
                   announced, failures, routes, forgets, duplicates>>

-----------------------------------------------------------------------------
(* Forgetting.                                                             *)

\* cleanup drops a key whose TTL is over.
ExpireKey(k) ==
    /\ forgets < MaxForgets
    /\ k \in processed
    /\ processed' = processed \ {k}
    /\ forgets' = forgets + 1
    /\ UNCHANGED <<outbox, log, position, group, dlq,
                   announced, failures, outcome, routes, duplicates>>

\* The process dies and restarts.  An un-awaited send that rejects is an
\* unhandled rejection and ends a Node 20 process this way too.  The map and
\* the unsent events are gone, and the consumer has to join again.
Restart ==
    /\ forgets < MaxForgets
    /\ forgets' = forgets + 1
    /\ outcome' = [e \in Event |->
                      IF e \in outbox THEN outcome[e] \union {"lost"}
                                      ELSE outcome[e]]
    /\ outbox' = {}
    /\ processed' = {}
    /\ joined' = FALSE
    /\ UNCHANGED <<log, position, committed, fresh, dlq,
                   announced, failures, routes, duplicates>>

Next ==
    \/ \E e \in Event : Publish(e) \/ SendMessage(e) \/ SendRepeated(e)
    \/ \E p \in Partition : Consume(p) \/ CommitOffset(p)
    \/ \E k \in Key : ExpireKey(k)
    \/ Join
    \/ Restart

Spec == Init /\ [][Next]_vars

(***************************************************************************)
(* Fairness: a send settles (kafkajs retries it and then resolves or       *)
(* rejects), the start-up gets the consumer to run (KafkaBootstrap says    *)
(* when), and its loop keeps calling eachMessage while a partition has     *)
(* messages.  Commands, faults and commits are not fair.                   *)
(***************************************************************************)
Fairness ==
    /\ \A e \in Event : WF_vars(SendMessage(e))
    /\ WF_vars(Join)
    /\ \A p \in Partition : WF_vars(Consume(p))

FairSpec == Spec /\ Fairness

-----------------------------------------------------------------------------
(* Properties.                                                             *)

\* A message's retry count never exceeds the attempts on its event that really
\* failed, and an event only reaches a dead-letter topic after 1 + maxRetries
\* of them, over retries that restarts and duplicates may interleave.
RetriesCounted ==
    \A p \in Partition : \A i \in 1 .. Len(log[p]) :
        log[p][i].retryCount =< failures[log[p][i].event]

DeadLettersExhausted ==
    /\ RetriesCounted
    /\ \A m \in dlq : failures[m.event] > MaxRetries

\* Events that travel through a partition the group had no offset for.
Missable ==
    {e \in Event : MainPartition(e) \in fresh \/ RetryPartition(e) \in fresh}

\* e is settled, or was passed over where that may happen.
Accounted(e) ==
    \/ outcome[e] \ {"missed"} # {}
    \/ "missed" \in outcome[e] /\ e \in Missable

\* Whatever throws, rejects or crashes, an event handed to the publisher is
\* settled, or its send is pending, or a message of it is still to be read, or
\* it was passed over, which only happens to an event whose topic or retry
\* topic the group had no committed offset for.
NoSilentLoss ==
    \A e \in announced : Accounted(e) \/ e \in outbox \/ InSomeLog(e)

\* An idempotency key reaches the EventBus once per life of its entry: every
\* further time is paid for by a restart or an expired TTL.  Duplicates by the
\* broker, retries and offset rewinds alone never route a key again.
KeyRoutedOncePerMemory ==
    \A k \in Key : routes[k] =< forgets + (IF k \in processed THEN 1 ELSE 0)

\* An event is only skipped as a duplicate when some event with its key was
\* really published on the EventBus: a key is not marked by a failed attempt.
SkipJustified ==
    \A e \in Event : "skipped" \in outcome[e] => routes[IdempotencyKey(e)] > 0

\* While nothing crashed, expired or was appended twice, an event is in one
\* place only: its send, one unread message, or its outcome.
ExactlyOnePlace ==
    forgets = 0 /\ duplicates = 0 =>
        \A e \in Event :
            /\ e \in outbox => ~InSomeLog(e) /\ outcome[e] = {}
            /\ InSomeLog(e) => outcome[e] = {}
            /\ \A p, q \in Partition :
                  \A i \in 1 .. Len(log[p]), j \in 1 .. Len(log[q]) :
                      InLog(e, p, i) /\ InLog(e, q, j) => p = q /\ i = j

\* What the idempotency test and docs say of the service: it marks an event as
\* processed and avoids duplicates, so an event skipped was itself processed.
SkippedWereProcessed ==
    \A e \in Event : "skipped" \in outcome[e] => "routed" \in outcome[e]

\* The refinement mapping: the history variables are EventDelivery's state.
Delivery == INSTANCE EventDelivery WITH
    missable <- Missable,
    announced <- announced, failures <- failures, outcome <- outcome

\* The pipeline does what EventDelivery promises: publisher, topics and
\* subscriber together implement its steps.
ImplementsDelivery == Delivery!Spec

\* Every event handed to the publisher is eventually settled, whatever fails,
\* or passed over where the group had no committed offset.
EverySettled == Delivery!EverySettled

=============================================================================
