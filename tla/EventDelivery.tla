---------------------------- MODULE EventDelivery ----------------------------
(***************************************************************************)
(* What the Kafka side of the service promises for a domain event,         *)
(* whatever the mechanism: an announced event is handed to the consumer    *)
(* side and sooner or later settled.  It is settled by being routed to the *)
(* local EventBus, by being skipped or ignored, by going to the            *)
(* dead-letter topic, or by being lost with a send that never reached the  *)
(* broker.  An event may only be dead-lettered after every retry failed,   *)
(* and only a missable one may be passed over: one whose topics the        *)
(* consumer group has never committed an offset for.                       *)
(* KafkaEventPipeline implements this module.                              *)
(***************************************************************************)
EXTENDS Naturals

CONSTANTS
    Event,          \* the domain events of a run
    MaxRetries      \* maxRetries of the event definitions

VARIABLES
    missable,       \* events the consumer may start behind
    announced,      \* events a command handed to the publisher
    failures,       \* failures[e]: attempts to route e that threw
    outcome         \* outcome[e]: how e was settled so far

vars == <<missable, announced, failures, outcome>>

Outcome == {"routed", "skipped", "ignored", "dead", "lost", "missed"}

TypeOK ==
    /\ missable \subseteq Event
    /\ announced \subseteq Event
    /\ failures \in [Event -> Nat]
    /\ outcome \in [Event -> SUBSET Outcome]

Init ==
    /\ missable \subseteq Event
    /\ announced = {}
    /\ failures = [e \in Event |-> 0]
    /\ outcome = [e \in Event |-> {}]

Announce(e) ==
    /\ e \notin announced
    /\ announced' = announced \union {e}
    /\ UNCHANGED <<missable, failures, outcome>>

\* An attempt to route e throws and the event stays on its way.
Retry(e) ==
    /\ e \in announced
    /\ failures' = [failures EXCEPT ![e] = @ + 1]
    /\ UNCHANGED <<missable, announced, outcome>>

\* The attempt after the last retry throws: the event is dead.
Bury(e) ==
    /\ e \in announced
    /\ failures[e] >= MaxRetries
    /\ failures' = [failures EXCEPT ![e] = @ + 1]
    /\ outcome' = [outcome EXCEPT ![e] = @ \union {"dead"}]
    /\ UNCHANGED <<missable, announced>>

\* The attempt throws and so does the send to the retry or dead-letter topic.
Drop(e) ==
    /\ e \in announced
    /\ failures' = [failures EXCEPT ![e] = @ + 1]
    /\ outcome' = [outcome EXCEPT ![e] = @ \union {"lost"}]
    /\ UNCHANGED <<missable, announced>>

Settle(e, o) ==
    /\ e \in announced
    /\ outcome' = [outcome EXCEPT ![e] = @ \union {o}]
    /\ UNCHANGED <<missable, announced, failures>>

\* A process that dies takes every event it had not sent with it.
Lose(S) ==
    /\ S \subseteq announced
    /\ outcome' = [e \in Event |->
                      IF e \in S THEN outcome[e] \union {"lost"} ELSE outcome[e]]
    /\ UNCHANGED <<missable, announced, failures>>

\* A consumer that joins at the end of a topic passes over what is there.
Miss(S) ==
    /\ S \subseteq announced \intersect missable
    /\ outcome' = [e \in Event |->
                      IF e \in S THEN outcome[e] \union {"missed"} ELSE outcome[e]]
    /\ UNCHANGED <<missable, announced, failures>>

Next ==
    \/ \E e \in Event :
          \/ Announce(e)
          \/ Retry(e)
          \/ Bury(e)
          \/ Drop(e)
          \/ \E o \in {"routed", "skipped", "ignored"} : Settle(e, o)
    \/ \E S \in SUBSET Event : Lose(S) \/ Miss(S)

Spec == Init /\ [][Next]_vars

(***************************************************************************)
(* The liveness half of the promise: no announced event stays unsettled,   *)
(* but for a missable one that was missed.                                 *)
(***************************************************************************)
EverySettled == \A e \in Event : 
    e \in announced ~>
        \/ outcome[e] \ {"missed"} # {}
        \/ "missed" \in outcome[e] /\ e \in missable

=============================================================================
