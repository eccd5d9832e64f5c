----------------------------- MODULE TraceDelivery -----------------------------
(***************************************************************************)
(* LogExecutionTime: a decorated method runs, its trace is delivered over  *)
(* Kafka, or over HTTP when that does not work, and only then the caller   *)
(* gets what the method returned or threw.  All calls share the producer   *)
(* of KafkaLoggerClient, which one of them connects, and the               *)
(* HttpLoggerClient that is registered for their class, which every one    *)
(* of them closes.  LOG_EXECUTION_TIME and LOG_READY are set.              *)
(*                                                                         *)
(* What runs between two answers from the network is one step: no other    *)
(* code runs in between.                                                   *)
(***************************************************************************)
EXTENDS Naturals, FiniteSets

CONSTANTS
    Invocation,     \* calls of decorated methods
    DeliveryMode,   \* values that LOG_DELIVERY_MODE may have: EVENT and REST
    NoOutcome       \* no outcome yet

\* Bounds of the model.
CONSTANTS
    MaxFailures     \* connections and sends that fail

\* What the constants have to be.
WellPosed ==
    /\ DeliveryMode \subseteq {"EVENT", "REST"}
    /\ MaxFailures \in Nat
    /\ NoOutcome \notin {"returned", "threw"}

Place == {"idle", "method", "kafkaConnect", "kafkaSend", "httpConnect", "httpSend",
          "httpBody", "broken", "hung", "done"}

VARIABLES
    mode,
    place,          \* place[c]: where invocation c is
    outcome,        \* outcome[c]: how the method ended
    result,         \* result[c]: what the caller of it got
    arrived,        \* arrived[c]: ways its trace arrived
    hit,            \* invocations whose delivery a failure hit, or another's close
    kafkaConnected, connecting,
    httpConnected,  \* the status of the HTTP client
    failures        \* so far

vars == <<mode, place, outcome, result, arrived, hit, kafkaConnected, connecting,
          httpConnected, failures>>

Outcome == {"returned", "threw"}

TypeOK ==
    /\ mode \in DeliveryMode
    /\ place \in [Invocation -> Place]
    /\ outcome \in [Invocation -> Outcome \union {NoOutcome}]
    /\ result \in [Invocation -> Outcome \union {NoOutcome}]
    /\ arrived \in [Invocation -> SUBSET {"kafka", "http"}]
    /\ hit \subseteq Invocation
    /\ kafkaConnected \in BOOLEAN /\ connecting \in BOOLEAN
    /\ httpConnected \in BOOLEAN
    /\ failures \in 0 .. MaxFailures

Init ==
    /\ mode \in DeliveryMode
    /\ place = [c \in Invocation |-> "idle"]
    /\ outcome = [c \in Invocation |-> NoOutcome]
    /\ result = [c \in Invocation |-> NoOutcome]
    /\ arrived = [c \in Invocation |-> {}]
    /\ hit = {}
    /\ kafkaConnected = FALSE /\ connecting = FALSE /\ httpConnected = FALSE
    /\ failures = 0

-----------------------------------------------------------------------------

Failure == failures < MaxFailures /\ failures' = failures + 1

\* The wrapper hands on what the method did.
Return(c) == result' = [result EXCEPT ![c] = outcome[c]]

Invoke(c) ==
    /\ place[c] = "idle"
    /\ place' = [place EXCEPT ![c] = "method"]
    /\ UNCHANGED <<mode, outcome, result, arrived, hit, kafkaConnected, connecting,
                   httpConnected, failures>>

\* The method ends.  KafkaLoggerClient.connect: one call connects the producer, and
\* the others wait for the same promise.
MethodEnds(c) ==
    /\ place[c] = "method"
    /\ \E end \in Outcome : outcome' = [outcome EXCEPT ![c] = end]
    /\ place' = [place EXCEPT ![c] =
           CASE mode = "REST" -> "httpConnect"
             [] mode = "EVENT" /\ kafkaConnected -> "kafkaSend"
             [] OTHER -> "kafkaConnect"]
    /\ connecting' = (connecting \/ (mode = "EVENT" /\ ~kafkaConnected))
    /\ UNCHANGED <<mode, result, arrived, hit, kafkaConnected, httpConnected, failures>>

Waiting == {c \in Invocation : place[c] = "kafkaConnect"}

ProducerConnects ==
    /\ connecting
    /\ connecting' = FALSE /\ kafkaConnected' = TRUE
    /\ place' = [c \in Invocation |-> IF c \in Waiting THEN "kafkaSend" ELSE place[c]]
    /\ UNCHANGED <<mode, outcome, result, arrived, hit, httpConnected, failures>>

\* All that waited go on over HTTP.
ProducerFails ==
    /\ connecting /\ Failure
    /\ connecting' = FALSE
    /\ place' = [c \in Invocation |-> IF c \in Waiting THEN "httpConnect" ELSE place[c]]
    /\ hit' = hit \union Waiting
    /\ UNCHANGED <<mode, outcome, result, arrived, kafkaConnected, httpConnected>>

\* Mutation: the trace goes over HTTP as well.
KafkaSentAndOn(c) ==
    /\ place[c] = "kafkaSend"
    /\ arrived' = [arrived EXCEPT ![c] = @ \union {"kafka"}]
    /\ place' = [place EXCEPT ![c] = "httpConnect"]
    /\ UNCHANGED <<mode, outcome, result, hit, kafkaConnected, connecting, httpConnected,
                   failures>>

KafkaSent(c) ==
    /\ place[c] = "kafkaSend"
    /\ arrived' = [arrived EXCEPT ![c] = @ \union {"kafka"}]
    /\ place' = [place EXCEPT ![c] = "done"]
    /\ Return(c)
    /\ UNCHANGED <<mode, outcome, hit, kafkaConnected, connecting, httpConnected,
                   failures>>

\* The send rejects, and the broker may have the trace nevertheless.
KafkaSendFails(c) ==
    /\ place[c] = "kafkaSend" /\ Failure
    /\ \/ arrived' = [arrived EXCEPT ![c] = @ \union {"kafka"}]
       \/ UNCHANGED arrived
    /\ place' = [place EXCEPT ![c] = "httpConnect"]
    /\ hit' = hit \union {c}
    /\ UNCHANGED <<mode, outcome, result, kafkaConnected, connecting, httpConnected>>

\* HttpLoggerClient.connect: the probe of the host settles, and the client counts
\* as connected whatever it found; the callback sends at once.
HttpProbed(c) ==
    /\ place[c] = "httpConnect"
    /\ httpConnected' = TRUE
    /\ place' = [place EXCEPT ![c] = "httpSend"]
    /\ UNCHANGED <<mode, outcome, result, arrived, hit, kafkaConnected, connecting,
                   failures>>

\* close destroys the agent, and with it the sockets of what others are sending or
\* being answered.
Broken(c) == {d \in Invocation \ {c} : place[d] \in {"httpSend", "httpBody"}}

\* What becomes of invocation d when c closes.  Before the headers of the answer are
\* there the request fails; after them only the response is told, to which nobody
\* listens.
AfterClose(c, d) ==
    CASE d = c -> "done"
      [] d # c /\ place[d] = "httpSend" -> "broken"
      [] d # c /\ place[d] = "httpBody" -> "hung"
      [] OTHER -> place[d]

\* handleLogDelivery closes the client in the end.
CloseAndReturn(c) ==
    /\ httpConnected' = FALSE
    /\ place' = [d \in Invocation |-> AfterClose(c, d)]
    /\ Return(c)

\* The trace is there, or may be.
Arrive(c) == arrived' = [arrived EXCEPT ![c] = @ \union {"http"}]
MayArrive(c) == Arrive(c) \/ UNCHANGED arrived

\* The headers of the answer: the service has the trace, or answers with an error.
HttpAnswered(c) ==
    /\ place[c] = "httpSend"
    /\ place' = [place EXCEPT ![c] = "httpBody"]
    /\ \/ Arrive(c) /\ UNCHANGED <<hit, failures>>
       \/ Failure /\ hit' = hit \union {c} /\ UNCHANGED arrived
    /\ UNCHANGED <<mode, outcome, result, kafkaConnected, connecting, httpConnected>>

\* The answer is complete.
HttpSent(c) ==
    /\ place[c] = "httpBody"
    /\ CloseAndReturn(c)
    /\ hit' = hit \union Broken(c)
    /\ UNCHANGED <<mode, outcome, arrived, kafkaConnected, connecting, failures>>

\* Mutation: an error of the HTTP client replaces what the method returned.
HttpSendThrows(c) ==
    /\ place[c] \in {"httpSend", "httpBody"} /\ Failure
    /\ place' = [place EXCEPT ![c] = "done"]
    /\ result' = [result EXCEPT ![c] = "threw"]
    /\ hit' = hit \union {c}
    /\ UNCHANGED <<mode, outcome, arrived, kafkaConnected, connecting, httpConnected>>

\* The request fails or times out; the service may have the trace.
HttpSendFails(c) ==
    /\ place[c] \in {"httpSend", "httpBody"} /\ Failure
    /\ IF place[c] = "httpSend" THEN MayArrive(c) ELSE UNCHANGED arrived
    /\ CloseAndReturn(c)
    /\ hit' = hit \union {c} \union Broken(c)
    /\ UNCHANGED <<mode, outcome, kafkaConnected, connecting>>

\* The connection is lost in the middle of the answer: executeRequest listens to no
\* error, aborted or close of the response, so that its promise never settles, and
\* the caller of the method waits for ever.
AnswerCut(c) ==
    /\ place[c] = "httpBody" /\ Failure
    /\ place' = [place EXCEPT ![c] = "hung"]
    /\ hit' = hit \union {c}
    /\ UNCHANGED <<mode, outcome, result, arrived, kafkaConnected, connecting,
                   httpConnected>>

\* A request whose socket is gone fails; the service may have the trace.
BrokenSettles(c) ==
    /\ place[c] = "broken"
    /\ MayArrive(c)
    /\ CloseAndReturn(c)
    /\ hit' = hit \union Broken(c)
    /\ UNCHANGED <<mode, outcome, kafkaConnected, connecting, failures>>

-----------------------------------------------------------------------------

Deliver(c) ==
    \/ MethodEnds(c) \/ KafkaSent(c) \/ KafkaSendFails(c)
    \/ HttpProbed(c) \/ HttpAnswered(c) \/ HttpSent(c) \/ HttpSendFails(c)
    \/ AnswerCut(c) \/ BrokenSettles(c)

Connect == ProducerConnects \/ ProducerFails

Next == (\E c \in Invocation : Invoke(c) \/ Deliver(c)) \/ Connect

Spec == Init /\ [][Next]_vars

-----------------------------------------------------------------------------
(* Properties.                                                             *)

\* The caller gets what the method returned or threw, whatever happens to the
\* trace on its way over Kafka and HTTP.
OutcomeKept ==
    \A c \in Invocation : result[c] # NoOutcome => result[c] = outcome[c]

\* A trace that arrives nowhere was hit by a failure, or by another call that
\* closed the client they share; one that arrives twice was hit too, and so was a
\* call that never returns.
LossExplained ==
    \A c \in Invocation : place[c] \in {"done", "hung"} /\ c \notin hit =>
        place[c] = "done" /\ Cardinality(arrived[c]) = 1

\* No decorated call is under way but those that hang.
Settled == \A c \in Invocation : place[c] \in {"idle", "done", "hung"}

\* A decorated call returns, whatever is down, unless its trace was cut off in the
\* middle of the answer.
CallsReturn == <>[]Settled

=============================================================================
